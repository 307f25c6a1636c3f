---------------------------- MODULE ChunkProofs -----------------------------
(***************************************************************************)
(* Proofs about chunks: about ChunkCodec, the bytes of one, and about      *)
(* ChunkStream, what follows the index of an archive.                      *)
(*                                                                         *)
(* One chunk, for every byte size, every file and every foreign chunk:     *)
(* nothing is written outside the block, whatever encodeChunkPayload       *)
(* stores is decoded to the file it was given, and exactly what is well    *)
(* formed is accepted.  The argument is a correspondence between the runs  *)
(* of data and pieces of input.  Runs says that run m repeats input from   *)
(* offset starts[m] up to the start of the next; Progress says that the    *)
(* decoder stands at the start of a run and has produced the input up to   *)
(* there.                                                                  *)
(*                                                                         *)
(* The stream, for every set of archives and options: the two readers find *)
(* the same chunks, contents and end of the stream, if extraction gets     *)
(* that far.                                                               *)
(*                                                                         *)
(* Extraction looks at a chunk twice, the second time in the part of the   *)
(* stream that ends where the first pass found the last chunk to end;      *)
(* inspection looks at it in the whole stream.  The lemmas say that a      *)
(* shorter view shows the same chunk, if it shows it at all.               *)
(***************************************************************************)
EXTENDS ChunkCodec, ChunkStream, SequenceTheorems, DataInduction, TLAPS

-----------------------------------------------------------------------------
(* One chunk.                                                              *)

\* Where run m ends in input, and the next one starts.
EndOf(m) == IF m < Len(starts) THEN starts[m + 1] ELSE pos

RunCovers(m) ==
    /\ data[2 * m - 1] >= 1
    /\ starts[m] + data[2 * m - 1] = EndOf(m)
    /\ EndOf(m) <= Len(input)
    /\ \A j \in 1 .. data[2 * m - 1] : input[starts[m] + j] = data[2 * m]

Runs ==
    packed /\ (stage = "encode" \/ compressed) =>
       /\ Len(data) = 2 * Len(starts)
       /\ EndOf(0) = 0
       /\ \A m \in 1 .. Len(starts) : RunCovers(m)

Stored ==
    packed /\ stage # "encode" =>
       /\ expected = Len(input)
       /\ compressed => pos = Len(input)
       /\ ~compressed => data = input

Matches == \A j \in 1 .. Len(buffer) : buffer[j] = input[j]

Progress ==
    /\ stage \in {"encode", "read"} => taken = 0 /\ buffer = <<>>
    /\ stage = "decode" => compressed
    /\ packed /\ stage = "decode" =>
          \E m \in 0 .. Len(starts) :
             taken = 2 * m /\ Len(buffer) = EndOf(m) /\ Matches

CodecInv ==
    /\ CodecTypes
    /\ WithinBlock
    /\ Runs
    /\ Stored
    /\ Progress
    /\ RoundTrip

-----------------------------------------------------------------------------

\* Every variable keeps its type.
THEOREM CodecTypesTheorem == CodecSpec => []CodecTypes
  <1>1. CodecInit => CodecTypes
    <2>1. <<>> \in Seq(Octet) /\ <<>> \in Seq(Nat) /\ 0 \in 0 .. Len(<<>>)
      BY EmptySeq
    <2>2. \A f \in Inputs : f \in Seq(Octet) /\ 0 \in 0 .. Len(f)
      BY CodecAssumption, LenProperties
    <2> SUFFICES ASSUME CodecInit
                 PROVE  CodecTypes
      OBVIOUS
    <2>3. /\ packed \in BOOLEAN /\ compressed \in BOOLEAN
          /\ stage \in {"encode", "read"}
      BY CodecAssumption, Zenon DEF CodecInit
    <2>4. /\ input \in Seq(Octet) /\ data \in Seq(Octet)
          /\ expected = 0 \/ expected \in Nat
      BY <2>1, <2>2, CodecAssumption, Zenon DEF CodecInit
    <2>5. pos \in 0 .. Len(input) /\ taken \in Nat /\ buffer \in Seq(Octet) /\ starts \in Seq(Nat)
      BY <2>1, <2>4, LenProperties DEF CodecInit
    <2> QED
      BY <2>3, <2>4, <2>5 DEF CodecTypes
  <1>2. CodecTypes /\ [CodecNext]_codecVars => CodecTypes'
    <2> SUFFICES ASSUME CodecTypes, [CodecNext]_codecVars
                 PROVE  CodecTypes'
      OBVIOUS
    <2> USE CodecAssumption DEF CodecTypes
    <2>1. CASE EncodeRun
      <3>1. PICK n \in 1 .. MaxByte :
               /\ RunOf(pos, n)
               /\ data' = Append(Append(data, n), input[pos + 1])
               /\ pos' = pos + n
        BY <2>1 DEF EncodeRun
      <3>2. n \in Octet /\ input[pos + 1] \in Octet
        BY <2>1 DEF EncodeRun, Octet
      <3>3. data' \in Seq(Octet) /\ Len(data') = Len(data) + 2
        BY <3>1, <3>2
      <3>4. pos' \in 0 .. Len(input)
        BY <3>1 DEF RunOf
      <3> QED
        BY <2>1, <3>3, <3>4 DEF EncodeRun
    <2>2. CASE StoreCompressed
      BY <2>2 DEF StoreCompressed, Store
    <2>3. CASE StoreRaw
      <3>1. compressed' \in BOOLEAN /\ packed' \in BOOLEAN
        BY <2>3, Zenon DEF StoreRaw, Store
      <3>2. data' \in Seq(Octet) /\ expected' \in Nat /\ stage' = "read"
        BY <2>3, LenProperties DEF StoreRaw, Store
      <3> QED
        BY <2>3, <3>1, <3>2 DEF StoreRaw, Store
    <2>4. CASE ReadCompressed
      BY <2>4 DEF ReadCompressed
    <2>5. CASE ReadRaw
      BY <2>5 DEF ReadRaw
    <2>6. CASE DecodeRun
      <3>1. CASE BadRun
        BY <2>6, <3>1 DEF DecodeRun
      <3>2. CASE ~BadRun
        <4>1. taken + 2 <= Len(data) /\ data[taken + 1] \in Octet /\ data[taken + 2] \in Octet
          BY <3>2 DEF BadRun
        <4>2. [j \in 1 .. data[taken + 1] |-> data[taken + 2]] \in Seq(Octet)
          BY <4>1 DEF Octet
        <4>3. /\ buffer' = buffer \o [j \in 1 .. data[taken + 1] |-> data[taken + 2]]
              /\ taken' = taken + 2
          BY <2>6, <3>2 DEF DecodeRun
        <4>4. buffer' \in Seq(Octet)
          BY <4>2, <4>3, ConcatProperties
        <4> QED
          BY <2>6, <3>2, <4>3, <4>4 DEF DecodeRun
      <3> QED
        BY <3>1, <3>2
    <2>7. CASE DecodeEnd
      BY <2>7 DEF DecodeEnd
    <2>8. CASE CodecFinished \/ UNCHANGED codecVars
      BY <2>8 DEF CodecFinished, codecVars
    <2> QED
      BY <2>1, <2>2, <2>3, <2>4, <2>5, <2>6, <2>7, <2>8 DEF CodecNext
  <1> QED
    BY <1>1, <1>2, PTL DEF CodecSpec

-----------------------------------------------------------------------------
(* The steps of the encoder and of the decoder.                            *)

\* What two appended elements do to a sequence.
LEMMA AppendPair ==
    ASSUME NEW S, NEW s \in Seq(S), NEW x \in S, NEW y \in S,
           NEW t, t = Append(Append(s, x), y)
    PROVE  /\ t \in Seq(S)
           /\ Len(t) = Len(s) + 2
           /\ t[Len(s) + 1] = x
           /\ t[Len(s) + 2] = y
           /\ \A k \in 1 .. Len(s) : t[k] = s[k]
  <1>1. /\ Append(s, x) \in Seq(S)
        /\ Len(Append(s, x)) = Len(s) + 1
        /\ \A k \in 1 .. Len(s) : Append(s, x)[k] = s[k]
        /\ Append(s, x)[Len(s) + 1] = x
        /\ Len(s) \in Nat
    BY AppendProperties, LenProperties
  <1>2. /\ t \in Seq(S)
        /\ Len(t) = Len(Append(s, x)) + 1
        /\ \A k \in 1 .. Len(Append(s, x)) : t[k] = Append(s, x)[k]
        /\ t[Len(Append(s, x)) + 1] = y
    BY <1>1, AppendProperties
  <1> QED
    BY <1>1, <1>2

\* A run appended to the encoding covers the next piece of the input.
LEMMA EncodeStep ==
    ASSUME CodecTypes, Runs, packed, EncodeRun
    PROVE  Runs'
  <1> USE CodecAssumption DEF CodecTypes
  <1>1. PICK n \in 1 .. MaxByte :
           /\ RunOf(pos, n)
           /\ data' = Append(Append(data, n), input[pos + 1])
           /\ pos' = pos + n
    BY DEF EncodeRun
  <1>2. /\ stage = "encode" /\ pos < Len(input)
        /\ starts' = Append(starts, pos)
        /\ UNCHANGED <<packed, input, compressed, stage>>
    BY DEF EncodeRun
  <1>3. n \in Octet /\ input[pos + 1] \in Octet
    BY <1>2 DEF Octet
  <1>4. /\ Len(data) = 2 * Len(starts)
        /\ EndOf(0) = 0
        /\ \A m \in 1 .. Len(starts) : RunCovers(m)
    BY <1>2 DEF Runs
  <1> PICK L \in Nat : L = Len(starts)
    BY LenProperties
  <1>5. /\ Len(starts') = L + 1 /\ starts'[L + 1] = pos
        /\ \A m \in 1 .. L : starts'[m] = starts[m]
    BY <1>2
  <1>6. /\ Len(data') = 2 * (L + 1)
        /\ data'[2 * L + 1] = n /\ data'[2 * L + 2] = input[pos + 1]
        /\ \A k \in 1 .. 2 * L : data'[k] = data[k]
    <2>1. /\ Len(data') = Len(data) + 2
          /\ data'[Len(data) + 1] = n
          /\ data'[Len(data) + 2] = input[pos + 1]
          /\ \A k \in 1 .. Len(data) : data'[k] = data[k]
      BY <1>1, <1>3, AppendPair
    <2>2. Len(data) = 2 * L
      BY <1>4
    <2> QED
      BY <2>1, <2>2
  <1>7. EndOf(0)' = 0
    BY <1>4, <1>5, SMTT(60) DEF EndOf
  <1>8. ASSUME NEW m \in 1 .. L
        PROVE  RunCovers(m)'
    <2>1. EndOf(m)' = EndOf(m)
      <3>1. CASE m < L
        BY <1>5, <3>1, SMTT(60) DEF EndOf
      <3>2. CASE m = L
        BY <1>5, <3>2 DEF EndOf
      <3> QED
        BY <3>1, <3>2
    <2>2. 2 * m - 1 \in 1 .. 2 * L /\ 2 * m \in 1 .. 2 * L
      OBVIOUS
    <2>3. data'[2 * m - 1] = data[2 * m - 1] /\ data'[2 * m] = data[2 * m]
      BY <1>6, <2>2
    <2> QED
      BY <1>2, <1>4, <1>5, <2>1, <2>3 DEF RunCovers
  <1>9. RunCovers(L + 1)'
    <2>1. EndOf(L + 1)' = pos + n
      BY <1>1, <1>5 DEF EndOf
    <2>2. data'[2 * (L + 1) - 1] = n /\ data'[2 * (L + 1)] = input[pos + 1]
      <3>1. 2 * (L + 1) - 1 = 2 * L + 1 /\ 2 * (L + 1) = 2 * L + 2
        OBVIOUS
      <3> QED
        BY <1>6, <3>1
    <2>3. pos + n <= Len(input) /\ \A j \in 1 .. n : input[pos + j] = input[pos + 1]
      BY <1>1 DEF RunOf
    <2>4. n >= 1 /\ input' = input /\ starts'[L + 1] = pos
      BY <1>2, <1>5
    <2> HIDE CodecAssumption DEF CodecTypes
    <2> QED
      BY <2>1, <2>2, <2>3, <2>4 DEF RunCovers
  <1>10. \A m \in 1 .. Len(starts') : RunCovers(m)'
    BY <1>5, <1>8, <1>9
  <1> QED
    BY <1>5, <1>6, <1>7, <1>10 DEF Runs

\* Decoding a run of a stored chunk succeeds and reproduces its piece.
LEMMA DecodeStep ==
    ASSUME CodecInv, packed, DecodeRun
    PROVE  ~BadRun /\ Progress'
  <1> USE CodecAssumption DEF CodecInv, CodecTypes
  <1>1. /\ stage = "decode" /\ taken < Len(data) /\ compressed
        /\ UNCHANGED <<packed, input, pos, compressed, data, expected, starts>>
    BY DEF DecodeRun, Progress
  <1>2. PICK m \in 0 .. Len(starts) :
           taken = 2 * m /\ Len(buffer) = EndOf(m) /\ Matches
    BY <1>1 DEF Progress
  <1>3. /\ Len(data) = 2 * Len(starts) /\ EndOf(0) = 0
        /\ \A k \in 1 .. Len(starts) : RunCovers(k)
        /\ expected = Len(input)
    BY <1>1 DEF Runs, Stored
  <1>4. m + 1 \in 1 .. Len(starts)
    BY <1>1, <1>2, <1>3
  <1> DEFINE n == data[taken + 1]
             v == data[taken + 2]
  <1>5. 2 * (m + 1) - 1 = taken + 1 /\ 2 * (m + 1) = taken + 2 /\ taken + 2 <= Len(data)
    BY <1>2, <1>3, <1>4
  <1>6. n \in Nat /\ v \in Octet
    BY <1>5 DEF Octet
  <1>7. starts[m + 1] = Len(buffer)
    BY <1>2, <1>3, <1>4 DEF EndOf
  <1>8. /\ n >= 1 /\ Len(buffer) + n = EndOf(m + 1)
        /\ EndOf(m + 1) <= Len(input)
        /\ \A j \in 1 .. n : input[Len(buffer) + j] = v
    BY <1>3, <1>4, <1>5, <1>7 DEF RunCovers
  <1>9. ~BadRun
    BY <1>3, <1>5, <1>6, <1>8 DEF BadRun
  <1>10. /\ taken' = 2 * (m + 1)
         /\ buffer' = buffer \o [j \in 1 .. n |-> v]
         /\ stage' = "decode"
    BY <1>1, <1>5, <1>9 DEF DecodeRun
  <1>11. /\ Len(buffer') = Len(buffer) + n
         /\ \A j \in 1 .. Len(buffer) : buffer'[j] = buffer[j]
         /\ \A j \in 1 .. n : buffer'[Len(buffer) + j] = v
    BY <1>6, <1>10
  <1>12. Matches'
    <2> SUFFICES ASSUME NEW j \in 1 .. Len(buffer')
                 PROVE  buffer'[j] = input'[j]
      BY DEF Matches
    <2>1. CASE j <= Len(buffer)
      BY <1>1, <1>2, <1>11, <2>1 DEF Matches
    <2>2. CASE j > Len(buffer)
      <3>1. j - Len(buffer) \in 1 .. n /\ Len(buffer) + (j - Len(buffer)) = j
        BY <1>6, <1>11, <2>2
      <3> QED
        BY <1>1, <1>8, <1>11, <3>1
    <2> QED
      BY <2>1, <2>2
  <1>13. EndOf(m + 1)' = EndOf(m + 1) /\ Len(starts') = Len(starts)
    BY <1>1 DEF EndOf
  <1>14. Len(buffer') = EndOf(m + 1)'
    BY <1>8, <1>11, <1>13
  <1>15. m + 1 \in 0 .. Len(starts')
    BY <1>4, <1>13
  <1>16. Progress'
    BY <1>1, <1>10, <1>12, <1>14, <1>15 DEF Progress
  <1> QED
    BY <1>9, <1>16

-----------------------------------------------------------------------------
(* The inductive invariant.                                                *)

LEMMA CodecInvariant == CodecSpec => []CodecInv
  <1>1. CodecInit /\ CodecTypes => CodecInv
    <2> SUFFICES ASSUME CodecInit, CodecTypes
                 PROVE  CodecInv
      OBVIOUS
    <2>1. /\ pos = 0 /\ taken = 0 /\ buffer = <<>> /\ starts = <<>>
          /\ packed => stage = "encode" /\ data = <<>>
          /\ ~packed => stage = "read"
      BY Zenon DEF CodecInit
    <2>2. Len(<<>>) = 0
      BY EmptySeq
    <2>3. WithinBlock
      BY <2>1, <2>2 DEF WithinBlock, CodecTypes
    <2>4. Runs /\ Stored
      BY <2>1, <2>2 DEF Runs, Stored, EndOf
    <2>5. Progress /\ RoundTrip
      BY <2>1 DEF Progress, RoundTrip, CodecTypes
    <2> QED
      BY <2>3, <2>4, <2>5 DEF CodecInv
  <1>2. CodecInv /\ CodecTypes' /\ [CodecNext]_codecVars => CodecInv'
    <2> SUFFICES ASSUME CodecInv, CodecTypes', [CodecNext]_codecVars
                 PROVE  CodecInv'
      OBVIOUS
    <2>0. /\ CodecTypes /\ WithinBlock /\ Runs /\ Stored
          /\ Progress /\ RoundTrip
      BY DEF CodecInv
    <2>1. CASE EncodeRun
      <3>1. /\ stage = "encode" /\ stage' = "encode"
            /\ UNCHANGED <<packed, input, expected, taken, buffer>>
        BY <2>1 DEF EncodeRun
      <3>2. Runs'
        <4>1. CASE packed
          BY <2>0, <2>1, <4>1, EncodeStep
        <4>2. CASE ~packed
          BY <3>1, <4>2 DEF Runs
        <4> QED
          BY <4>1, <4>2
      <3>3. WithinBlock' /\ Stored' /\ Progress' /\ RoundTrip'
        BY <2>0, <3>1 DEF WithinBlock, Stored, Progress, RoundTrip
      <3> QED
        BY <3>2, <3>3 DEF CodecInv
    <2>2. CASE StoreCompressed
      <3>1. /\ stage = "encode" /\ stage' = "read" /\ compressed'
            /\ data' = data /\ expected' = Len(input) /\ pos = Len(input)
            /\ UNCHANGED <<packed, input, pos, taken, buffer, starts>>
        BY <2>2 DEF StoreCompressed, Store
      <3>2. Runs' /\ Stored'
        BY <2>0, <3>1 DEF Runs, EndOf, RunCovers, Stored
      <3>3. taken = 0 /\ buffer = <<>>
        BY <2>0, <3>1 DEF Progress
      <3>4. WithinBlock' /\ Progress' /\ RoundTrip'
        BY <2>0, <3>1, <3>3, EmptySeq, LenProperties
           DEF WithinBlock, Progress, RoundTrip, CodecTypes
      <3> QED
        BY <3>2, <3>4 DEF CodecInv
    <2>3. CASE StoreRaw
      <3>1. /\ stage = "encode" /\ stage' = "read" /\ ~compressed'
            /\ data' = input /\ expected' = Len(input)
            /\ UNCHANGED <<packed, input, pos, taken, buffer, starts>>
        BY <2>3, Zenon DEF StoreRaw, Store
      <3>2. Runs' /\ Stored'
        BY <3>1 DEF Runs, Stored
      <3>3. taken = 0 /\ buffer = <<>>
        BY <2>0, <3>1 DEF Progress
      <3>4. WithinBlock' /\ Progress' /\ RoundTrip'
        BY <2>0, <3>1, <3>3, EmptySeq, LenProperties
           DEF WithinBlock, Progress, RoundTrip, CodecTypes
      <3> QED
        BY <3>2, <3>4 DEF CodecInv
    <2>4. CASE ReadCompressed
      <3>1. /\ stage = "read" /\ compressed /\ stage' = "decode"
            /\ UNCHANGED <<packed, input, pos, compressed, data, expected, taken,
                           buffer, starts>>
        BY <2>4 DEF ReadCompressed
      <3>2. WithinBlock' /\ Runs' /\ Stored' /\ RoundTrip'
        BY <2>0, <3>1
           DEF WithinBlock, Runs, Stored, RoundTrip, EndOf, RunCovers
      <3>3. taken = 0 /\ buffer = <<>> /\ Len(buffer) = 0
        BY <2>0, <3>1, EmptySeq DEF Progress
      <3>4. packed => EndOf(0) = 0 /\ Len(starts) \in Nat
        BY <2>0, <3>1, LenProperties DEF Runs, CodecTypes
      <3>5. packed => /\ 0 \in 0 .. Len(starts) /\ taken = 2 * 0
                      /\ Len(buffer) = EndOf(0) /\ Matches
        BY <3>3, <3>4 DEF Matches
      <3>6. Progress'
        BY <3>1, <3>5 DEF Progress, EndOf, Matches
      <3> QED
        BY <3>2, <3>6 DEF CodecInv
    <2>5. CASE ReadRaw
      <3>1. /\ stage = "read" /\ ~compressed
            /\ UNCHANGED <<packed, input, pos, compressed, data, expected, taken, starts>>
            /\ \/ expected # Len(data) /\ stage' = "error" /\ buffer' = buffer
               \/ expected = Len(data) /\ stage' = "ok" /\ buffer' = data
        BY <2>5 DEF ReadRaw
      <3>2. Runs' /\ Stored' /\ Progress'
        BY <2>0, <3>1 DEF Runs, Stored, Progress
      <3>3. WithinBlock'
        BY <2>0, <3>1, LenProperties DEF WithinBlock, CodecTypes
      <3>4. RoundTrip'
        BY <2>0, <3>1 DEF RoundTrip, Stored
      <3> QED
        BY <3>2, <3>3, <3>4 DEF CodecInv
    <2>6. CASE DecodeRun
      <3>1. /\ stage = "decode" /\ compressed
            /\ UNCHANGED <<packed, input, pos, compressed, data, expected, starts>>
            /\ BadRun => stage' = "error" /\ buffer' = buffer
            /\ ~BadRun => /\ stage' = "decode"
                          /\ buffer' = buffer \o [j \in 1 .. data[taken + 1] |-> data[taken + 2]]
        BY <2>0, <2>6 DEF DecodeRun, Progress
      <3>2. Runs' /\ Stored'
        BY <2>0, <3>1 DEF Runs, Stored, EndOf, RunCovers
      <3>3. WithinBlock'
        <4>1. CASE BadRun
          BY <2>0, <3>1, <4>1 DEF WithinBlock
        <4>2. CASE ~BadRun
          <5>1. /\ taken + 2 <= Len(data)
                /\ Len(buffer) + data[taken + 1] <= expected
            <6>1. taken + 2 <= Len(data) /\ taken \in Nat /\ Len(data) \in Nat
              BY <2>0, <4>2, LenProperties DEF BadRun, CodecTypes
            <6>2. data[taken + 1] \in Octet
              BY <2>0, <6>1 DEF CodecTypes
            <6>3. data[taken + 1] \in Int /\ Len(buffer) \in Int /\ expected \in Int
              BY <2>0, <6>2, LenProperties DEF CodecTypes, Octet
            <6> QED
              BY <4>2, <6>1, <6>3 DEF BadRun
          <5>2. data[taken + 1] \in Octet /\ data[taken + 2] \in Octet
            BY <2>0, <5>1 DEF CodecTypes
          <5>3. Len(buffer') = Len(buffer) + data[taken + 1]
            BY <2>0, <3>1, <4>2, <5>2 DEF CodecTypes, Octet
          <5> QED
            BY <3>1, <5>1, <5>3 DEF WithinBlock
        <4> QED
          BY <4>1, <4>2
      <3>4. packed => ~BadRun /\ Progress'
        BY <2>6, DecodeStep
      <3>5. Progress' /\ RoundTrip'
        BY <2>0, <3>1, <3>4 DEF Progress, RoundTrip
      <3> QED
        BY <3>2, <3>3, <3>5 DEF CodecInv
    <2>7. CASE DecodeEnd
      <3>1. /\ stage = "decode" /\ taken >= Len(data)
            /\ stage' = IF Len(buffer) # expected THEN "error" ELSE "ok"
            /\ UNCHANGED <<packed, input, pos, compressed, data, expected, taken,
                           buffer, starts>>
        BY <2>7 DEF DecodeEnd
      <3>2. WithinBlock' /\ Runs' /\ Stored' /\ Progress'
        BY <2>0, <3>1
           DEF WithinBlock, Runs, Stored, Progress, EndOf, RunCovers
      <3>3. ASSUME packed
            PROVE  stage' = "ok" /\ buffer = input
        <4>1. /\ compressed /\ expected = Len(input) /\ pos = Len(input)
              /\ Len(data) = 2 * Len(starts)
          BY <2>0, <3>1, <3>3 DEF Progress, Stored, Runs
        <4>2. PICK m \in 0 .. Len(starts) :
                 taken = 2 * m /\ Len(buffer) = EndOf(m) /\ Matches
          BY <2>0, <3>1, <3>3 DEF Progress
        <4>3. m = Len(starts) /\ Len(buffer) = Len(input)
          BY <2>0, <3>1, <4>1, <4>2, LenProperties DEF EndOf, CodecTypes
        <4>4. buffer = input
          <5>1. /\ buffer \in [1 .. Len(buffer) -> Octet]
                /\ input \in [1 .. Len(buffer) -> Octet]
            BY <2>0, <4>3, LenProperties DEF CodecTypes
          <5> QED
            BY <4>2, <5>1 DEF Matches
        <4> QED
          BY <3>1, <4>1, <4>3, <4>4
      <3>4. RoundTrip'
        BY <3>1, <3>3 DEF RoundTrip
      <3> QED
        BY <3>2, <3>4 DEF CodecInv
    <2>8. CASE CodecFinished \/ UNCHANGED codecVars
      <3>1. UNCHANGED codecVars
        BY <2>8 DEF CodecFinished
      <3> QED
        BY <2>0, <3>1
           DEF codecVars, CodecInv, WithinBlock, Runs, Stored, Progress, RoundTrip,
               EndOf, RunCovers, Matches
    <2> QED
      BY <2>1, <2>2, <2>3, <2>4, <2>5, <2>6, <2>7, <2>8 DEF CodecNext
  <1> QED
    BY <1>1, <1>2, CodecTypesTheorem, PTL DEF CodecSpec

\* decodeRle never writes outside the block it acquired.
THEOREM WithinBlockTheorem == CodecSpec => []WithinBlock
  <1>1. CodecInv => WithinBlock
    BY DEF CodecInv
  <1> QED
    BY <1>1, CodecInvariant, PTL

\* Every file survives encodeChunkPayload and readChunk, compressed or not.
THEOREM RoundTripTheorem == CodecSpec => []RoundTrip
  <1>1. CodecInv => RoundTrip
    BY DEF CodecInv
  <1> QED
    BY <1>1, CodecInvariant, PTL

-----------------------------------------------------------------------------
(* What decodeRle accepts.                                                 *)

\* FlattenSeq appends one element after the other.
LEMMA Flattening ==
    ASSUME NEW S, NEW s \in Seq(Seq(S))
    PROVE  \E f \in [0 .. Len(s) -> Seq(S)] :
              /\ f[0] = <<>>
              /\ \A k \in 1 .. Len(s) : f[k] = f[k - 1] \o s[k]
              /\ FlattenSeq(s) = f[Len(s)]
  <1> PICK n \in Nat : n = Len(s)
    BY LenProperties
  <1> DEFINE step == [k \in 1 .. n |-> [v \in Seq(S) |-> v \o s[k]]]
             Body(g) == [i \in 1 .. Len(s) |-> IF i = 1 THEN s[i] ELSE g[i - 1] \o s[i]]
             flatten == CHOOSE g : g = Body(g)
  <1>1. \A k \in 1 .. n : s[k] \in Seq(S)
    OBVIOUS
  <1>2. step \in [1 .. n -> [Seq(S) -> Seq(S)]] /\ <<>> \in Seq(S)
    BY <1>1
  <1>3. PICK f \in [0 .. n -> Seq(S)] : Follows(f, <<>>, step, n)
    <2> HIDE DEF step
    <2> QED
      BY <1>2, RecursionUpTo
  <1>4. f[0] = <<>> /\ \A k \in 1 .. n : f[k] = f[k - 1] \o s[k]
    <2>1. \A k \in 1 .. n : f[k - 1] \in Seq(S)
      <3>1. \A k \in 1 .. n : k - 1 \in 0 .. n
        OBVIOUS
      <3> QED
        BY <3>1, Zenon
    <2>2. \A k \in 1 .. n, v \in Seq(S) : step[k][v] = v \o s[k]
      OBVIOUS
    <2> HIDE DEF step
    <2>3. f[0] = <<>> /\ \A k \in 1 .. n : f[k] = step[k][f[k - 1]]
      BY <1>3, Zenon DEF Follows
    <2> QED
      BY <2>1, <2>2, <2>3, Zenon
  <1>5. CASE n = 0
    <2>1. FlattenSeq(s) = s /\ s = <<>>
      BY <1>5, EmptySeq DEF FlattenSeq
    <2> QED
      BY <1>4, <1>5, <2>1
  <1>6. CASE n # 0
    <2> PICK g : g = [i \in 1 .. n |-> f[i]]
      OBVIOUS
    <2>1. g = Body(g)
      <3>1. f[1] = s[1]
        <4>1. 1 \in 1 .. n /\ 1 - 1 = 0
          BY <1>6
        <4>2. f[1] = f[0] \o s[1] /\ s[1] \in Seq(S)
          BY <1>1, <1>4, <4>1, Zenon
        <4> QED
          BY <1>4, <4>2
      <3>2. \A i \in 1 .. n : i # 1 => i - 1 \in 1 .. n
        OBVIOUS
      <3>3. \A i \in 1 .. n : f[i] = IF i = 1 THEN s[i] ELSE g[i - 1] \o s[i]
        BY <1>4, <3>1, <3>2
      <3> QED
        BY <3>3
    <2>2. FlattenSeq(s) = flatten[n]
      BY <1>6, Zenon DEF FlattenSeq
    <2>3. flatten = Body(flatten)
      <3> HIDE DEF Body
      <3> QED
        BY <2>1, Zenon
    <2> HIDE DEF flatten
    <2>4. \A i \in 1 .. n : flatten[i] = IF i = 1 THEN s[i] ELSE flatten[i - 1] \o s[i]
      BY <2>3
    <2> DEFINE T == {k \in Nat : k + 1 <= n => flatten[k + 1] = f[k + 1]}
    <2>5. 0 \in T
      <3>1. f[1] = s[1]
        <4>1. 1 \in 1 .. n /\ 1 - 1 = 0
          BY <1>6
        <4>2. f[1] = f[0] \o s[1] /\ s[1] \in Seq(S)
          BY <1>1, <1>4, <4>1, Zenon
        <4> QED
          BY <1>4, <4>2
      <3> QED
        BY <1>6, <2>4, <3>1
    <2>6. ASSUME NEW k \in Nat, k \in T
          PROVE  k + 1 \in T
      <3> SUFFICES ASSUME (k + 1) + 1 <= n
                   PROVE  flatten[(k + 1) + 1] = f[(k + 1) + 1]
        OBVIOUS
      <3>1. PICK i \in 1 .. n : i = (k + 1) + 1 /\ i # 1 /\ i - 1 = k + 1
        OBVIOUS
      <3>2. flatten[i - 1] = f[i - 1]
        BY <2>6, <3>1
      <3>3. flatten[i] = flatten[i - 1] \o s[i] /\ f[i] = f[i - 1] \o s[i]
        BY <1>4, <2>4, <3>1
      <3> QED
        BY <3>1, <3>2, <3>3
    <2> HIDE DEF T
    <2>7. \A k \in Nat : k \in T
      BY <2>5, <2>6, NumbersIn
    <2>8. n - 1 \in Nat /\ (n - 1) + 1 = n
      BY <1>6
    <2>9. flatten[n] = f[n]
      <3>1. n - 1 \in T
        BY <2>7, <2>8, Zenon
      <3>2. (n - 1) + 1 <= n => flatten[(n - 1) + 1] = f[(n - 1) + 1]
        BY <3>1 DEF T
      <3> QED
        BY <2>8, <3>2
    <2> QED
      BY <1>4, <2>2, <2>9
  <1> QED
    BY <1>5, <1>6

\* What the k-th run stands for, and f the expansion of the runs up to each.
Piece(runs, k) == [j \in 1 .. runs[2 * k - 1] |-> runs[2 * k]]

Expands(f, runs) ==
    /\ f \in [0 .. Len(runs) \div 2 -> Seq(Octet)]
    /\ f[0] = <<>>
    /\ \A k \in 1 .. Len(runs) \div 2 : f[k] = f[k - 1] \o Piece(runs, k)
    /\ Expanded(runs) = f[Len(runs) \div 2]

LEMMA Halves ==
    ASSUME NEW n \in Nat
    PROVE  /\ n \div 2 \in Nat
           /\ \A k \in 1 .. n \div 2 : 2 * k \in 1 .. n /\ 2 * k - 1 \in 1 .. n
  OBVIOUS

LEMMA PieceFacts ==
    ASSUME NEW runs \in Seq(Octet), NEW k \in 1 .. Len(runs) \div 2
    PROVE  /\ Piece(runs, k) \in Seq(Octet)
           /\ runs[2 * k - 1] \in Nat
           /\ Len(Piece(runs, k)) = runs[2 * k - 1]
  <1>1. runs[2 * k - 1] \in Octet /\ runs[2 * k] \in Octet
    BY LenProperties, Halves
  <1>2. PICK m \in Nat, b \in Octet : m = runs[2 * k - 1] /\ b = runs[2 * k]
    BY <1>1, CodecAssumption DEF Octet
  <1>3. [j \in 1 .. m |-> b] \in Seq(Octet) /\ Len([j \in 1 .. m |-> b]) = m
    OBVIOUS
  <1> QED
    BY <1>2, <1>3 DEF Piece

LEMMA ExpansionExists ==
    ASSUME NEW runs \in Seq(Octet)
    PROVE  \E f : Expands(f, runs)
  <1> PICK n \in Nat : n = Len(runs) \div 2
    BY LenProperties, Halves
  <1> PICK s : s = [k \in 1 .. n |-> Piece(runs, k)]
    OBVIOUS
  <1>1. \A k \in 1 .. n : Piece(runs, k) \in Seq(Octet)
    BY PieceFacts
  <1>2. s \in Seq(Seq(Octet)) /\ Len(s) = n
    BY <1>1
  <1>3. Expanded(runs) = FlattenSeq(s)
    BY DEF Expanded, Piece
  <1>4. PICK f \in [0 .. Len(s) -> Seq(Octet)] :
              /\ f[0] = <<>>
              /\ \A k \in 1 .. Len(s) : f[k] = f[k - 1] \o s[k]
              /\ FlattenSeq(s) = f[Len(s)]
    BY <1>2, Flattening, Zenon
  <1> QED
    BY <1>2, <1>3, <1>4 DEF Expands

\* The expansion grows with each run.
LEMMA ExpansionGrows ==
    ASSUME NEW runs \in Seq(Octet), NEW f, Expands(f, runs),
           NEW k \in 0 .. Len(runs) \div 2
    PROVE  Len(f[k]) <= Len(Expanded(runs))
  <1> PICK n \in Nat : n = Len(runs) \div 2
    BY LenProperties, Halves
  <1>1. \A i \in 0 .. n : f[i] \in Seq(Octet) /\ Len(f[i]) \in Nat
    BY LenProperties DEF Expands
  <1>2. ASSUME NEW i \in 1 .. n
        PROVE  Len(f[i - 1]) <= Len(f[i])
    <2>1. f[i] = f[i - 1] \o Piece(runs, i) /\ Piece(runs, i) \in Seq(Octet)
      BY PieceFacts DEF Expands
    <2>2. PICK t \in Seq(Octet) : t = f[i - 1]
      BY <1>1
    <2>3. Len(f[i]) = Len(t) + Len(Piece(runs, i)) /\ Len(Piece(runs, i)) \in Nat
      BY <2>1, <2>2, LenProperties
    <2> QED
      BY <2>2, <2>3, LenProperties
  <1> DEFINE T == {i \in Nat : k + i <= n => Len(f[k]) <= Len(f[k + i])}
  <1>3. 0 \in T
    BY <1>1
  <1>4. ASSUME NEW i \in Nat, i \in T
        PROVE  i + 1 \in T
    <2> SUFFICES ASSUME k + (i + 1) <= n
                 PROVE  Len(f[k]) <= Len(f[k + (i + 1)])
      OBVIOUS
    <2>1. PICK m \in 1 .. n : m = k + (i + 1) /\ m - 1 = k + i
      OBVIOUS
    <2>2. Len(f[k]) <= Len(f[m - 1]) /\ Len(f[m - 1]) <= Len(f[m])
      BY <1>2, <1>4, <2>1
    <2>3. Len(f[k]) \in Nat /\ Len(f[m - 1]) \in Nat /\ Len(f[m]) \in Nat
      BY <1>1, <2>1
    <2>4. Len(f[k]) <= Len(f[m])
      BY <2>2, <2>3
    <2> QED
      BY <2>1, <2>4
  <1> HIDE DEF T
  <1>5. PICK i \in Nat : k + i = n
    <2>1. n - k \in Nat /\ k + (n - k) = n
      OBVIOUS
    <2> QED
      BY <2>1
  <1>6. i \in T
    BY <1>3, <1>4, NumbersIn
  <1> QED
    BY <1>5, <1>6 DEF T, Expands

\* The decoder has read whole runs, none of them empty, and the block holds what
\* they stand for.
Decoded ==
    stage = "decode" =>
       \E n \in Nat :
          /\ taken = 2 * n /\ taken <= Len(data)
          /\ \A k \in 1 .. n : data[2 * k - 1] > 0
          /\ \A f : Expands(f, data) => buffer = f[n]

ExactInv == Decoded /\ DecodeExact

LEMMA DecodeRunExact ==
    ASSUME CodecInv, ExactInv, DecodeRun
    PROVE  ExactInv'
  <1> USE CodecAssumption
  <1>1. /\ CodecTypes /\ stage = "decode" /\ compressed /\ taken < Len(data)
        /\ UNCHANGED <<packed, input, pos, compressed, data, expected, starts>>
    BY DEF CodecInv, Progress, DecodeRun
  <1>2. data \in Seq(Octet) /\ Len(data) \in Nat /\ expected \in Nat /\ buffer \in Seq(Octet)
    BY <1>1, LenProperties DEF CodecTypes
  <1>3. PICK n \in Nat :
          /\ taken = 2 * n /\ taken <= Len(data)
          /\ \A k \in 1 .. n : data[2 * k - 1] > 0
          /\ \A f : Expands(f, data) => buffer = f[n]
    BY <1>1 DEF ExactInv, Decoded
  <1>4. CASE BadRun
    <2>1. stage' = "error" /\ buffer' = buffer
      BY <1>4 DEF DecodeRun
    <2> SUFFICES ASSUME WellFormed
                 PROVE  FALSE
      BY <1>1, <2>1 DEF ExactInv, Decoded, DecodeExact, WellFormed
    <2>2. /\ Len(data) % 2 = 0
          /\ \A k \in 1 .. Len(data) : k % 2 = 1 => data[k] > 0
          /\ Len(Expanded(data)) = expected
      BY <1>1 DEF WellFormed
    <2>3. /\ taken + 2 <= Len(data) /\ taken + 1 = 2 * (n + 1) - 1
          /\ n + 1 \in 1 .. Len(data) \div 2 /\ (taken + 1) % 2 = 1
      BY <1>1, <1>2, <1>3, <2>2
    <2>4. data[taken + 1] > 0
      BY <1>2, <1>3, <2>2, <2>3, SMTT(60)
    <2>5. PICK f : Expands(f, data)
      BY <1>2, ExpansionExists
    <2>6. /\ buffer = f[n]
          /\ f[n + 1] = f[n] \o Piece(data, n + 1)
      <3>1. (n + 1) - 1 = n
        OBVIOUS
      <3> QED
        BY <1>3, <2>3, <2>5, <3>1, Zenon DEF Expands
    <2>7. /\ Piece(data, n + 1) \in Seq(Octet) /\ data[taken + 1] \in Nat
          /\ Len(Piece(data, n + 1)) = data[taken + 1]
      BY <1>2, <2>3, PieceFacts
    <2>8. Len(f[n + 1]) = Len(buffer) + data[taken + 1]
      <3>1. f[n + 1] = buffer \o Piece(data, n + 1)
        BY <2>6
      <3> QED
        BY <1>2, <2>7, <3>1, ConcatProperties
    <2>9. Len(f[n + 1]) <= expected
      BY <1>2, <2>2, <2>3, <2>5, ExpansionGrows
    <2>10. Len(buffer) + data[taken + 1] <= expected
      BY <2>8, <2>9
    <2>11. /\ ~(taken + 2 > Len(data))
           /\ data[taken + 1] # 0
           /\ ~(Len(buffer) + data[taken + 1] > expected)
      <3>1. Len(buffer) \in Nat
        BY <1>2, LenProperties
      <3> QED
        BY <1>2, <1>3, <2>3, <2>4, <2>7, <2>10, <3>1
    <2> QED
      BY <1>4, <2>11 DEF BadRun
  <1>5. CASE ~BadRun
    <2>1. /\ taken' = taken + 2 /\ stage' = "decode"
          /\ buffer' = buffer \o [j \in 1 .. data[taken + 1] |-> data[taken + 2]]
      BY <1>1, <1>5 DEF DecodeRun
    <2>2. taken + 2 <= Len(data) /\ data[taken + 1] # 0
      BY <1>2, <1>3, <1>5 DEF BadRun
    <2>3. /\ n + 1 \in 1 .. Len(data) \div 2 /\ taken + 1 = 2 * (n + 1) - 1
          /\ taken + 2 = 2 * (n + 1) /\ n + 1 \in Nat
      BY <1>2, <1>3, <2>2
    <2>4. data[taken + 1] \in Nat
      BY <1>2, <2>3, PieceFacts
    <2>5. \A k \in 1 .. n + 1 : data[2 * k - 1] > 0
      <3> TAKE k \in 1 .. n + 1
      <3>1. k \in 1 .. n \/ k = n + 1
        OBVIOUS
      <3>2. data[2 * (n + 1) - 1] > 0
        BY <2>2, <2>3, <2>4
      <3> QED
        BY <1>3, <3>1, <3>2
    <2>6. ASSUME NEW f, Expands(f, data)
          PROVE  buffer' = f[n + 1]
      <3>1. f[n + 1] = f[n] \o Piece(data, n + 1) /\ buffer = f[n]
        <4>1. (n + 1) - 1 = n
          OBVIOUS
        <4> QED
          BY <1>3, <2>3, <2>6, <4>1, Zenon DEF Expands
      <3>2. Piece(data, n + 1) = [j \in 1 .. data[taken + 1] |-> data[taken + 2]]
        BY <2>3 DEF Piece
      <3> QED
        BY <2>1, <3>1, <3>2
    <2>7. Decoded'
      <3>1. data' = data
        BY <1>1
      <3> QED
        BY <2>1, <2>2, <2>3, <2>5, <2>6, <3>1 DEF Decoded
    <2> QED
      BY <2>1, <2>7 DEF ExactInv, DecodeExact
  <1> QED
    BY <1>4, <1>5

LEMMA DecodeEndExact ==
    ASSUME CodecInv, ExactInv, DecodeEnd
    PROVE  ExactInv'
  <1> USE CodecAssumption
  <1>1. /\ CodecTypes /\ stage = "decode" /\ compressed /\ taken >= Len(data)
        /\ UNCHANGED <<packed, input, pos, compressed, data, expected, taken, buffer, starts>>
        /\ stage' = IF Len(buffer) # expected THEN "error" ELSE "ok"
    BY DEF CodecInv, Progress, DecodeEnd
  <1>2. data \in Seq(Octet) /\ Len(data) \in Nat
    BY <1>1, LenProperties DEF CodecTypes
  <1>3. PICK n \in Nat :
          /\ taken = 2 * n /\ taken <= Len(data)
          /\ \A k \in 1 .. n : data[2 * k - 1] > 0
          /\ \A f : Expands(f, data) => buffer = f[n]
    BY <1>1 DEF ExactInv, Decoded
  <1>4. Len(data) = 2 * n /\ Len(data) % 2 = 0 /\ Len(data) \div 2 = n
    BY <1>1, <1>2, <1>3
  <1>5. buffer = Expanded(data)
    <2>1. PICK f : Expands(f, data)
      BY <1>2, ExpansionExists
    <2> QED
      BY <1>3, <1>4, <2>1 DEF Expands
  <1>6. ASSUME NEW k \in 1 .. Len(data), k % 2 = 1
        PROVE  data[k] > 0
    <2>1. PICK m \in 1 .. n : k = 2 * m - 1
      <3>1. (k + 1) \div 2 \in 1 .. n /\ k = 2 * ((k + 1) \div 2) - 1
        BY <1>4, <1>6
      <3> QED
        BY <3>1
    <2> QED
      BY <1>3, <2>1
  <1>7. WellFormed <=> Len(buffer) = expected
    BY <1>1, <1>4, <1>5, <1>6 DEF WellFormed
  <1> QED
    BY <1>1, <1>5, <1>7 DEF ExactInv, Decoded, DecodeExact, WellFormed

\* A chunk is accepted exactly when its runs are whole, not empty and stand for
\* as many bytes as the entry says, and then gives these bytes.
THEOREM DecodeExactTheorem == CodecSpec => []DecodeExact
  <1>1. CodecInit => ExactInv
    BY DEF CodecInit, ExactInv, Decoded, DecodeExact
  <1>2. CodecInv /\ ExactInv /\ [CodecNext]_codecVars => ExactInv'
    <2> SUFFICES ASSUME CodecInv, ExactInv, [CodecNext]_codecVars
                 PROVE  ExactInv'
      OBVIOUS
    <2>1. CASE EncodeRun \/ StoreCompressed \/ StoreRaw
      <3>1. stage' \in {"encode", "read"}
        BY <2>1 DEF EncodeRun, StoreCompressed, StoreRaw, Store
      <3> QED
        BY <3>1 DEF ExactInv, Decoded, DecodeExact
    <2>2. CASE ReadCompressed
      <3>1. /\ CodecTypes /\ stage' = "decode" /\ taken' = 0 /\ buffer' = <<>>
            /\ Len(data') \in Nat
        BY <2>2, LenProperties DEF CodecInv, CodecTypes, Progress, ReadCompressed
      <3>2. taken' = 2 * 0 /\ taken' <= Len(data') /\ 0 \in Nat
        BY <3>1
      <3>3. \A f : Expands(f, data') => buffer' = f[0]
        BY <3>1 DEF Expands
      <3>4. Decoded'
        BY <3>2, <3>3 DEF Decoded
      <3> QED
        BY <3>1, <3>4 DEF ExactInv, DecodeExact
    <2>3. CASE ReadRaw
      <3>1. /\ ~compressed' /\ UNCHANGED <<data, expected>>
            /\ \/ expected # Len(data) /\ stage' = "error"
               \/ expected = Len(data) /\ stage' = "ok" /\ buffer' = data
        BY <2>3 DEF ReadRaw
      <3> QED
        BY <3>1 DEF ExactInv, Decoded, DecodeExact, WellFormed
    <2>4. CASE DecodeRun
      BY <2>4, DecodeRunExact
    <2>5. CASE DecodeEnd
      BY <2>5, DecodeEndExact
    <2>6. CASE CodecFinished \/ UNCHANGED codecVars
      <3>1. UNCHANGED codecVars
        BY <2>6 DEF CodecFinished
      <3> QED
        BY <3>1 DEF codecVars, ExactInv, Decoded, DecodeExact, WellFormed
    <2> QED
      BY <2>1, <2>2, <2>3, <2>4, <2>5, <2>6 DEF CodecNext
  <1>3. ExactInv => DecodeExact
    BY DEF ExactInv
  <1> QED
    BY <1>1, <1>2, <1>3, CodecInvariant, PTL DEF CodecSpec

-----------------------------------------------------------------------------
(* The stream of chunks.                                                   *)

-----------------------------------------------------------------------------
(* Numbers.                                                                *)

LEMMA WeightDef ==
  /\ \A k \in Nat : Weight[k] \in Nat \ {0}
  /\ Weight[0] = 1
  /\ \A k \in Nat \ {0} : Weight[k] = 128 * Weight[k - 1]
  <1> DEFINE V == Nat \ {0}
             step == [k \in Nat |-> [w \in V |-> 128 * w]]
  <1>1. step \in [Nat -> [V -> V]] /\ 1 \in V
    OBVIOUS
  <1>2. PICK f \in [Nat -> V] : Recursive(f, 1, step)
    <2> HIDE DEF step, V
    <2> QED
      BY <1>1, Recursion
  <1>3. f[0] = 1 /\ \A k \in Nat \ {0} : f[k] = 128 * f[k - 1]
    <2>1. \A k \in Nat : f[k] \in V
      OBVIOUS
    <2>2. \A k \in Nat, w \in V : step[k][w] = 128 * w
      OBVIOUS
    <2> HIDE DEF step, V
    <2>3. f[0] = 1 /\ \A k \in Nat \ {0} : f[k] = step[k][f[k - 1]]
      BY <1>2, Zenon DEF Recursive
    <2> QED
      BY <2>1, <2>2, <2>3
  <1>4. f = [k \in Nat |-> IF k = 0 THEN 1 ELSE 128 * f[k - 1]]
    BY <1>3
  <1>5. Weight = [k \in Nat |-> IF k = 0 THEN 1 ELSE 128 * Weight[k - 1]]
    BY <1>4, Zenon DEF Weight
  <1> DEFINE S == {k \in Nat : Weight[k] \in Nat \ {0}}
  <1>6. 0 \in S
    BY <1>5
  <1>7. ASSUME NEW k \in Nat, k \in S
        PROVE  k + 1 \in S
    <2>1. Weight[k + 1] = 128 * Weight[k]
      BY <1>5
    <2> QED
      BY <1>7, <2>1
  <1> HIDE DEF S
  <1>8. \A k \in Nat : k \in S
    BY <1>6, <1>7, NumbersIn
  <1> QED
    BY <1>5, <1>8 DEF S

\* A number of n digits is less than the weight of a further one.
LEMMA NumberBelow ==
  ASSUME NEW n \in Nat, NEW digits \in [1 .. n -> 0 .. 127], Len(digits) = n
  PROVE  Number(digits) \in Size /\ Number(digits) < Weight[n]
  <1> DEFINE step == [k \in 1 .. n |-> [v \in Nat |-> v + digits[k] * Weight[k - 1]]]
             Sum(f) == [k \in 0 .. n |-> IF k = 0 THEN 0
                                         ELSE f[k - 1] + digits[k] * Weight[k - 1]]
             sum == CHOOSE f : f = Sum(f)
  <1>0. \A k \in 1 .. n : /\ digits[k] * Weight[k - 1] \in Nat
                           /\ digits[k] * Weight[k - 1] <= 127 * Weight[k - 1]
    <2> SUFFICES ASSUME NEW k \in 1 .. n
                 PROVE  /\ digits[k] * Weight[k - 1] \in Nat
                        /\ digits[k] * Weight[k - 1] <= 127 * Weight[k - 1]
      OBVIOUS
    <2>1. k - 1 \in Nat /\ digits[k] \in 0 .. 127
      OBVIOUS
    <2>2. Weight[k - 1] \in Nat
      BY <2>1, WeightDef
    <2>3. ASSUME NEW d \in 0 .. 127, NEW w \in Nat
          PROVE  d * w \in Nat /\ d * w <= 127 * w
      OBVIOUS
    <2> QED
      BY <2>1, <2>2, <2>3
  <1>1. step \in [1 .. n -> [Nat -> Nat]]
    BY <1>0
  <1>2. PICK f \in [0 .. n -> Nat] : Follows(f, 0, step, n)
    <2> HIDE DEF step
    <2> QED
      BY <1>1, RecursionUpTo
  <1>3. f[0] = 0 /\ \A k \in 1 .. n : f[k] = f[k - 1] + digits[k] * Weight[k - 1]
    <2>1. \A k \in 1 .. n : f[k - 1] \in Nat
      OBVIOUS
    <2>2. \A k \in 1 .. n, v \in Nat : step[k][v] = v + digits[k] * Weight[k - 1]
      OBVIOUS
    <2> HIDE DEF step
    <2>3. f[0] = 0 /\ \A k \in 1 .. n : f[k] = step[k][f[k - 1]]
      BY <1>2, Zenon DEF Follows
    <2> QED
      BY <2>1, <2>2, <2>3, Zenon
  <1>4. f = Sum(f)
    BY <1>3
  <1> HIDE DEF Sum
  <1>5. sum = Sum(sum)
    BY <1>4, Zenon
  <1> HIDE DEF sum
  <1>6. sum[0] = 0 /\ \A k \in 1 .. n : sum[k] = sum[k - 1] + digits[k] * Weight[k - 1]
    BY <1>5 DEF Sum
  <1> DEFINE S == {k \in Nat : k <= n => sum[k] \in Nat /\ sum[k] < Weight[k]}
  <1>7. 0 \in S
    <2>1. sum[0] = 0 /\ Weight[0] = 1
      BY <1>6, WeightDef
    <2> QED
      BY <2>1
  <1>8. ASSUME NEW k \in Nat, k \in S
        PROVE  k + 1 \in S
    <2> SUFFICES ASSUME k + 1 <= n
                 PROVE  sum[k + 1] \in Nat /\ sum[k + 1] < Weight[k + 1]
      OBVIOUS
    <2>1. k + 1 \in 1 .. n /\ (k + 1) - 1 = k /\ k + 1 \in Nat \ {0}
      OBVIOUS
    <2>2. sum[k + 1] = sum[k] + digits[k + 1] * Weight[k]
      BY <1>6, <2>1
    <2>3. /\ digits[k + 1] * Weight[k] \in Nat
          /\ digits[k + 1] * Weight[k] <= 127 * Weight[k]
      BY <1>0, <2>1
    <2>4. Weight[k + 1] = 128 * Weight[k] /\ Weight[k] \in Nat
      BY <2>1, WeightDef
    <2>5. sum[k] \in Nat /\ sum[k] < Weight[k]
      BY <1>8
    <2> QED
      BY <2>2, <2>3, <2>4, <2>5, SMTT(60)
  <1> HIDE DEF S
  <1>9. \A k \in Nat : k \in S
    BY <1>7, <1>8, NumbersIn
  <1>10. sum[n] \in Nat /\ sum[n] < Weight[n]
    BY <1>9 DEF S
  <1>11. Number(digits) = sum[n] % Word
    BY Zenon DEF Number, sum, Sum
  <1>12. ASSUME NEW a \in Nat
         PROVE  a % Word \in Size /\ a % Word <= a
    <2>1. Word \in Nat \ {0}
      BY StreamAssumption
    <2>2. a % Word \in 0 .. Word - 1
      BY <2>1
    <2>3. a < Word => a % Word = a
      BY <2>1
    <2> QED
      BY <2>1, <2>2, <2>3 DEF Size
  <1>13. Number(digits) \in Size /\ Number(digits) <= sum[n]
    BY <1>10, <1>11, <1>12
  <1>14. Weight[n] \in Nat
    BY WeightDef
  <1>15. Number(digits) \in Nat
    BY <1>13, StreamAssumption DEF Size
  <1> QED
    BY <1>10, <1>13, <1>14, <1>15

\* Every size has a shortest varint, of at most VarintLimit bytes.
LEMMA CanonicalSizeType ==
  ASSUME NEW size \in Size
  PROVE  /\ CanonicalSize(size) \in 1 .. VarintLimit
         /\ \A k \in 1 .. VarintLimit : size < Weight[k] => CanonicalSize(size) <= k
  <1> DEFINE Enough == {n \in 1 .. VarintLimit : size < Weight[n]}
  <1>1. Enough # {} /\ Enough \subseteq Nat
    <2>1. VarintLimit \in Enough
      BY StreamAssumption, WeightDef DEF Enough, Size
    <2>2. Enough \subseteq 1 .. VarintLimit
      BY Zenon DEF Enough
    <2>3. 1 .. VarintLimit \subseteq Nat
      BY StreamAssumption
    <2> QED
      BY <2>1, <2>2, <2>3, Zenon
  <1>2. PICK n \in Enough : \A k \in Enough : n <= k
    <2> HIDE DEF Enough
    <2> QED
      BY <1>1, LeastMember
  <1>3. n \in 1 .. VarintLimit /\ size < Weight[n]
    BY DEF Enough
  <1>4. \A k \in 1 .. n - 1 : ~(size < Weight[k])
    BY <1>2, <1>3, StreamAssumption DEF Enough
  <1>5. /\ CanonicalSize(size) \in 1 .. VarintLimit
        /\ size < Weight[CanonicalSize(size)]
        /\ \A k \in 1 .. CanonicalSize(size) - 1 : ~(size < Weight[k])
    BY <1>3, <1>4, Zenon DEF CanonicalSize
  <1> QED
    BY <1>5, StreamAssumption

-----------------------------------------------------------------------------
(* A shorter view of the stream.                                           *)

\* A varint ends in one place, in whatever view.
LEMMA VarintView ==
  ASSUME NEW a \in Nat, NEW b \in Nat, NEW p \in Nat,
         VarintEnds(a, p) # {}, VarintEnds(b, p) # {}
  PROVE  VarintEnds(a, p) = VarintEnds(b, p)
  <1>1. ASSUME NEW m \in VarintEnds(a, p), NEW n \in VarintEnds(b, p)
        PROVE  m = n
    <2>1. m \in Nat /\ n \in Nat /\ m >= 1 /\ n >= 1
      BY StreamAssumption DEF VarintEnds
    <2>2. /\ Final(stream[p + m]) /\ \A k \in 1 .. m - 1 : ~Final(stream[p + k])
          /\ Final(stream[p + n]) /\ \A k \in 1 .. n - 1 : ~Final(stream[p + k])
      BY Zenon DEF VarintEnds
    <2>3. (m < n => m \in 1 .. n - 1) /\ (n < m => n \in 1 .. m - 1)
      BY <2>1
    <2>4. ~(m < n) /\ ~(n < m)
      BY <2>2, <2>3, Zenon
    <2> QED
      BY <2>1, <2>4
  <1> QED
    BY <1>1

\* And what it encodes does not depend on the view.
LEMMA VarintSame ==
  ASSUME NEW a \in Nat, NEW b \in Nat, NEW p \in Nat,
         VarintEnds(a, p) # {}, VarintEnds(b, p) # {}
  PROVE  /\ VarintSize(a, p) = VarintSize(b, p)
         /\ VarintSize(a, p) \in VarintEnds(b, p)
         /\ Varint(a, p) = Varint(b, p)
  <1>1. VarintEnds(a, p) = VarintEnds(b, p)
    BY VarintView
  <1>2. VarintSize(a, p) = VarintSize(b, p)
    BY <1>1, Zenon DEF VarintSize
  <1>3. Digits(a, p) = Digits(b, p)
    BY <1>2, Zenon DEF Digits
  <1>4. VarintSize(a, p) \in VarintEnds(b, p)
    BY <1>1, Zenon DEF VarintSize
  <1> QED
    BY <1>2, <1>3, <1>4, Zenon DEF Varint

\* A longer view shows a varint that a shorter one shows.
LEMMA VarintGrows ==
  ASSUME NEW a \in Nat, NEW b \in Nat, NEW p \in Nat, a <= b
  PROVE  VarintEnds(a, p) \subseteq VarintEnds(b, p)
  BY StreamAssumption DEF VarintEnds

\* A chunk's header is the same in every view that shows it.
LEMMA HeaderView ==
  ASSUME NEW a \in Nat, NEW b \in Nat, NEW e \in IndexEntry,
         HasHeader(a, e.offset), HasHeader(b, e.offset)
  PROVE  /\ HeaderSize(a, e.offset) \in Nat \ {0}
         /\ HeaderSize(a, e.offset) = HeaderSize(b, e.offset)
         /\ ChunkLength(a, e.offset) = ChunkLength(b, e.offset)
         /\ e.offset + HeaderSize(a, e.offset) <= a
  <1>1. e.offset \in Nat /\ e.offset + 1 \in Nat
    BY StreamAssumption DEF IndexEntry, Size
  <1> DEFINE p == e.offset + 1
  <1>2. p \in Nat /\ VarintEnds(a, p) # {} /\ VarintEnds(b, p) # {}
    BY <1>1 DEF HasHeader
  <1>3. /\ VarintSize(a, p) = VarintSize(b, p)
        /\ VarintSize(a, p) \in VarintEnds(a, p)
        /\ Varint(a, p) = Varint(b, p)
    <2> HIDE DEF p
    <2> QED
      BY <1>2, VarintSame
  <1>4. VarintSize(a, p) \in Nat /\ p + VarintSize(a, p) <= a
    BY <1>1, <1>3, StreamAssumption DEF VarintEnds
  <1> QED
    BY <1>1, <1>3, <1>4 DEF HeaderSize, ChunkLength

\* A longer view shows a chunk that a shorter one shows.
LEMMA ChunkGrows ==
  ASSUME NEW a \in Nat, NEW b \in Nat, NEW e \in IndexEntry, a <= b,
         PayloadThere(a, e)
  PROVE  PayloadThere(b, e)
  <1>1. e.offset \in Nat /\ e.packed_size \in Nat
    BY StreamAssumption DEF IndexEntry, Size
  <1>2. HasHeader(a, e.offset)
    BY DEF PayloadThere
  <1>3. HasHeader(b, e.offset)
    <2>1. VarintEnds(a, e.offset + 1) \subseteq VarintEnds(b, e.offset + 1)
      BY <1>1, VarintGrows
    <2> QED
      BY <1>1, <1>2, <2>1 DEF HasHeader
  <1> QED
    BY <1>1, <1>2, <1>3, HeaderView DEF PayloadThere

\* A shorter view shows it too, if it reaches to the end of the chunk.
LEMMA ChunkReached ==
  ASSUME NEW a \in Nat, NEW b \in Nat, NEW e \in IndexEntry,
         PayloadThere(b, e),
         e.offset + HeaderSize(b, e.offset) + e.packed_size <= a
  PROVE  PayloadThere(a, e)
  <1>1. e.offset \in Nat /\ e.packed_size \in Nat /\ e.offset + 1 \in Nat
    BY StreamAssumption DEF IndexEntry, Size
  <1>2. HasHeader(b, e.offset)
    BY DEF PayloadThere
  <1>3. HasHeader(a, e.offset)
    <2>1. VarintEnds(b, e.offset + 1) # {}
      BY <1>2 DEF HasHeader
    <2>2. VarintSize(b, e.offset + 1) \in VarintEnds(b, e.offset + 1)
      BY <1>1, <2>1, VarintSame
    <2>3. VarintSize(b, e.offset + 1) \in VarintEnds(a, e.offset + 1)
      BY <1>1, <2>2, StreamAssumption DEF VarintEnds, HeaderSize
    <2>4. HeaderSize(b, e.offset) \in Nat \ {0}
      BY <1>2, HeaderView
    <2> QED
      BY <1>1, <2>3, <2>4 DEF HasHeader
  <1> QED
    BY <1>1, <1>2, <1>3, HeaderView DEF PayloadThere

\* What a chunk decodes to is the same in every view that shows it.
LEMMA ContentView ==
  ASSUME NEW a \in Nat, NEW b \in Nat, NEW e \in IndexEntry,
         PayloadThere(a, e), PayloadThere(b, e)
  PROVE  /\ ReadAccepts(a, e) <=> ReadAccepts(b, e)
         /\ Content(a, e) = Content(b, e)
         /\ IsNested(a, e) <=> IsNested(b, e)
  <1>1. HeaderSize(a, e.offset) = HeaderSize(b, e.offset)
    BY HeaderView DEF PayloadThere
  <1>2. Payload(a, e) = Payload(b, e)
    BY <1>1, Zenon DEF Payload
  <1>3. Content(a, e) = Content(b, e)
    BY <1>2, Zenon DEF Content
  <1>4. ReadAccepts(a, e) <=> ReadAccepts(b, e)
    BY <1>2, Zenon DEF ReadAccepts
  <1>5. IsNested(a, e) <=> IsNested(b, e)
    BY <1>3, Zenon DEF IsNested
  <1> QED
    BY <1>3, <1>4, <1>5

-----------------------------------------------------------------------------
(* Types.                                                                  *)

\* The manifest has an entry for each index entry that was inspected.
Counted ==
    /\ phase \in {"scan", "read"} => manifest = <<>>
    /\ phase = "inspect" => Len(manifest) = next - 1

\* The archive is one of those read, and its parts have their types.
LEMMA ArchiveType ==
  ASSUME TypeInvariant
  PROVE  /\ stream \in Seq(Byte) /\ entries \in Seq(IndexEntry)
         /\ Available \in Nat /\ Len(entries) \in Nat
         /\ \A k \in 1 .. Len(entries) : entries[k] \in IndexEntry
         /\ options \in InspectOptions
  <1>1. archive \in Archives /\ options \in OptionSets
    BY DEF TypeInvariant
  <1>2. stream \in Seq(Byte) /\ entries \in Seq(IndexEntry) /\ options \in InspectOptions
    BY <1>1, StreamAssumption, Zenon DEF stream, entries
  <1> QED
    BY <1>2, ElementOfSeq, LenProperties DEF Available

\* A chunk that is there ends inside the stream.
LEMMA LayoutEndType ==
  ASSUME NEW e \in IndexEntry, Available \in Nat, LayoutAccepts(e)
  PROVE  /\ LayoutEnd(e) \in Nat
         /\ LayoutEnd(e) <= Available
  <1>1. e.offset \in Nat /\ e.packed_size \in Nat
    BY StreamAssumption DEF IndexEntry, Size
  <1> QED
    BY <1>1, HeaderView DEF LayoutAccepts, PayloadThere, LayoutEnd

\* Extraction's end of a chunk is a number.
LEMMA ScanEndType ==
  ASSUME NEW e \in IndexEntry
  PROVE  ScanEnd(e) \in Nat
  <1>1. e.offset \in Nat /\ e.packed_size \in Nat /\ e.packed_size \in Size
    BY StreamAssumption DEF IndexEntry, Size
  <1>2. CanonicalSize(e.packed_size) \in Nat
    BY <1>1, CanonicalSizeType, StreamAssumption
  <1> QED
    BY <1>1, <1>2 DEF ScanEnd

\* Every action keeps the types and the count.
LEMMA TypeStep == TypeInvariant /\ Counted /\ [Next]_vars => TypeInvariant' /\ Counted'
  <1> SUFFICES ASSUME TypeInvariant, Counted, [Next]_vars
               PROVE  TypeInvariant' /\ Counted'
    OBVIOUS
  <1>1. /\ Available \in Nat /\ Len(entries) \in Nat
        /\ \A k \in 1 .. Len(entries) : entries[k] \in IndexEntry
    BY ArchiveType
  <1>2. archive' = archive /\ options' = options
    BY Zenon DEF Next, vars, ScanChunk, EndScan, ReadEntry, ReadExtension, InspectEntry,
                 InspectExtension, Validate, Finished
  <1>3. entries' = entries /\ ManifestEntry' = ManifestEntry
    BY <1>2, Zenon DEF entries, ManifestEntry
  <1>4. next <= Len(entries) => Current \in IndexEntry
    BY <1>1 DEF Current, TypeInvariant
  <1>5. CASE ScanChunk
    <2>1. ScanEnd(Current) \in Nat
      BY <1>4, <1>5, ScanEndType DEF ScanChunk
    <2>2. chunk_end' \in Nat
      BY <1>5, <2>1 DEF ScanChunk, Return, Later, TypeInvariant
    <2>3. /\ phase' \in {"scan", "inspect"} /\ next' \in 1 .. Len(entries) + 1
          /\ unpacked' \in {"running", "ok", "error"} /\ failed' \in 0 .. Len(entries) + 1
          /\ phase' = "inspect" => next' = 1
      BY <1>1, <1>5 DEF ScanChunk, Return, TypeInvariant
    <2>4. UNCHANGED inspectVars
      BY <1>5, Zenon DEF ScanChunk
    <2>5. manifest' = manifest /\ errors' = errors /\ chunk_stream_size' = chunk_stream_size
      BY <2>4 DEF inspectVars
    <2>6. TypeInvariant'
      BY <1>2, <1>3, <2>2, <2>3, <2>5 DEF TypeInvariant
    <2>7. manifest' = <<>> /\ Len(manifest') = 0
      BY <1>5, <2>5, EmptySeq, Zenon DEF ScanChunk, Counted
    <2>8. Counted'
      BY <2>3, <2>7 DEF Counted
    <2> QED
      BY <2>6, <2>8
  <1>6. CASE EndScan
    <2>1. /\ phase' \in {"read", "inspect"} /\ next' \in 1 .. Len(entries) + 1
          /\ unpacked' \in {"running", "ok", "error"} /\ failed' \in 0 .. Len(entries) + 1
          /\ phase' = "inspect" => next' = 1
          /\ chunk_end' \in Nat
      BY <1>1, <1>6 DEF EndScan, Return, TypeInvariant, extractVars
    <2>2. UNCHANGED inspectVars
      BY <1>6, Zenon DEF EndScan
    <2>3. manifest' = manifest /\ errors' = errors /\ chunk_stream_size' = chunk_stream_size
      BY <2>2 DEF inspectVars
    <2>4. TypeInvariant'
      BY <1>2, <1>3, <2>1, <2>3 DEF TypeInvariant
    <2>5. manifest' = <<>> /\ Len(manifest') = 0
      BY <1>6, <2>3, EmptySeq, Zenon DEF EndScan, Counted
    <2>6. Counted'
      BY <2>1, <2>5 DEF Counted
    <2> QED
      BY <2>4, <2>6
  <1>7. CASE ReadEntry \/ ReadExtension
    <2>1. /\ phase' \in {"read", "inspect"} /\ next' \in 1 .. Len(entries) + 1
          /\ unpacked' \in {"running", "ok", "error"} /\ failed' \in 0 .. Len(entries) + 1
          /\ phase' = "inspect" => next' = 1
          /\ chunk_end' \in Nat
      BY <1>1, <1>7 DEF ReadEntry, ReadExtension, Return, TypeInvariant, extractVars
    <2>2. UNCHANGED inspectVars /\ phase = "read"
      BY <1>7, Zenon DEF ReadEntry, ReadExtension
    <2>3. manifest' = manifest /\ errors' = errors /\ chunk_stream_size' = chunk_stream_size
      BY <2>2 DEF inspectVars
    <2>4. TypeInvariant'
      BY <1>2, <1>3, <2>1, <2>3 DEF TypeInvariant
    <2>5. manifest' = <<>> /\ Len(manifest') = 0
      BY <2>2, <2>3, EmptySeq, Zenon DEF Counted
    <2>6. Counted'
      BY <2>1, <2>5 DEF Counted
    <2> QED
      BY <2>4, <2>6
  <1>8. CASE InspectEntry
    <2>1. next \in 1 .. Len(entries) /\ phase = "inspect" /\ Len(manifest) = next - 1
      BY <1>1, <1>8 DEF InspectEntry, Counted, TypeInvariant
    <2>2. chunk_stream_size' \in Nat
      <3>1. LayoutAccepts(Current) => LayoutEnd(Current) \in Nat
        BY <1>1, <1>4, <2>1, LayoutEndType
      <3> QED
        BY <1>8, <3>1 DEF InspectEntry, Later, TypeInvariant
    <2>3. Report(LayoutAccepts(Current)) \in ManifestEntry
      <3>1. LayoutAccepts(Current) \in BOOLEAN
        BY Zenon DEF LayoutAccepts, PayloadThere
      <3> QED
        BY <2>1, <3>1, Zenon DEF Report, ManifestEntry
    <2>4. manifest' = Append(manifest, Report(LayoutAccepts(Current)))
      BY <1>8, Zenon DEF InspectEntry
    <2>5. /\ manifest' \in Seq(ManifestEntry)
          /\ Len(manifest') = next
          /\ \A k \in 1 .. next - 1 : manifest'[k] = manifest[k]
          /\ manifest'[next] = Report(LayoutAccepts(Current))
      BY <2>1, <2>3, <2>4, AppendProperties DEF TypeInvariant
    <2>6. \A k \in 1 .. Len(manifest') : manifest'[k].entry = k
      <3>1. \A k \in 1 .. next - 1 : manifest'[k].entry = k
        BY <2>1, <2>5 DEF TypeInvariant
      <3>2. manifest'[next].entry = next
        BY <2>5 DEF Report
      <3> QED
        BY <2>1, <2>5, <3>1, <3>2
    <2>7. \A x \in errors' : x.entry \in 0 .. Len(entries) + 1
      BY <1>1, <1>8, <2>1 DEF InspectEntry, TypeInvariant
    <2>8. UNCHANGED extractVars
      BY <1>8, Zenon DEF InspectEntry
    <2>9. /\ phase' \in {"inspect", "validate"} /\ next' \in 1 .. Len(entries) + 1
          /\ phase' = "inspect" => next' = next + 1
      BY <2>1, <1>1, <1>8 DEF InspectEntry
    <2>10. TypeInvariant'
      BY <1>2, <1>3, <2>2, <2>5, <2>6, <2>7, <2>8, <2>9 DEF TypeInvariant, extractVars
    <2>11. Counted'
      <3>1. next \in Int /\ Len(manifest') = next
        BY <2>1, <2>5
      <3>2. phase' = "inspect" => Len(manifest') = next' - 1
        BY <2>9, <3>1
      <3> QED
        BY <2>9, <3>2 DEF Counted
    <2> QED
      BY <2>10, <2>11
  <1>9. CASE InspectExtension
    <2>1. \A x \in errors' : x.entry \in 0 .. Len(entries) + 1
      BY <1>1, <1>9 DEF InspectExtension, TypeInvariant
    <2> QED
      BY <1>2, <1>3, <1>9, <2>1 DEF InspectExtension, TypeInvariant, Counted, extractVars
  <1>10. CASE Validate
    <2>1. \A k \in 1 .. Len(manifest) : manifest[k].entry \in 0 .. Len(entries) + 1
      <3>1. \A k \in 1 .. Len(manifest) : manifest[k] \in ManifestEntry
        BY ElementOfSeq DEF TypeInvariant
      <3> QED
        BY <1>1, <3>1 DEF ManifestEntry
    <2>2. \A x \in errors' : x.entry \in 0 .. Len(entries) + 1
      <3>1. CASE Overlaps
        BY <1>1, <1>10, <2>1, <3>1 DEF Validate, TypeInvariant
      <3>2. CASE ~Overlaps
        BY <1>1, <1>10, <2>1, <3>2 DEF Validate, TypeInvariant
      <3> QED
        BY <3>1, <3>2
    <2> QED
      BY <1>2, <1>3, <1>10, <2>2 DEF Validate, TypeInvariant, Counted, extractVars
  <1>11. CASE UNCHANGED vars
    BY <1>2, <1>3, <1>11 DEF TypeInvariant, Counted, vars
  <1> QED
    BY <1>5, <1>6, <1>7, <1>8, <1>9, <1>10, <1>11 DEF Next, Finished

\* Both hold at the start.
LEMMA TypeInit == Init => TypeInvariant /\ Counted
  <1> SUFFICES ASSUME Init
               PROVE  TypeInvariant /\ Counted
    OBVIOUS
  <1>1. archive \in Archives /\ options \in OptionSets
    BY DEF Init
  <1>2. entries \in Seq(IndexEntry) /\ Len(entries) \in Nat
    BY <1>1, StreamAssumption, LenProperties DEF entries
  <1>3. manifest = <<>> /\ manifest \in Seq(ManifestEntry) /\ Len(manifest) = 0
    BY EmptySeq DEF Init
  <1> QED
    BY <1>1, <1>2, <1>3 DEF Init, TypeInvariant, Counted

\* Every variable keeps its type, and the manifest's entries are those of the
\* index, in its order (inspect.cc:82-161).
THEOREM TypeCorrect == Spec => []TypeInvariant
  BY TypeInit, TypeStep, PTL DEF Spec

-----------------------------------------------------------------------------
(* Agreement.  What the two programs find in the first entries.            *)

EntryLaid(k) == LayoutAccepts(entries[k])
EntryEnd(k) == LayoutEnd(entries[k])
EntryGood(k) ==
    /\ ReadAccepts(Available, entries[k])
    /\ IsNested(Available, entries[k]) => Content(Available, entries[k]) \in Extractable
EntryProblem(k) == Problem(entries[k])

\* end is where the last chunk of the first n entries ends.
EndsAt(n, end) ==
    /\ \A k \in 1 .. n : EntryLaid(k) => EntryEnd(k) <= end
    /\ end = 0 \/ \E k \in 1 .. n : EntryLaid(k) /\ EntryEnd(k) = end

\* The end that extraction finds of the first n entries is that of the last
\* chunk only if its length is as short as possible.
EntryScanEnd(k) == ScanEnd(entries[k])
ScannedTo(n, end) ==
    /\ \A k \in 1 .. n : EntryLaid(k) /\ EntryScanEnd(k) <= end
    /\ end = 0 \/ \E k \in 1 .. n : EntryScanEnd(k) = end

ExtractedAll ==
    /\ \A k \in 1 .. Len(entries) : EntryGood(k)
    /\ EndsAt(Len(entries), chunk_end)
    /\ \E end \in Nat : end = chunk_end /\ ExtensionFits(end)
Refused ==
    \/ \E k \in 1 .. Len(entries) : k = failed /\ (Minimal => ~EntryGood(k))
    \/ /\ failed = Len(entries) + 1
       /\ EndsAt(Len(entries), chunk_end)
       /\ \E end \in Nat : end = chunk_end /\ ~ExtensionFits(end)

Extracted ==
    /\ phase \in {"scan", "read"} => unpacked = "running"
    /\ phase = "scan" => ScannedTo(next - 1, chunk_end)
    /\ phase = "read" =>
          /\ ScannedTo(Len(entries), chunk_end)
          /\ \A k \in 1 .. next - 1 : EntryGood(k) /\ EntryEnd(k) <= chunk_end
    /\ unpacked = "ok" => ExtractedAll
    /\ unpacked = "error" => Refused

Inspected ==
    /\ phase \in {"scan", "read"} => chunk_stream_size = 0 /\ errors = {}
    /\ phase = "inspect" => EndsAt(next - 1, chunk_stream_size)
    /\ phase \in {"validate", "done"} /\ (Thorough \/ unpacked = "ok") =>
          /\ Len(manifest) = Len(entries)
          /\ EndsAt(Len(entries), chunk_stream_size)
          /\ \E end \in Nat :
                /\ end = chunk_stream_size
                /\ ExtensionFits(end) \/ \E x \in errors : x.entry = Len(entries) + 1
    /\ \A k \in 1 .. Len(manifest) :
          /\ manifest[k].readable <=> EntryLaid(k)
          /\ \A c \in EntryProblem(k) : [code |-> c, entry |-> k] \in errors

AgreeInv ==
    /\ TypeInvariant
    /\ Counted
    /\ Extracted /\ Inspected /\ ChunksInside /\ ExtractableIsInspected

-----------------------------------------------------------------------------

\* None of this changes: the archive and the options are what they are.
LEMMA Steady ==
  ASSUME archive' = archive, options' = options
  PROVE  /\ \A k : /\ EntryLaid(k)' <=> EntryLaid(k)
                   /\ EntryEnd(k)' = EntryEnd(k)
                   /\ EntryScanEnd(k)' = EntryScanEnd(k)
                   /\ EntryGood(k)' <=> EntryGood(k)
                   /\ EntryProblem(k)' = EntryProblem(k)
         /\ \A end : ExtensionFits(end)' <=> ExtensionFits(end)
         /\ Minimal' <=> Minimal
         /\ Thorough' <=> Thorough
         /\ Available' = Available /\ entries' = entries
  <1> USE DEF stream, entries, Available
  <1>1. ASSUME NEW k
        PROVE  /\ EntryLaid(k)' <=> EntryLaid(k)
               /\ EntryEnd(k)' = EntryEnd(k)
               /\ EntryScanEnd(k)' = EntryScanEnd(k)
    BY Zenon DEF EntryLaid, EntryEnd, EntryScanEnd, LayoutAccepts, LayoutEnd, ScanEnd,
                 PayloadThere, HasHeader, HeaderSize, ChunkLength, Varint, VarintSize,
                 VarintEnds, Digits
  <1>2. ASSUME NEW k
        PROVE  EntryGood(k)' <=> EntryGood(k)
    BY Zenon DEF EntryGood, ReadAccepts, IsNested, Content, Payload, Compressed, PayloadThere,
                 HasHeader, HeaderSize, ChunkLength, Varint, VarintSize, VarintEnds, Digits
  <1>3. ASSUME NEW k
        PROVE  EntryProblem(k)' = EntryProblem(k)
    <2>1. LayoutAccepts(entries[k])' <=> LayoutAccepts(entries[k])
      BY Zenon DEF LayoutAccepts, PayloadThere, HasHeader, HeaderSize, ChunkLength, Varint,
                   VarintSize, VarintEnds, Digits
    <2>2. ReadAccepts(Available, entries[k])' <=> ReadAccepts(Available, entries[k])
      BY Zenon DEF ReadAccepts, Payload, Compressed, PayloadThere, HasHeader, HeaderSize,
                   ChunkLength, Varint, VarintSize, VarintEnds, Digits
    <2>3. Content(Available, entries[k])' = Content(Available, entries[k])
      <3>1. Payload(Available, entries[k])' = Payload(Available, entries[k])
        <4>1. HeaderSize(Available, entries[k].offset)' = HeaderSize(Available, entries[k].offset)
          BY Zenon DEF HeaderSize, VarintSize, VarintEnds
        <4>2. entries' = entries /\ stream' = stream
          BY Zenon
        <4> QED
          BY <4>1, <4>2, SMT DEF Payload
      <3>2. Compressed(entries[k])' <=> Compressed(entries[k])
        BY Zenon DEF Compressed
      <3> QED
        BY <3>1, <3>2, Zenon DEF Content
    <2>4. IsNested(Available, entries[k])' <=> IsNested(Available, entries[k])
      BY <2>3, Zenon DEF IsNested
    <2> USE <2>1, <2>2, <2>3, <2>4
    <2>5. Undecodable(entries[k])' <=> Undecodable(entries[k])
      BY Zenon DEF Undecodable
    <2>6. BadArchive(entries[k])' <=> BadArchive(entries[k])
      BY Zenon DEF BadArchive
    <2> QED
      BY <2>5, <2>6, Zenon DEF EntryProblem, Problem
  <1>4. ASSUME NEW end
        PROVE  ExtensionFits(end)' <=> ExtensionFits(end)
    BY Zenon DEF ExtensionFits, Varint, VarintSize, VarintEnds, Digits
  <1>5. Minimal' <=> Minimal
    <2>1. ASSUME NEW k
          PROVE  /\ HasHeader(Available, entries[k].offset)'
                      <=> HasHeader(Available, entries[k].offset)
                 /\ HeaderSize(Available, entries[k].offset)'
                      = HeaderSize(Available, entries[k].offset)
                 /\ ChunkLength(Available, entries[k].offset)'
                      = ChunkLength(Available, entries[k].offset)
      BY Zenon DEF HasHeader, HeaderSize, ChunkLength, Varint, VarintSize, VarintEnds, Digits
    <2> QED
      BY <2>1, Zenon DEF Minimal
  <1>6. Thorough' <=> Thorough
    BY Zenon DEF Thorough
  <1> QED
    BY <1>1, <1>2, <1>3, <1>4, <1>5, <1>6, Zenon

\* Of an entry that extraction accepts, nothing is reported.
LEMMA GoodIsFine ==
  ASSUME NEW k, EntryGood(k)
  PROVE  EntryLaid(k) /\ EntryProblem(k) = {}
  <1>1. EntryLaid(k) /\ LayoutAccepts(entries[k]) /\ ReadAccepts(Available, entries[k])
    BY Zenon DEF EntryGood, EntryLaid, ReadAccepts, LayoutAccepts
  <1>2. ~Undecodable(entries[k])
    BY <1>1, Zenon DEF Undecodable
  <1>3. ~BadArchive(entries[k])
    BY StreamAssumption, Zenon DEF EntryGood, BadArchive
  <1> QED
    BY <1>1, <1>2, <1>3, Zenon DEF EntryProblem, Problem

\* Of one that it does not, something is, or else of the nested archive's own
\* entries, but for an empty one that is marked as an archive.
LEMMA BadIsReported ==
  ASSUME TypeInvariant, NEW k \in 1 .. Len(entries), ~EntryGood(k),
         Thorough, ~(MarkedEmpty(entries[k]) /\ ReadAccepts(Available, entries[k]))
  PROVE  \/ EntryProblem(k) # {}
         \/ Content(Available, entries[k]) \in Inspectable \ Extractable
  <1> DEFINE e == entries[k]
  <1>1. e \in IndexEntry
    BY ArchiveType
  <1>2. CASE ~LayoutAccepts(e)
    BY <1>2, Zenon DEF EntryProblem, Problem
  <1>3. CASE LayoutAccepts(e) /\ ~ReadAccepts(Available, e)
    BY <1>3, Zenon DEF EntryProblem, Problem, Undecodable, Thorough
  <1>4. CASE LayoutAccepts(e) /\ ReadAccepts(Available, e)
    <2>0. e.nested => e.original_size # 0
      BY <1>4, Zenon DEF MarkedEmpty
    <2>1. IsNested(Available, e) /\ Content(Available, e) \notin Extractable
      BY <1>4, Zenon DEF EntryGood
    <2>2. Content(Available, e) # <<>>
      <3>1. Len(<<>>) = 0
        BY EmptySeq
      <3>2. CASE LooksLikeVec(Content(Available, e))
        BY <3>1, <3>2 DEF LooksLikeVec
      <3>3. CASE e.nested /\ Compressed(e)
        <4>1. Len(Content(Available, e)) = e.original_size
          BY <1>4, <3>3, Zenon DEF ReadAccepts, Decodes, Content
        <4> QED
          BY <2>0, <3>1, <3>3, <4>1
      <3>4. CASE e.nested /\ ~Compressed(e)
        <4>1. Content(Available, e) = Payload(Available, e) /\ e.original_size = e.packed_size
          BY <1>4, <3>4, Zenon DEF ReadAccepts, Content
        <4>2. e.packed_size \in Nat \ {0}
          BY <1>1, <2>0, <3>4, <4>1, StreamAssumption DEF IndexEntry, Size
        <4>3. 1 \in DOMAIN Payload(Available, e)
          BY <4>2 DEF Payload
        <4>4. DOMAIN <<>> = {}
          BY <3>1
        <4> QED
          BY <4>1, <4>3, <4>4, Zenon
      <3> QED
        BY <2>1, <3>2, <3>3, <3>4, Zenon DEF IsNested
    <2>3. CASE Content(Available, e) \in Inspectable
      BY <2>1, <2>3, Zenon
    <2>4. CASE Content(Available, e) \notin Inspectable
      BY <1>4, <2>1, <2>2, <2>4, Zenon DEF EntryProblem, Problem, BadArchive, Thorough
    <2> QED
      BY <2>3, <2>4
  <1> QED
    BY <1>2, <1>3, <1>4, Zenon

\* A chunk of the archive ends inside the stream.
LEMMA EntryEndType ==
  ASSUME TypeInvariant, NEW k \in 1 .. Len(entries), EntryLaid(k)
  PROVE  EntryEnd(k) \in Nat /\ EntryEnd(k) <= Available
  BY ArchiveType, LayoutEndType DEF EntryLaid, EntryEnd

\* Where the last of some chunks ends is inside the stream.
LEMMA EndInside ==
  ASSUME TypeInvariant, NEW n \in 0 .. Len(entries), NEW end \in Nat, EndsAt(n, end)
  PROVE  end <= Available
  BY ArchiveType, EntryEndType DEF EndsAt

\* The last of some chunks ends in one place.
LEMMA EndUnique ==
  ASSUME TypeInvariant, NEW n \in 0 .. Len(entries), NEW a \in Nat, NEW b \in Nat,
         EndsAt(n, a), EndsAt(n, b)
  PROVE  a = b
  <1>1. \A k \in 1 .. n : EntryLaid(k) => EntryEnd(k) \in Nat
    BY ArchiveType, EntryEndType
  <1> QED
    BY <1>1 DEF EndsAt

\* It is kept up to date the way both loops do it.
LEMMA EndNext ==
  ASSUME TypeInvariant, NEW n \in 1 .. Len(entries), NEW end \in Nat, EndsAt(n - 1, end)
  PROVE  /\ EntryLaid(n) => EndsAt(n, Later(end, EntryEnd(n)))
         /\ ~EntryLaid(n) => EndsAt(n, end)
  <1>1. \A k \in 1 .. n : EntryLaid(k) => EntryEnd(k) \in Nat
    BY ArchiveType, EntryEndType
  <1>2. n \in Nat /\ \A k \in 1 .. n : k = n \/ k \in 1 .. n - 1
    BY ArchiveType
  <1> QED
    BY <1>1, <1>2 DEF EndsAt, Later

\* A length is written in no fewer bytes than necessary: extraction finds no
\* chunk to end after its end.
LEMMA ScanEndBelow ==
  ASSUME TypeInvariant, NEW k \in 1 .. Len(entries), EntryLaid(k)
  PROVE  EntryScanEnd(k) \in Nat /\ EntryScanEnd(k) <= EntryEnd(k)
  <1> DEFINE e == entries[k]
             p == e.offset + 1
             n == VarintSize(Available, p)
  <1>1. e \in IndexEntry /\ Available \in Nat /\ stream \in Seq(Byte)
    <2>1. archive \in Archives
      BY DEF TypeInvariant
    <2> QED
      BY <2>1, ArchiveType, StreamAssumption DEF stream
  <1>2. e.offset \in Nat /\ e.packed_size \in Size /\ e.packed_size \in Nat /\ p \in Nat
    BY <1>1, StreamAssumption DEF IndexEntry, Size
  <1>3. /\ HasHeader(Available, e.offset) /\ ChunkLength(Available, e.offset) = e.packed_size
        /\ VarintEnds(Available, p) # {}
    BY Zenon DEF EntryLaid, LayoutAccepts, PayloadThere, HasHeader
  <1>4. n \in VarintEnds(Available, p)
    BY <1>3, Zenon DEF VarintSize
  <1>5. n \in 1 .. VarintLimit /\ n \in Nat /\ p + n <= Available
    BY <1>4, StreamAssumption DEF VarintEnds
  <1>6. \A j \in 1 .. n : p + j \in 1 .. Len(stream)
    BY <1>2, <1>5 DEF Available
  <1>7. \A j \in 1 .. n : stream[p + j] % 128 \in 0 .. 127
    <2>1. SUFFICES ASSUME NEW j \in 1 .. n
                   PROVE  stream[p + j] % 128 \in 0 .. 127
      OBVIOUS
    <2>2. stream[p + j] \in Byte
      <3> HIDE DEF n, p, stream
      <3> QED
        BY <1>1, <1>6, ElementOfSeq
    <2>3. \A b \in 0 .. 255 : b % 128 \in 0 .. 127
      OBVIOUS
    <2> QED
      BY <2>2, <2>3, Zenon DEF Byte
  <1>8. /\ Digits(Available, p) \in [1 .. n -> 0 .. 127]
        /\ Len(Digits(Available, p)) = n
    <2>1. Digits(Available, p) = [j \in 1 .. n |-> stream[p + j] % 128]
      BY DEF Digits
    <2> HIDE DEF n, p, stream
    <2> QED
      BY <1>5, <1>7, <2>1
  <1>9. e.packed_size = Number(Digits(Available, p))
    BY <1>3, Zenon DEF ChunkLength, Varint
  <1>10. e.packed_size < Weight[n]
    <2> HIDE DEF n, p, e
    <2> QED
      BY <1>5, <1>8, <1>9, NumberBelow
  <1>11. CanonicalSize(e.packed_size) \in Nat /\ CanonicalSize(e.packed_size) <= n
    <2> HIDE DEF n, p, e
    <2> QED
      BY <1>2, <1>5, <1>10, CanonicalSizeType, StreamAssumption
  <1>12. /\ EntryScanEnd(k) = e.offset + 1 + CanonicalSize(e.packed_size) + e.packed_size
         /\ EntryEnd(k) = e.offset + (1 + n) + e.packed_size
    BY DEF EntryScanEnd, ScanEnd, EntryEnd, LayoutEnd, HeaderSize
  <1> HIDE DEF n, p, e
  <1> QED
    BY <1>2, <1>5, <1>11, <1>12, SMTT(60)

\* With lengths as short as possible, it finds the same end.
LEMMA ScanEndAgrees ==
  ASSUME TypeInvariant, Minimal, NEW k \in 1 .. Len(entries), EntryLaid(k)
  PROVE  EntryScanEnd(k) = EntryEnd(k)
  <1> DEFINE e == entries[k]
  <1>1. e \in IndexEntry
    BY ArchiveType
  <1>2. HasHeader(Available, e.offset) /\ ChunkLength(Available, e.offset) = e.packed_size
    BY Zenon DEF EntryLaid, LayoutAccepts, PayloadThere
  <1>3. HeaderSize(Available, e.offset) = 1 + CanonicalSize(e.packed_size)
    BY <1>2, Zenon DEF Minimal
  <1>4. e.offset \in Nat /\ e.packed_size \in Nat /\ CanonicalSize(e.packed_size) \in Nat
    BY <1>1, CanonicalSizeType, StreamAssumption DEF IndexEntry, Size
  <1> QED
    BY <1>3, <1>4, SMTT(60) DEF EntryScanEnd, ScanEnd, EntryEnd, LayoutEnd

\* The last end it finds is inside the stream,
LEMMA ScannedInside ==
  ASSUME TypeInvariant, NEW n \in 0 .. Len(entries), NEW end \in Nat, ScannedTo(n, end)
  PROVE  end <= Available
  <1>1. \A k \in 1 .. n : /\ EntryScanEnd(k) \in Nat /\ EntryEnd(k) \in Nat
                           /\ EntryScanEnd(k) <= EntryEnd(k) /\ EntryEnd(k) <= Available
    BY ArchiveType, EntryEndType, ScanEndBelow DEF ScannedTo
  <1> QED
    BY <1>1, ArchiveType DEF ScannedTo

\* and is that of the last chunk, if no chunk goes on behind it.
LEMMA ScannedIsEnd ==
  ASSUME TypeInvariant, NEW n \in 0 .. Len(entries), NEW end \in Nat, ScannedTo(n, end),
         \A k \in 1 .. n : EntryEnd(k) <= end
  PROVE  EndsAt(n, end)
  <1>1. \A k \in 1 .. n : /\ EntryLaid(k) /\ EntryScanEnd(k) \in Nat /\ EntryEnd(k) \in Nat
                           /\ EntryScanEnd(k) <= EntryEnd(k) /\ EntryEnd(k) <= end
    BY ArchiveType, EntryEndType, ScanEndBelow DEF ScannedTo
  <1> QED
    BY <1>1, ArchiveType DEF ScannedTo, EndsAt

\* And what it reads up to there is what there is.
LEMMA ReadAgrees ==
  ASSUME TypeInvariant, NEW k \in 1 .. Len(entries), NEW end \in Nat,
         end <= Available, EntryLaid(k), EntryEnd(k) <= end
  PROVE  EntryGood(k) <=>
            /\ ReadAccepts(end, entries[k])
            /\ IsNested(end, entries[k]) => Content(end, entries[k]) \in Extractable
  <1>1. entries[k] \in IndexEntry /\ Available \in Nat
    BY ArchiveType
  <1>2. PayloadThere(Available, entries[k])
    BY DEF EntryLaid, LayoutAccepts
  <1>3. PayloadThere(end, entries[k])
    BY <1>1, <1>2, ChunkReached DEF EntryEnd, LayoutEnd
  <1>4. /\ ReadAccepts(end, entries[k]) <=> ReadAccepts(Available, entries[k])
        /\ Content(end, entries[k]) = Content(Available, entries[k])
        /\ IsNested(end, entries[k]) <=> IsNested(Available, entries[k])
    BY <1>1, <1>2, <1>3, ContentView
  <1> QED
    BY <1>4, Zenon DEF EntryGood

\* What it reads of a chunk lies before the end it has found.
LEMMA ReadInside ==
  ASSUME TypeInvariant, NEW k \in 1 .. Len(entries), NEW end \in Nat,
         end <= Available, EntryLaid(k), ReadAccepts(end, entries[k])
  PROVE  EntryEnd(k) <= end
  <1>1. entries[k] \in IndexEntry /\ Available \in Nat
    BY ArchiveType
  <1>2. PayloadThere(Available, entries[k]) /\ PayloadThere(end, entries[k])
    BY DEF EntryLaid, LayoutAccepts, ReadAccepts
  <1>3. HeaderSize(end, entries[k].offset) = HeaderSize(Available, entries[k].offset)
    BY <1>1, <1>2, HeaderView DEF PayloadThere
  <1> QED
    BY <1>2, <1>3 DEF PayloadThere, EntryEnd, LayoutEnd

\* Every action keeps what the two programs agree on.
LEMMA AgreeStep ==
  ASSUME TypeInvariant, Counted, Extracted, Inspected, ChunksInside,
         ExtractableIsInspected, [Next]_vars, TypeInvariant', Counted'
  PROVE  Extracted' /\ Inspected' /\ ChunksInside' /\ ExtractableIsInspected'
  <1>1. archive' = archive /\ options' = options
    BY Zenon DEF Next, vars, ScanChunk, EndScan, ReadEntry, ReadExtension, InspectEntry,
                 InspectExtension, Validate, Finished
  <1>2. /\ \A k : /\ EntryLaid(k)' <=> EntryLaid(k)
                  /\ EntryEnd(k)' = EntryEnd(k)
                  /\ EntryScanEnd(k)' = EntryScanEnd(k)
                  /\ EntryGood(k)' <=> EntryGood(k)
                  /\ EntryProblem(k)' = EntryProblem(k)
        /\ \A end : ExtensionFits(end)' <=> ExtensionFits(end)
        /\ (Thorough' <=> Thorough) /\ (Minimal' <=> Minimal)
        /\ Available' = Available /\ entries' = entries
    BY <1>1, Steady
  <1>3. /\ Available \in Nat /\ Len(entries) \in Nat
        /\ next \in 1 .. Len(entries) + 1
        /\ chunk_end \in Nat /\ chunk_stream_size \in Nat
        /\ chunk_end' \in Nat /\ chunk_stream_size' \in Nat
    BY ArchiveType DEF TypeInvariant
  <1>4. ASSUME phase \in {"scan", "read"}, UNCHANGED inspectVars,
               phase' \in {"scan", "read", "inspect"}, phase' = "inspect" => next' = 1,
               chunk_end' <= Available
        PROVE  Inspected' /\ ChunksInside' /\ ExtractableIsInspected'
    <2>1. /\ chunk_stream_size' = 0 /\ errors' = {}
          /\ manifest' = <<>> /\ Len(manifest') = 0
      BY <1>4, EmptySeq, Zenon DEF Inspected, Counted, inspectVars
    <2>2. Inspected'
      BY <1>4, <2>1 DEF Inspected, EndsAt
    <2> QED
      BY <1>2, <1>3, <1>4, <2>1, <2>2 DEF ChunksInside, ExtractableIsInspected
  <1>5. ASSUME phase \notin {"scan", "read"}, phase' \notin {"scan", "read"},
               UNCHANGED extractVars
        PROVE  Extracted' /\ chunk_end' <= Available
    <2>1. /\ unpacked' = unpacked /\ failed' = failed /\ chunk_end' = chunk_end
      BY <1>5 DEF extractVars
    <2>2. EndsAt(Len(entries), chunk_end)' <=> EndsAt(Len(entries), chunk_end)
      BY <1>2, <2>1, Zenon DEF EndsAt
    <2>3. ExtractedAll => ExtractedAll'
      BY <1>2, <2>1, <2>2, Zenon DEF ExtractedAll
    <2>4. Refused => Refused'
      <3>1. ASSUME NEW k \in 1 .. Len(entries), k = failed, Minimal => ~EntryGood(k)
            PROVE  Refused'
        BY <1>2, <2>1, <3>1 DEF Refused
      <3>2. ASSUME failed = Len(entries) + 1, EndsAt(Len(entries), chunk_end),
                   NEW end \in Nat, end = chunk_end, ~ExtensionFits(end)
            PROVE  Refused'
        BY <1>2, <2>1, <2>2, <3>2 DEF Refused
      <3> QED
        BY <3>1, <3>2, Zenon DEF Refused
    <2>5. Extracted'
      BY <1>5, <2>1, <2>3, <2>4, Zenon DEF Extracted
    <2> QED
      BY <1>2, <2>1, <2>5 DEF ChunksInside
  <1>6. CASE ScanChunk
    <2>1. /\ phase = "scan" /\ next \in 1 .. Len(entries) /\ UNCHANGED inspectVars
          /\ ScannedTo(next - 1, chunk_end) /\ unpacked = "running"
      BY <1>3, <1>6 DEF ScanChunk, Extracted
    <2>2. CASE ScanAccepts(Current)
      <3>1. EntryLaid(next)
        BY <2>2 DEF EntryLaid, LayoutAccepts, ScanAccepts, Current
      <3>2. /\ chunk_end' = Later(chunk_end, EntryScanEnd(next))
            /\ next' = next + 1 /\ phase' = "scan" /\ unpacked' = "running"
        BY <1>6, <2>1, <2>2 DEF ScanChunk, Current, EntryScanEnd
      <3>3. ScannedTo(next, chunk_end')
        <4>1. \A k \in 1 .. next - 1 : EntryScanEnd(k) \in Nat
          BY <1>3, <2>1, ScanEndBelow DEF ScannedTo
        <4>2. EntryScanEnd(next) \in Nat
          BY <2>1, <3>1, ScanEndBelow
        <4>3. next \in 1 .. next /\ \A k \in 1 .. next : k = next \/ k \in 1 .. next - 1
          BY <1>3
        <4>4. \A k \in 1 .. next - 1 : k \in 1 .. next
          BY <1>3
        <4> QED
          BY <1>3, <2>1, <3>1, <3>2, <4>1, <4>2, <4>3, <4>4 DEF ScannedTo, Later
      <3>4. chunk_end' <= Available
        BY <1>3, <2>1, <3>3, ScannedInside
      <3>5. Extracted'
        BY <1>2, <1>3, <2>1, <3>2, <3>3 DEF Extracted, ScannedTo
      <3> QED
        BY <1>4, <2>1, <3>2, <3>4, <3>5
    <2>3. CASE ~ScanAccepts(Current)
      <3>1. ~EntryGood(next)
        BY <2>3, GoodIsFine DEF EntryLaid, LayoutAccepts, ScanAccepts, Current
      <3>2. /\ unpacked' = "error" /\ failed' = next /\ chunk_end' = chunk_end
            /\ phase' = "inspect" /\ next' = 1
        BY <1>6, <2>3 DEF ScanChunk, Return
      <3>3. Extracted'
        BY <1>2, <2>1, <3>1, <3>2 DEF Extracted, Refused
      <3> QED
        BY <1>4, <2>1, <3>2, <3>3 DEF ChunksInside
    <2> QED
      BY <2>2, <2>3
  <1>7. CASE EndScan
    <2>1. /\ phase = "scan" /\ next - 1 = Len(entries) /\ UNCHANGED inspectVars
          /\ ScannedTo(Len(entries), chunk_end) /\ unpacked = "running"
      BY <1>3, <1>7 DEF EndScan, Extracted
    <2>2. phase' = "read" /\ next' = 1 /\ chunk_end' = chunk_end /\ unpacked' = "running"
      BY <1>3, <1>7, <2>1 DEF EndScan, ChunksInside, extractVars
    <2>3. Extracted'
      BY <1>2, <2>1, <2>2 DEF Extracted, ScannedTo
    <2> QED
      BY <1>4, <2>1, <2>2, <2>3 DEF ChunksInside
  <1>8. CASE ReadEntry
    <2>1. /\ phase = "read" /\ next \in 1 .. Len(entries) /\ UNCHANGED inspectVars
          /\ ScannedTo(Len(entries), chunk_end) /\ unpacked = "running"
          /\ \A k \in 1 .. next - 1 : EntryGood(k) /\ EntryEnd(k) <= chunk_end
      BY <1>3, <1>8 DEF ReadEntry, Extracted
    <2>2. EntryLaid(next) /\ EntryScanEnd(next) <= chunk_end /\ chunk_end <= Available
      BY <2>1 DEF ScannedTo, ChunksInside
    <2> DEFINE Accepted ==
            /\ ReadAccepts(chunk_end, Current)
            /\ IsNested(chunk_end, Current) => Content(chunk_end, Current) \in Extractable
    <2>3. EntryEnd(next) <= chunk_end => (EntryGood(next) <=> Accepted)
      BY <1>3, <2>1, <2>2, ReadAgrees DEF Current
    <2>4. CASE Accepted
      <3>1. /\ next' = next + 1 /\ phase' = "read" /\ chunk_end' = chunk_end
            /\ unpacked' = "running"
        BY <1>8, <2>1, <2>4 DEF ReadEntry, extractVars
      <3>2. EntryEnd(next) <= chunk_end
        BY <1>3, <2>1, <2>2, <2>4, ReadInside DEF Current
      <3>3. EntryGood(next)
        BY <2>3, <2>4, <3>2
      <3>4. \A k \in 1 .. next : k = next \/ k \in 1 .. next - 1
        BY <1>3
      <3>5. Extracted'
        BY <1>2, <1>3, <2>1, <3>1, <3>2, <3>3, <3>4 DEF Extracted, ScannedTo
      <3> QED
        BY <1>4, <2>1, <3>1, <3>5 DEF ChunksInside
    <2>5. CASE ~Accepted
      <3>1. /\ unpacked' = "error" /\ failed' = next /\ chunk_end' = chunk_end
            /\ phase' = "inspect" /\ next' = 1
        BY <1>8, <2>5 DEF ReadEntry, Return
      <3>2. Minimal => ~EntryGood(next)
        <4>1. Minimal => EntryScanEnd(next) = EntryEnd(next)
          BY <2>1, <2>2, ScanEndAgrees
        <4> HIDE DEF Accepted
        <4> QED
          BY <2>2, <2>3, <2>5, <4>1
      <3>3. Extracted'
        <4>1. PICK k \in 1 .. Len(entries) : k = next /\ (Minimal => ~EntryGood(k))
          BY <2>1, <3>2
        <4>2. k = failed' /\ (Minimal' => ~EntryGood(k)')
          BY <1>2, <3>1, <4>1, Zenon
        <4>3. Refused'
          BY <1>2, <4>2 DEF Refused
        <4> QED
          BY <3>1, <4>3 DEF Extracted
      <3> QED
        BY <1>4, <2>1, <3>1, <3>3 DEF ChunksInside
    <2> QED
      BY <2>4, <2>5
  <1>9. CASE ReadExtension
    <2>1. /\ phase = "read" /\ next - 1 = Len(entries) /\ UNCHANGED inspectVars
          /\ ScannedTo(Len(entries), chunk_end)
          /\ \A k \in 1 .. Len(entries) : EntryGood(k) /\ EntryEnd(k) <= chunk_end
      BY <1>3, <1>9 DEF ReadExtension, Extracted
    <2>2. EndsAt(Len(entries), chunk_end)
      BY <1>3, <2>1, ScannedIsEnd
    <2>3. /\ phase' = "inspect" /\ next' = 1 /\ chunk_end' = chunk_end
          /\ \/ unpacked' = "ok" /\ ExtensionFits(chunk_end)
             \/ unpacked' = "error" /\ failed' = Len(entries) + 1 /\ ~ExtensionFits(chunk_end)
      BY <1>3, <1>9, <2>1 DEF ReadExtension, Return
    <2>4. Extracted'
      BY <1>2, <1>3, <2>1, <2>2, <2>3 DEF Extracted, ExtractedAll, Refused, EndsAt
    <2> QED
      BY <1>4, <2>1, <2>3, <2>4 DEF ChunksInside
  <1>10. CASE InspectEntry
    <2>1. /\ phase = "inspect" /\ next \in 1 .. Len(entries) /\ UNCHANGED extractVars
          /\ phase' \in {"inspect", "validate"}
          /\ Len(manifest) = next - 1 /\ EndsAt(next - 1, chunk_stream_size)
      BY <1>3, <1>10 DEF InspectEntry, Inspected, Counted
    <2>2. LayoutAccepts(Current) <=> EntryLaid(next)
      BY DEF EntryLaid, Current
    <2>3. EndsAt(next, chunk_stream_size')
      <3>1. CASE EntryLaid(next)
        BY <1>3, <1>10, <2>1, <2>2, <3>1, EndNext DEF InspectEntry, Current, EntryEnd
      <3>2. CASE ~EntryLaid(next)
        BY <1>3, <1>10, <2>1, <2>2, <3>2, EndNext DEF InspectEntry
      <3> QED
        BY <3>1, <3>2
    <2>4. chunk_stream_size' <= Available
      BY <1>3, <2>1, <2>3, EndInside
    <2>5. /\ errors' = errors \cup {[code |-> c, entry |-> next] : c \in EntryProblem(next)}
          /\ manifest' = Append(manifest, Report(LayoutAccepts(Current)))
      BY <1>10, Zenon DEF InspectEntry, EntryProblem, Current
    <2>6. unpacked' = "ok" => EntryLaid(next) /\ errors' = errors
      BY <2>1, <2>5, GoodIsFine DEF Extracted, ExtractedAll, extractVars
    <2>7. phase' = "inspect" => next' = next + 1
      BY <1>10, <2>1, <2>2 DEF InspectEntry
    <2>8. phase' = "validate" => ~(Thorough \/ unpacked' = "ok")
      BY <1>10, <2>1, <2>2, <2>6, Zenon DEF InspectEntry, Thorough
    <2>9. \A k \in 1 .. Len(manifest') :
             /\ manifest'[k].readable <=> EntryLaid(k)
             /\ \A c \in EntryProblem(k) : [code |-> c, entry |-> k] \in errors'
      <3>1. /\ Len(manifest') = next
            /\ \A k \in 1 .. next - 1 : manifest'[k] = manifest[k]
            /\ manifest'[next] = Report(LayoutAccepts(Current))
        <4>1. Report(LayoutAccepts(Current)) \in ManifestEntry
          <5>1. LayoutAccepts(Current) \in BOOLEAN
            BY Zenon DEF LayoutAccepts, PayloadThere
          <5> QED
            BY <2>1, <5>1, Zenon DEF Report, ManifestEntry
        <4> QED
          BY <1>3, <2>1, <2>5, <4>1, AppendProperties DEF TypeInvariant
      <3>2. manifest'[next].readable <=> EntryLaid(next)
        <4>1. \A b : Report(b).readable = b
          BY DEF Report
        <4>2. manifest'[next].readable = LayoutAccepts(Current)
          BY <3>1, <4>1, Zenon
        <4>3. CASE EntryLaid(next)
          <5>1. LayoutAccepts(Current) = TRUE
            BY <2>2, <4>3, Zenon DEF LayoutAccepts, PayloadThere
          <5> QED
            BY <4>2, <4>3, <5>1
        <4>4. CASE ~EntryLaid(next)
          <5>1. LayoutAccepts(Current) = FALSE
            BY <2>2, <4>4, Zenon DEF LayoutAccepts, PayloadThere
          <5> QED
            BY <4>2, <4>4, <5>1
        <4> QED
          BY <4>3, <4>4
      <3>3. \A k \in 1 .. next - 1 :
               /\ manifest'[k].readable <=> EntryLaid(k)
               /\ \A c \in EntryProblem(k) : [code |-> c, entry |-> k] \in errors
        BY <2>1, <3>1, Zenon DEF Inspected
      <3>4. \A k \in 1 .. next : k = next \/ k \in 1 .. next - 1
        BY <1>3
      <3> QED
        BY <2>5, <3>1, <3>2, <3>3, <3>4, Zenon
    <2>10. Inspected'
      <3>1. phase' = "inspect" => EndsAt(next' - 1, chunk_stream_size')
        BY <1>3, <2>3, <2>7
      <3>2. (phase = "inspect" => EndsAt(next - 1, chunk_stream_size))'
        BY <1>2, <3>1 DEF EndsAt
      <3> QED
        BY <1>2, <2>1, <2>8, <2>9, <3>2, Zenon DEF Inspected
    <2>11. ExtractableIsInspected'
      BY <2>1, <2>6 DEF ExtractableIsInspected, extractVars
    <2> QED
      BY <1>2, <1>5, <2>1, <2>4, <2>10, <2>11 DEF ChunksInside
  <1>11. CASE InspectExtension
    <2>1. /\ phase = "inspect" /\ next - 1 = Len(entries) /\ UNCHANGED extractVars
          /\ phase' = "validate" /\ UNCHANGED <<chunk_stream_size, manifest>>
          /\ Len(manifest) = Len(entries) /\ EndsAt(Len(entries), chunk_stream_size)
      BY <1>3, <1>11 DEF InspectExtension, Inspected, Counted
    <2>2. CASE ExtensionFits(chunk_stream_size)
      <3>1. errors' = errors
        BY <1>3, <1>11, <2>2 DEF InspectExtension, ChunksInside
      <3>2. Inspected'
        BY <1>2, <1>3, <2>1, <2>2, <3>1 DEF Inspected, EndsAt
      <3> QED
        BY <1>2, <1>3, <1>5, <2>1, <3>1, <3>2
        DEF ChunksInside, ExtractableIsInspected, extractVars
    <2>3. CASE ~ExtensionFits(chunk_stream_size)
      <3>1. errors' = errors \cup {[code |-> "extension", entry |-> next]}
        BY <1>3, <1>11, <2>3 DEF InspectExtension, ChunksInside
      <3>2. \E x \in errors' : x.entry = Len(entries) + 1
        <4>1. [code |-> "extension", entry |-> next] \in errors'
          BY <3>1, Zenon
        <4> QED
          BY <1>3, <2>1, <4>1
      <3>3. Inspected'
        BY <1>2, <1>3, <2>1, <3>1, <3>2 DEF Inspected, EndsAt
      <3>4. unpacked # "ok"
        BY <1>3, <2>1, <2>3, EndUnique DEF Extracted, ExtractedAll
      <3> QED
        BY <1>2, <1>3, <1>5, <2>1, <3>3, <3>4
        DEF ChunksInside, ExtractableIsInspected, extractVars
    <2> QED
      BY <2>2, <2>3
  <1>12. CASE Validate
    <2>1. /\ phase = "validate" /\ phase' = "done"
          /\ UNCHANGED <<chunk_stream_size, manifest>> /\ UNCHANGED extractVars
      BY <1>12, Zenon DEF Validate
    <2>2. errors \subseteq errors'
      BY <1>12, Zenon DEF Validate
    <2>3. Inspected'
      <3>1. \A k \in 1 .. Len(manifest) :
               /\ manifest[k].readable <=> EntryLaid(k)
               /\ \A c \in EntryProblem(k) : [code |-> c, entry |-> k] \in errors'
        BY <2>2, Zenon DEF Inspected
      <3>2. ASSUME Thorough \/ unpacked = "ok"
            PROVE  /\ Len(manifest) = Len(entries)
                   /\ EndsAt(Len(entries), chunk_stream_size)
                   /\ \/ ExtensionFits(chunk_stream_size)
                      \/ \E x \in errors' : x.entry = Len(entries) + 1
        BY <2>1, <2>2, <3>2, Zenon DEF Inspected
      <3>3. (EndsAt(Len(entries), chunk_stream_size))' <=> EndsAt(Len(entries), chunk_stream_size)
        BY <1>2, <2>1, Zenon DEF EndsAt
      <3> QED
        BY <1>2, <1>3, <2>1, <3>1, <3>2, <3>3, Zenon DEF Inspected, extractVars
    <2>4. ASSUME unpacked = "ok", NEW x \in errors'
          PROVE  x.code = "layout.overlap"
      <3>1. \A k \in 1 .. Len(manifest) : manifest[k].readable
        BY <2>1, <2>4, GoodIsFine DEF Inspected, Extracted, ExtractedAll
      <3>2. (1 .. Len(manifest)) \ Readable = {}
        BY <3>1, Zenon DEF Readable
      <3>3. x \in errors \/ x = [code |-> "layout.overlap", entry |-> 0]
        BY <1>12, <2>4, <3>2, Zenon DEF Validate
      <3> QED
        BY <2>4, <3>3 DEF ExtractableIsInspected
    <2> QED
      BY <1>2, <1>3, <1>5, <2>1, <2>3, <2>4
      DEF ChunksInside, ExtractableIsInspected, extractVars
  <1>13. CASE UNCHANGED vars
    <2>1. /\ phase' = phase /\ next' = next /\ chunk_end' = chunk_end
          /\ unpacked' = unpacked /\ failed' = failed /\ errors' = errors
          /\ manifest' = manifest /\ chunk_stream_size' = chunk_stream_size
      BY <1>13 DEF vars, extractVars, inspectVars
    <2>2. /\ ScannedTo(next - 1, chunk_end)' <=> ScannedTo(next - 1, chunk_end)
          /\ ScannedTo(Len(entries), chunk_end)' <=> ScannedTo(Len(entries), chunk_end)
      BY <1>2, <2>1, Zenon DEF ScannedTo
    <2>3. /\ EndsAt(Len(entries), chunk_end)' <=> EndsAt(Len(entries), chunk_end)
          /\ EndsAt(next - 1, chunk_stream_size)' <=> EndsAt(next - 1, chunk_stream_size)
          /\ EndsAt(Len(entries), chunk_stream_size)'
               <=> EndsAt(Len(entries), chunk_stream_size)
      BY <1>2, <2>1, Zenon DEF EndsAt
    <2>4. Extracted'
      <3>1. (ExtractedAll => ExtractedAll') /\ (Refused => Refused')
        BY <1>2, <2>1, <2>3, Zenon DEF ExtractedAll, Refused
      <3> QED
        BY <1>2, <2>1, <2>2, <3>1, Zenon DEF Extracted
    <2>5. Inspected'
      BY <1>2, <2>1, <2>3, Zenon DEF Inspected
    <2> QED
      BY <1>2, <2>1, <2>4, <2>5, Zenon DEF ChunksInside, ExtractableIsInspected
  <1> QED
    BY <1>6, <1>7, <1>8, <1>9, <1>10, <1>11, <1>12, <1>13 DEF Next, Finished

\* The invariant holds.
LEMMA AgreeInvariant == Spec => []AgreeInv
  <1>1. Init => AgreeInv
    <2> SUFFICES ASSUME Init
                 PROVE  AgreeInv
      OBVIOUS
    <2>1. TypeInvariant /\ Counted
      BY TypeInit
    <2>2. Available \in Nat /\ manifest = <<>> /\ Len(manifest) = 0
      BY <2>1, ArchiveType, EmptySeq DEF Init
    <2>3. Extracted /\ Inspected /\ ChunksInside /\ ExtractableIsInspected
      BY <2>2 DEF Init, Extracted, Inspected, ChunksInside, ExtractableIsInspected, EndsAt,
                   ScannedTo
    <2> QED
      BY <2>1, <2>3 DEF AgreeInv
  <1>2. AgreeInv /\ [Next]_vars => AgreeInv'
    <2> SUFFICES ASSUME AgreeInv, [Next]_vars
                 PROVE  AgreeInv'
      OBVIOUS
    <2>1. TypeInvariant' /\ Counted'
      BY TypeStep DEF AgreeInv
    <2> QED
      BY <2>1, AgreeStep DEF AgreeInv
  <1> QED
    BY <1>1, <1>2, PTL DEF Spec

\* Where parseArchiveBytes fails, verification reports an error of that entry
\* or of the extension, unless the entry is an empty one that is marked as an
\* archive and has a chunk that can be read.
THEOREM FailureTheorem == Spec => []FailureLocated
  <1>1. AgreeInv => FailureLocated
    <2> SUFFICES ASSUME AgreeInv, phase = "done", unpacked = "error", Thorough, Minimal,
                        ~(/\ failed <= Len(entries)
                          /\ MarkedEmpty(entries[failed])
                          /\ ReadAccepts(Available, entries[failed]))
                 PROVE  \/ \E x \in errors : x.entry = failed
                        \/ /\ failed <= Len(entries)
                           /\ Content(Available, entries[failed]) \in Inspectable \ Extractable
      BY Zenon DEF FailureLocated
    <2>1. TypeInvariant /\ Extracted /\ Inspected /\ Len(entries) \in Nat
      BY ArchiveType DEF AgreeInv
    <2>2. /\ Len(manifest) = Len(entries)
          /\ EndsAt(Len(entries), chunk_stream_size)
          /\ ExtensionFits(chunk_stream_size) \/ \E x \in errors : x.entry = Len(entries) + 1
      BY <2>1, Zenon DEF Inspected
    <2>3. CASE failed \in 1 .. Len(entries) /\ ~EntryGood(failed)
      <3>1. \/ EntryProblem(failed) # {}
            \/ Content(Available, entries[failed]) \in Inspectable \ Extractable
        <4>1. ~(MarkedEmpty(entries[failed]) /\ ReadAccepts(Available, entries[failed]))
          BY <2>1, <2>3
        <4> QED
          BY <2>1, <2>3, <4>1, BadIsReported
      <3>2. ASSUME NEW c \in EntryProblem(failed)
            PROVE  \E x \in errors : x.entry = failed
        <4>1. [code |-> c, entry |-> failed] \in errors
          BY <2>1, <2>2, <2>3, Zenon DEF Inspected
        <4> QED
          BY <4>1
      <3> QED
        BY <2>1, <2>3, <3>1, <3>2
    <2>4. CASE /\ failed = Len(entries) + 1
               /\ EndsAt(Len(entries), chunk_end)
               /\ ~ExtensionFits(chunk_end)
      <3>1. chunk_end = chunk_stream_size
        BY <2>1, <2>2, <2>4, EndUnique DEF TypeInvariant
      <3> QED
        BY <2>2, <2>4, <3>1, Zenon
    <2> QED
      BY <2>1, <2>3, <2>4 DEF Extracted, Refused
  <1> QED
    BY <1>1, AgreeInvariant, PTL

\* What extraction accepts is inspected without error, however lengths are
\* written.
THEOREM InspectedTheorem == Spec => []ExtractableIsInspected
  <1>1. AgreeInv => ExtractableIsInspected
    BY DEF AgreeInv
  <1> QED
    BY <1>1, AgreeInvariant, PTL

\* Both find the extension in the same place, and no reader looks for it outside
\* the archive, however lengths are written.
THEOREM AgreeTheorem == Spec => []StreamEndAgrees
  <1>1. AgreeInv => StreamEndAgrees
    <2> SUFFICES ASSUME AgreeInv
                 PROVE  StreamEndAgrees
      OBVIOUS
    <2>1. ASSUME unpacked = "ok", phase \in {"validate", "done"}
          PROVE  chunk_end = chunk_stream_size
      BY <2>1, ArchiveType, EndUnique, SMTT(60)
      DEF AgreeInv, Extracted, ExtractedAll, Inspected, TypeInvariant
    <2> QED
      BY <2>1 DEF AgreeInv, StreamEndAgrees
  <1> QED
    BY <1>1, AgreeInvariant, PTL

=============================================================================
