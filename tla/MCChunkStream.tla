--------------------------- MODULE MCChunkStream ---------------------------
(***************************************************************************)
(* ChunkStream for TLC.  Of the byte values, 0, 1 and 2 occur as flags,    *)
(* lengths, run lengths and contents, 128 as a varint's first byte that    *)
(* adds nothing to it: a number has encodings of one, two and three bytes. *)
(***************************************************************************)
EXTENDS ChunkStream

CONSTANTS SingleLength, PairLength

Alphabet == {0, 1, 2, 128}

Offered(offsets, sizes) ==
    [offset : offsets, packed_size : sizes, original_size : sizes, nested : BOOLEAN]

Singles ==
    [stream : BoundedSeq(Alphabet, SingleLength),
     entries : {<<e>> : e \in Offered(0 .. 2, 0 .. 2)},
     extension : BOOLEAN]

Pairs ==
    [stream : BoundedSeq({0, 1, 128}, PairLength),
     entries : {<<d, e>> : d \in Offered({0, 1}, {0, 1}),
                           e \in {f \in Offered(0 .. 3, {0, 1}) : ~f.nested}},
     extension : {FALSE}]

\* A chunk that is an empty archive, and one that is no archive after four
\* bytes; both with an extension.
Header == <<86, 69, 67, 33, 49, 90, 0>>
Wrapped(bytes, nested) ==
    [stream |-> <<0, Len(bytes)>> \o bytes \o <<1, 1, 0>>,
     entries |-> <<[offset |-> 0, packed_size |-> Len(bytes),
                    original_size |-> Len(bytes), nested |-> nested]>>,
     extension |-> TRUE]

MCArchives ==
    Singles \cup Pairs
      \cup {[stream |-> <<>>, entries |-> <<>>, extension |-> x] : x \in BOOLEAN}
      \cup {Wrapped(SubSeq(Header, 1, n), nested) : n \in 3 .. 7, nested \in BOOLEAN}

\* The defaults, and each of the three switched off.
MCOptionSets ==
    {o \in InspectOptions : Cardinality({f \in DOMAIN o : ~o[f]}) <= 1}

MCExtractable == {Header}
=============================================================================
