---------------------------- MODULE ChunkStream ----------------------------
(***************************************************************************)
(* The two readers of an archive after its index: extraction               *)
(* (parseArchiveBytes in src/src/nested.cc, with no file system) and       *)
(* inspection followed by validation (src/src/inspect.cc,                  *)
(* src/src/validator.cc).  Both programs are run on the same bytes, one    *)
(* after the other, as `vector unpack` and `vector verify` would be.       *)
(*                                                                         *)
(* The bytes are those of the chunk stream and the extension; each reader  *)
(* finds a chunk's header, length and end in its own way.  What a nested   *)
(* archive comes to, one level down, is given by the sets Extractable and  *)
(* Inspectable.  Entries have no names here, so that what the programs say *)
(* of names (an empty one is an error to inspection only) is left out.     *)
(***************************************************************************)
EXTENDS Integers, Sequences, SequencesExt

CONSTANTS
    VarintLimit,     \* the longest varint: 10 bytes in the code
    Word,            \* varints are read modulo this: 2^64 in the code
    MaxChunkSize,    \* kMaxChunkSize: 64 MiB in the code
    Archives,        \* [stream, entries, extension]: the archives read
    OptionSets,      \* the InspectOptions used
    Extractable,     \* nested archives that parseArchiveBytes accepts
    Inspectable      \* nested archives that are inspected without error

Byte == 0 .. 255

\* What the digit of a varint counts that comes after k others: 128^k.
Weight[k \in Nat] == IF k = 0 THEN 1 ELSE 128 * Weight[k - 1]

\* size_t: what parseIndex can read.
Size == 0 .. Word - 1

IndexEntry == [offset : Size, packed_size : Size, original_size : Size, nested : BOOLEAN]

InspectOptions == [recurse_nested : BOOLEAN, decode_chunks : BOOLEAN,
                   continue_after_errors : BOOLEAN]

ASSUME StreamAssumption ==
    /\ VarintLimit \in Nat \ {0} /\ Word \in Nat \ {0} /\ MaxChunkSize \in Nat
    /\ Word <= Weight[VarintLimit]
    /\ \A a \in Archives : /\ a.stream \in Seq(Byte)
                           /\ a.entries \in Seq(IndexEntry)
                           /\ a.extension \in BOOLEAN
    /\ OptionSets \subseteq InspectOptions
    \* One level down, ExtractableIsInspected (below).  That a nested archive is
    \* overwritten while it is parsed is the subject of Unpack.
    /\ Extractable \subseteq Inspectable

VARIABLES
    archive,             \* the archive, after its index
    options,             \* the InspectOptions
    phase,               \* what is being done
    next,                \* the index entry the present loop is at
    chunk_end,           \* extraction's end of the chunk stream
    unpacked,            \* "running", "ok" or "error": what extraction says
    failed,              \* the entry at which extraction failed, if it did
    chunk_stream_size,   \* inspection's end of the chunk stream
    manifest,            \* the manifest's entries
    errors               \* the errors among the diagnostics: [code, entry]

vars == <<archive, options, phase, next, chunk_end, unpacked, failed,
          chunk_stream_size, manifest, errors>>

stream == archive.stream
entries == archive.entries
Available == Len(stream)
Current == entries[next]

-----------------------------------------------------------------------------
(* Reader (src/src/header.cc) on the first limit bytes of the stream.      *)

\* The high bit says that more bytes follow.
Final(byte) == byte < 128

\* The lengths at which a varint that begins after p bytes can end: one, or
\* none if the bytes run out or none of the first VarintLimit ends it.
VarintEnds(limit, p) ==
    {n \in 1 .. VarintLimit :
       /\ p + n <= limit
       /\ Final(stream[p + n])
       /\ \A k \in 1 .. n - 1 : ~Final(stream[p + k])}

VarintSize(limit, p) == CHOOSE n \in VarintEnds(limit, p) : TRUE

Digits(limit, p) == [k \in 1 .. VarintSize(limit, p) |-> stream[p + k] % 128]

\* readVarint's loop.
Number(digits) ==
    LET sum[k \in 0 .. Len(digits)] ==
          IF k = 0 THEN 0 ELSE sum[k - 1] + digits[k] * Weight[k - 1]
    IN  sum[Len(digits)] % Word

Varint(limit, p) == Number(Digits(limit, p))

-----------------------------------------------------------------------------
(* A chunk: a flag byte, the payload's length as a varint, the payload.    *)

HasHeader(limit, offset) ==
    offset + 1 <= limit /\ VarintEnds(limit, offset + 1) # {}
HeaderSize(limit, offset) == 1 + VarintSize(limit, offset + 1)
ChunkLength(limit, offset) == Varint(limit, offset + 1)

\* The header is there, and so is the payload, of the length the index says.
PayloadThere(limit, e) ==
    /\ HasHeader(limit, e.offset)
    /\ ChunkLength(limit, e.offset) = e.packed_size
    /\ e.offset + HeaderSize(limit, e.offset) + e.packed_size <= limit

\* decodeFlagByte is an exclusive or with 0x5a, which leaves bit 0 alone.
Compressed(e) == stream[e.offset + 1] % 2 = 1

Payload(limit, e) ==
    [k \in 1 .. e.packed_size |->
       stream[e.offset + HeaderSize(limit, e.offset) + k]]

\* Run-length data: see ChunkCodec.
Expansion(runs) ==
    FlattenSeq([k \in 1 .. Len(runs) \div 2 |->
                  [j \in 1 .. runs[2 * k - 1] |-> runs[2 * k]]])

Decodes(runs, size) ==
    /\ Len(runs) % 2 = 0
    /\ \A k \in 1 .. Len(runs) : k % 2 = 1 => runs[k] > 0
    /\ Len(Expansion(runs)) = size

\* What readChunk leaves in the handle.
Content(limit, e) ==
    IF Compressed(e) THEN Expansion(Payload(limit, e)) ELSE Payload(limit, e)

LooksLikeVec(bytes) ==
    Len(bytes) >= 4 /\ SubSeq(bytes, 1, 4) = <<86, 69, 67, 33>>

IsNested(limit, e) == e.nested \/ LooksLikeVec(Content(limit, e))

\* varintSize: how long the shortest varint of value is.
CanonicalSize(value) ==
    CHOOSE n \in 1 .. VarintLimit :
       value < Weight[n] /\ \A k \in 1 .. n - 1 : ~(value < Weight[k])

\* chunkEncodedEnd.
ScanEnd(e) == e.offset + 1 + CanonicalSize(e.packed_size) + e.packed_size

ScanAccepts(e) == PayloadThere(Available, e)

\* readChunk.
ReadAccepts(limit, e) ==
    /\ PayloadThere(limit, e)
    /\ e.packed_size <= MaxChunkSize
    /\ IF Compressed(e)
         THEN Decodes(Payload(limit, e), e.original_size)
         ELSE e.original_size = e.packed_size

\* Mutant: a chunk may not end where the archive ends.
LayoutAcceptsInside(e) ==
    /\ PayloadThere(Available, e)
    /\ e.offset + HeaderSize(Available, e.offset) + e.packed_size < Available

\* readChunkLayout.
LayoutAccepts(e) == PayloadThere(Available, e)

\* Mutant: the flag byte is forgotten.
LayoutEndShort(e) ==
    e.offset + VarintSize(Available, e.offset + 1) + e.packed_size

LayoutEnd(e) == e.offset + HeaderSize(Available, e.offset) + e.packed_size

\* parseExtension and inspectExtensionState fail when the two varints or the
\* payload are cut short; a wrong checksum is not an error.
ExtensionFits(end) ==
    archive.extension =>
       /\ VarintEnds(Available, end) # {}
       /\ LET p == end + VarintSize(Available, end)
          IN  /\ VarintEnds(Available, p) # {}
              /\ p + VarintSize(Available, p) + Varint(Available, p) <= Available

-----------------------------------------------------------------------------

Init ==
    /\ archive \in Archives
    /\ options \in OptionSets
    /\ phase = "scan" /\ next = 1
    /\ chunk_end = 0 /\ unpacked = "running" /\ failed = 0
    /\ chunk_stream_size = 0 /\ manifest = <<>> /\ errors = {}

Later(a, b) == IF a < b THEN b ELSE a

extractVars == <<chunk_end, unpacked, failed>>
inspectVars == <<chunk_stream_size, manifest, errors>>

-----------------------------------------------------------------------------
(* Extraction: two loops over the index, then the extension.               *)

\* parseArchiveBytes returns; the next program starts.
Return(verdict, at) ==
    /\ unpacked' = verdict /\ failed' = at
    /\ phase' = "inspect" /\ next' = 1
    /\ UNCHANGED chunk_end

ScanChunk ==
    /\ phase = "scan" /\ next <= Len(entries)
    /\ IF ScanAccepts(Current)
         THEN /\ chunk_end' = Later(chunk_end, ScanEnd(Current))
              /\ next' = next + 1
              /\ UNCHANGED <<phase, unpacked, failed>>
         ELSE Return("error", next)
    /\ UNCHANGED <<archive, options, inspectVars>>

EndScan ==
    /\ phase = "scan" /\ next > Len(entries)
    /\ IF chunk_end > Available
         THEN Return("error", next)
         ELSE /\ phase' = "read" /\ next' = 1
              /\ UNCHANGED extractVars
    /\ UNCHANGED <<archive, options, inspectVars>>

ReadEntry ==
    /\ phase = "read" /\ next <= Len(entries)
    /\ IF /\ ReadAccepts(chunk_end, Current)
          /\ IsNested(chunk_end, Current)
               => Content(chunk_end, Current) \in Extractable
         THEN next' = next + 1 /\ UNCHANGED <<phase, extractVars>>
         ELSE Return("error", next)
    /\ UNCHANGED <<archive, options, inspectVars>>

ReadExtension ==
    /\ phase = "read" /\ next > Len(entries)
    /\ IF ExtensionFits(chunk_end) THEN Return("ok", 0) ELSE Return("error", next)
    /\ UNCHANGED <<archive, options, inspectVars>>

-----------------------------------------------------------------------------
(* Inspection: one loop over the index, then the extension.                *)

\* readChunk fails, once the layout was read.
Undecodable(e) ==
    LayoutAccepts(e) /\ options.decode_chunks /\ ~ReadAccepts(Available, e)

\* Mutant: an index flag alone does not make an entry an archive.
BadArchiveUnlessVec(e) ==
    /\ LayoutAccepts(e) /\ options.decode_chunks /\ ReadAccepts(Available, e)
    /\ options.recurse_nested
    /\ LooksLikeVec(Content(Available, e))
    /\ Content(Available, e) \notin Inspectable

\* The chunk decodes to an archive in which inspection finds errors; nothing
\* is inspected if it decodes to nothing.
BadArchive(e) ==
    /\ LayoutAccepts(e) /\ options.decode_chunks /\ ReadAccepts(Available, e)
    /\ options.recurse_nested
    /\ IsNested(Available, e) /\ Content(Available, e) # <<>>
    /\ Content(Available, e) \notin Inspectable

\* What is reported of entry e.
Problem(e) ==
    {code \in {"chunk.layout", "chunk.decode", "nested"} :
       \/ code = "chunk.layout" /\ ~LayoutAccepts(e)
       \/ code = "chunk.decode" /\ Undecodable(e)
       \/ code = "nested" /\ BadArchive(e)}

Report(readable) == [entry |-> next, readable |-> readable]

\* Mutant: an entry that is unreadable is reported, and then treated like the
\* others.
InspectEntryOn ==
    /\ phase = "inspect" /\ next <= Len(entries)
    /\ errors' = errors \cup {[code |-> c, entry |-> next] : c \in Problem(Current)}
    /\ manifest' = IF LayoutAccepts(Current)
                     THEN Append(manifest, Report(TRUE))
                     ELSE manifest \o <<Report(FALSE), Report(TRUE)>>
    /\ IF LayoutAccepts(Current)
         THEN chunk_stream_size' = Later(chunk_stream_size, LayoutEnd(Current))
         ELSE UNCHANGED chunk_stream_size
    /\ IF LayoutAccepts(Current) \/ options.continue_after_errors
         THEN next' = next + 1 /\ UNCHANGED phase
         ELSE phase' = "validate" /\ UNCHANGED next
    /\ UNCHANGED <<archive, options, extractVars>>

InspectEntry ==
    /\ phase = "inspect" /\ next <= Len(entries)
    /\ errors' = errors \cup {[code |-> c, entry |-> next] : c \in Problem(Current)}
    /\ manifest' = Append(manifest, Report(LayoutAccepts(Current)))
    /\ IF LayoutAccepts(Current)
         THEN chunk_stream_size' = Later(chunk_stream_size, LayoutEnd(Current))
         ELSE UNCHANGED chunk_stream_size
    /\ IF LayoutAccepts(Current) \/ options.continue_after_errors
         THEN next' = next + 1 /\ UNCHANGED phase
         ELSE phase' = "validate" /\ UNCHANGED next
    /\ UNCHANGED <<archive, options, extractVars>>

InspectExtension ==
    /\ phase = "inspect" /\ next > Len(entries)
    /\ errors' = errors \cup
         IF chunk_stream_size > Available
           THEN {[code |-> "layout.chunk_stream_bounds", entry |-> next]}
         ELSE IF ~ExtensionFits(chunk_stream_size)
           THEN {[code |-> "extension", entry |-> next]}
         ELSE {}
    /\ phase' = "validate"
    /\ UNCHANGED <<archive, options, next, extractVars, chunk_stream_size, manifest>>

-----------------------------------------------------------------------------
(* Validation: of its rules, the two that find further errors in entries.  *)
(* The others are warnings, about names, or about what readChunkLayout and *)
(* the depth check of inspectArchiveBytesInternal have settled.            *)

Readable == {k \in 1 .. Len(manifest) : manifest[k].readable}

Start(k) == entries[manifest[k].entry].offset
End(k) == LayoutEnd(entries[manifest[k].entry])

\* Some chunk begins before the end of one that begins no later.
Overlaps ==
    \E j, k \in Readable : j # k /\ Start(j) <= Start(k) /\ Start(k) < End(j)

Validate ==
    /\ phase = "validate"
    /\ errors' = errors
         \cup {[code |-> "chunk.unreadable", entry |-> manifest[k].entry] :
                 k \in (1 .. Len(manifest)) \ Readable}
         \cup (IF Overlaps THEN {[code |-> "layout.overlap", entry |-> 0]} ELSE {})
    /\ phase' = "done"
    /\ UNCHANGED <<archive, options, next, extractVars, chunk_stream_size, manifest>>

Finished == phase = "done" /\ UNCHANGED vars

Next ==
    \/ ScanChunk \/ EndScan \/ ReadEntry \/ ReadExtension
    \/ InspectEntry \/ InspectExtension \/ Validate
    \/ Finished

Spec == Init /\ [][Next]_vars

-----------------------------------------------------------------------------
(* Properties.                                                             *)

ManifestEntry == [entry : 1 .. Len(entries), readable : BOOLEAN]

TypeInvariant ==
    /\ archive \in Archives
    /\ options \in OptionSets
    /\ phase \in {"scan", "read", "inspect", "validate", "done"}
    /\ next \in 1 .. Len(entries) + 1
    /\ chunk_end \in Nat
    /\ unpacked \in {"running", "ok", "error"}
    /\ failed \in 0 .. Len(entries) + 1
    /\ chunk_stream_size \in Nat
    /\ manifest \in Seq(ManifestEntry)
    /\ \A k \in 1 .. Len(manifest) : manifest[k].entry = k
    /\ \A x \in errors : x.entry \in 0 .. Len(entries) + 1

\* Neither reader takes the chunk stream to end outside the archive: the
\* checks for that at nested.cc:235 and inspect.cc:164 never fail, because
\* every chunk was checked on its own.
ChunksInside == chunk_end <= Available /\ chunk_stream_size <= Available

\* What extraction accepts is inspected without error, names apart and
\* whatever the options: validation adds at most that chunks overlap.
ExtractableIsInspected ==
    unpacked = "ok" => \A x \in errors : x.code = "layout.overlap"

\* And both find the extension in the same place, although extraction takes
\* every length to be written in as few bytes as possible (nested.cc:115) and
\* inspection looks how many there are (inspect.cc:341), and neither looks for
\* it outside the archive.
StreamEndAgrees ==
    /\ ChunksInside
    /\ unpacked = "ok" /\ phase \in {"validate", "done"} =>
          chunk_end = chunk_stream_size

Minimal ==
    \A k \in 1 .. Len(entries) :
       HasHeader(Available, entries[k].offset) =>
          HeaderSize(Available, entries[k].offset)
             = 1 + CanonicalSize(ChunkLength(Available, entries[k].offset))

\* An empty entry that the index marks as an archive.
MarkedEmpty(e) == e.nested /\ e.original_size = 0

Thorough ==
    options.recurse_nested /\ options.decode_chunks /\ options.continue_after_errors

\* Where extraction fails, verification reports an error of that very entry,
\* or of the extension, if lengths are written in as few bytes as possible.  Of
\* one kind of entry only it reports nothing: of an empty one, with nothing wrong
\* with its chunk, that is marked as an archive, which extraction parses nevertheless (nested.cc:249) and
\* inspection does not look into (inspect.cc:149).
FailureLocated ==
    phase = "done" /\ unpacked = "error" /\ Thorough /\ Minimal =>
       \/ \E x \in errors : x.entry = failed
       \/ /\ failed <= Len(entries)
          /\ \/ Content(Available, entries[failed]) \in Inspectable \ Extractable
             \/ MarkedEmpty(entries[failed]) /\ ReadAccepts(Available, entries[failed])

\* README.md:90-91: the inspection path parses the same chunk stream that
\* extraction uses.  An archive without empty entries marked as archives that
\* verifies can be extracted.
VerifiedIsExtractable ==
    ( /\ phase = "done" /\ Thorough /\ errors = {}
      /\ \A k \in 1 .. Len(entries) : ~MarkedEmpty(entries[k]) )
       => unpacked = "ok"

=============================================================================
