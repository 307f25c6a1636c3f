----------------------------- MODULE Container ------------------------------
(***************************************************************************)
(* pack() and the part of unpack() that finds out what is in an archive:   *)
(* the header, the index and the first pass over the chunks                *)
(* (src/src/nested.cc, src/src/index.cc, src/src/header.cc), on bytes.     *)
(* pack() reads its inputs, adds one entry and one chunk for each and      *)
(* writes everything at once; what it wrote, or as much of it as is left   *)
(* after a cut, is then read back.  Instead of an archive that was packed, *)
(* any other bytes may be read, as far as the index.                       *)
(*                                                                         *)
(* A byte below Base ends a varint, any other goes on: Base is 128 in the  *)
(* code.  Payloads are what encodeChunkPayload makes of a file             *)
(* (ChunkCodec); decoding them, and chunks that pack() does not write, are *)
(* the subject of ChunkStream.                                             *)
(***************************************************************************)
EXTENDS Naturals, Sequences, FiniteSets, SequencesExt

CONSTANTS
    Base,            \* values of a varint's digit
    VarintLimit,     \* the longest varint: 10 bytes in the code
    Word,            \* varints are read modulo this: 2^64 in the code
    Magic,           \* "VEC!"
    Version,
    Coded,           \* a flag byte as it is written: exclusive or with 0x5a
    MaxEntries,      \* kMaxEntries: 4096 in the code
    MaxNameLength,   \* kMaxNameLength: 4096 in the code
    MaxChunkSize,    \* kMaxChunkSize: 64 MiB in the code
    Unnamed,         \* the name given to a file without one
    Separator,       \* what is between the parts of a name: "/"
    Dot,             \* what an extension begins with: "."
    DirExtension,    \* the extension of a directory for a nested archive: ".d"
    InputLists,      \* the arguments of pack()
    Foreign          \* other bytes given to unpack()

\* What a varint's digit counts for, k digits before it.
Weight[k \in Nat] == IF k = 0 THEN 1 ELSE Base * Weight[k - 1]

Byte == 0 .. 2 * Base - 1
Size == 0 .. Word - 1

\* A file as pack() finds it: name is normalizedArchiveName of its path, and
\* payload what is stored for its bytes.  kind says what those are.  The bytes
\* of all but a plain file begin like an archive: an "archive" can be extracted
\* into an empty directory and fits the ring (UnpackFidelity!Fits); a "damaged"
\* one cannot be extracted; an "overrun" needs so many buffers, or such a size,
\* that it is read from bytes that are no longer its own, and may fail or not.
\* members are the paths its extraction writes, in order, below the directory
\* it gets: up to where it fails if it is damaged, whatever they are if it is an
\* overrun.
Kinds == {"plain", "archive", "damaged", "overrun"}
Input ==
    [readable : BOOLEAN, name : Seq(Byte), size : Size, payload : Seq(Byte),
     compressed : BOOLEAN, kind : Kinds, members : Seq(Seq(Byte))]

\* The bits of an entry's flags, kEntryCompressed and kEntryNested, and those
\* of an archive's, kFlagCompressed and kFlagNested.
EntryFlags(compressed, nested) ==
    (IF compressed THEN 1 ELSE 0) + (IF nested THEN 2 ELSE 0)
ArchiveFlags(compressed, nested) ==
    (IF compressed THEN 1 ELSE 0) + (IF nested THEN 4 ELSE 0)

ASSUME VarintAssumption ==
    Base \in Nat /\ Base >= 4 /\ VarintLimit \in Nat \ {0} /\ Word \in Nat \ {0}

\* The last digit of a full-length varint has bits of its own in a word: 2 of its
\* 128 values in the code, since 2^64 is 2 * 128^9.
ASSUME WordAssumption == \E m \in 1 .. Base : Word = m * Weight[VarintLimit - 1]

\* Like every std::string, the name of a file has a size.
ASSUME ContainerAssumption ==
    /\ Magic \in Seq(Byte) /\ Version \in Byte
    /\ Coded \in [Byte -> Byte] /\ \A b \in Byte : Coded[Coded[b]] = b
    /\ MaxEntries \in Nat /\ MaxNameLength \in Size /\ MaxChunkSize \in Nat
    /\ Unnamed \in Seq(Byte) /\ Len(Unnamed) \in 1 .. MaxNameLength
    /\ Separator \in Byte /\ Dot \in Byte /\ DirExtension \in Seq(Byte)
    /\ \A list \in InputLists :
          list \in Seq(Input) /\ \A i \in DOMAIN list : Len(list[i].name) \in Size
    /\ Foreign \subseteq Seq(Byte)

VARIABLES
    inputs,          \* the argument of pack()
    pc,              \* what is being done
    next,            \* the element the present loop is at
    files,           \* pack(): the files read
    entries,         \* buildArchiveFromPayloads: the index, its names with it
    chunks,          \* the same: the chunk stream
    packed,          \* what pack() says: "running", "ok", "error"
    archive,         \* the bytes on disk
    cut,             \* bytes have been lost from the end of the archive
    position,        \* Reader: bytes read so far
    count,           \* parseIndex
    pending,         \* parseIndex
    name_storage,    \* IndexTable
    index,           \* IndexTable: the entries
    chunk_end,       \* parseArchiveBytes: end of the last chunk so far
    member,          \* the file to be written next for an entry
    disk,            \* the files extracted: which each is, see Content
    unpacked         \* what unpack() says: "running", "ok", "error"

packVars == <<inputs, files, entries, chunks, packed>>
indexVars == <<count, pending, name_storage, index>>
vars == <<packVars, indexVars, pc, next, archive, cut, position, chunk_end, member, disk,
          unpacked>>

IsForeign == inputs = <<>> /\ packed = "ok"

-----------------------------------------------------------------------------
(* Writing.                                                                *)

WriteVarint[value \in Nat] ==
    IF value < Base THEN <<value>>
    ELSE <<Base + (value % Base)>> \o WriteVarint[value \div Base]

WriteHeader(flags) == Magic \o <<Version, Coded[flags]>>

WriteEntry(e) ==
    WriteVarint[e.offset] \o WriteVarint[e.packed_size]
      \o WriteVarint[e.original_size] \o <<Coded[e.flags]>>
      \o WriteVarint[Len(e.name)] \o e.name

\* writeIndex, up to entry i.
WriteEntries(list) ==
    LET upto[i \in 0 .. Len(list)] ==
          IF i = 0 THEN <<>> ELSE upto[i - 1] \o WriteEntry(list[i])
    IN  upto[Len(list)]

WriteIndex(list) == WriteVarint[Len(list)] \o WriteEntries(list)

-----------------------------------------------------------------------------
(* pack() and buildArchiveFromPayloads.                                    *)

Init ==
    /\ \/ /\ inputs \in InputLists
          /\ pc = "read"
          /\ archive = <<>>
          /\ packed = "running"
       \/ /\ inputs = <<>>
          /\ pc = "header"
          /\ archive \in Foreign
          /\ packed = "ok"
    /\ next = 1
    /\ files = <<>> /\ entries = <<>> /\ chunks = <<>>
    /\ cut = FALSE
    /\ position = 0 /\ count = 0
    /\ pending = <<>> /\ name_storage = <<>> /\ index = <<>>
    /\ chunk_end = 0
    /\ member = 1 /\ disk = <<>>
    /\ unpacked = "running"

PackFails ==
    /\ pc' = "done"
    /\ packed' = "error"
    /\ unpacked' = "error"

\* No inputs, or one that is no regular file or cannot be read.
ReadInput ==
    /\ pc = "read"
    /\ \/ /\ \/ inputs = <<>>
             \/ next \in DOMAIN inputs /\ ~inputs[next].readable
          /\ PackFails
          /\ UNCHANGED <<next, files>>
       \/ /\ next \in DOMAIN inputs
          /\ inputs[next].readable
          /\ files' = Append(files, inputs[next])
          /\ next' = next + 1
          /\ UNCHANGED <<pc, packed, unpacked>>
       \/ /\ inputs # <<>>
          /\ next \notin DOMAIN inputs
          /\ pc' = "build"
          /\ next' = 1
          /\ UNCHANGED <<files, packed, unpacked>>
    /\ UNCHANGED <<inputs, entries, chunks, indexVars, archive, cut, position, chunk_end,
                   member, disk>>

\* Mutant: the offset of a chunk is that of its payload.
EntryOfPayload(f, start) ==
    [offset |-> start + 1 + Len(WriteVarint[Len(f.payload)]),
     packed_size |-> Len(f.payload), original_size |-> f.size,
     flags |-> EntryFlags(f.compressed, f.kind # "plain"),
     name |-> IF f.name = <<>> THEN Unnamed ELSE f.name]

\* Mutant: every chunk is said to be the first.
EntryOfFirst(f, start) == [EntryOfPayload(f, start) EXCEPT !.offset = 0]

EntryOf(f, start) ==
    [offset |-> start,
     packed_size |-> Len(f.payload), original_size |-> f.size,
     flags |-> EntryFlags(f.compressed, f.kind # "plain"),
     name |-> IF f.name = <<>> THEN Unnamed ELSE f.name]

ChunkOf(f) ==
    <<Coded[EntryFlags(f.compressed, f.kind # "plain")]>>
      \o WriteVarint[Len(f.payload)] \o f.payload

AddFile ==
    /\ pc = "build"
    /\ next \in DOMAIN files
    /\ entries' = Append(entries, EntryOf(files[next], Len(chunks)))
    /\ chunks' = chunks \o ChunkOf(files[next])
    /\ next' = next + 1
    /\ UNCHANGED <<inputs, files, packed, indexVars, pc, archive, cut, position,
                   chunk_end, member, disk, unpacked>>

Packed ==
    WriteHeader(ArchiveFlags(\E i \in DOMAIN files : files[i].compressed,
                             \E i \in DOMAIN files : files[i].kind # "plain"))
      \o WriteIndex(entries) \o chunks

\* The chunks are in memory, and so no more than a std::size_t can count.
WriteArchive ==
    /\ pc = "build"
    /\ next \notin DOMAIN files
    /\ next' = 1
    /\ \/ PackFails /\ UNCHANGED archive
       \/ /\ Len(chunks) \in Size
          /\ archive' = Packed
          /\ pc' = "header"
          /\ packed' = "ok"
          /\ UNCHANGED unpacked
    /\ UNCHANGED <<inputs, files, entries, chunks, indexVars, cut, position, chunk_end,
                   member, disk>>

\* The archive loses its end before it is read; or never had it, if what
\* writeWholeFile left buffered could not be written (see Unpack).
Cut ==
    /\ pc = "header"
    /\ ~IsForeign
    /\ ~cut
    /\ \E left \in 0 .. Len(archive) - 1 : archive' = SubSeq(archive, 1, left)
    /\ cut' = TRUE
    /\ UNCHANGED <<packVars, indexVars, pc, next, position, chunk_end, member, disk,
                   unpacked>>

-----------------------------------------------------------------------------
(* Reader.  A read yields whether it succeeds, what it reads, and where    *)
(* the next one begins.                                                    *)

Failed == [ok |-> FALSE, value |-> 0, end |-> 0]
Read(value, end) == [ok |-> TRUE, value |-> value, end |-> end]

\* readVarint: where it ends, and what its first n digits amount to.
VarintEnds(p) ==
    {n \in 1 .. VarintLimit :
       /\ p + n <= Len(archive)
       /\ archive[p + n] < Base
       /\ \A k \in 1 .. n - 1 : archive[p + k] >= Base}

\* Mutant: the first digit is the highest.
DigitsBackwards(p, n) ==
    LET to[k \in 0 .. n] ==
          IF k = 0 THEN 0 ELSE (archive[p + k] % Base) + Base * to[k - 1]
    IN  to[n]

DigitsValue(p, n) ==
    LET sum[k \in 0 .. n] ==
          IF k = 0 THEN 0 ELSE sum[k - 1] + (archive[p + k] % Base) * Weight[k - 1]
    IN  sum[n]

ReadVarint(p) ==
    IF VarintEnds(p) = {} THEN Failed
    ELSE LET n == CHOOSE m \in VarintEnds(p) : TRUE
         IN  Read(DigitsValue(p, n) % Word, p + n)

ReadByte(p) ==
    IF p + 1 <= Len(archive) THEN Read(archive[p + 1], p + 1) ELSE Failed

VarintAfter(read) == IF read.ok THEN ReadVarint(read.end) ELSE Failed
ByteAfter(read) == IF read.ok THEN ReadByte(read.end) ELSE Failed

-----------------------------------------------------------------------------
(* parseHeader, parseIndex and the first pass.                             *)

ReaderUnchanged == UNCHANGED <<packVars, archive, cut, disk>>

UnpackFails ==
    /\ pc' = "done"
    /\ unpacked' = "error"
    /\ UNCHANGED <<next, position, chunk_end, member, indexVars>>

ParseHeader ==
    /\ pc = "header"
    /\ LET length == Len(Magic) + 2 IN
       IF /\ length <= Len(archive)
          /\ SubSeq(archive, 1, Len(Magic) + 1) = Magic \o <<Version>>
         THEN /\ pc' = "count"
              /\ position' = length
              /\ UNCHANGED <<next, chunk_end, member, unpacked, indexVars>>
         ELSE UnpackFails
    /\ ReaderUnchanged

CountAccepted(read) == read.ok /\ read.value <= MaxEntries

ParseCount ==
    /\ pc = "count"
    /\ LET read == ReadVarint(position) IN
       IF CountAccepted(read)
         THEN /\ pc' = "entries"
              /\ count' = read.value
              /\ position' = read.end
              /\ next' = 1
              /\ UNCHANGED <<chunk_end, member, unpacked, pending, name_storage, index>>
         ELSE UnpackFails
    /\ ReaderUnchanged

LengthAccepted(read) == read.ok /\ read.value \in 1 .. MaxNameLength

ParseEntry ==
    /\ pc = "entries"
    /\ next <= count
    /\ LET offset == ReadVarint(position)
           packed_size == VarintAfter(offset)
           original_size == VarintAfter(packed_size)
           flags == ByteAfter(original_size)
           length == VarintAfter(flags)
       IN  IF /\ LengthAccepted(length)
              /\ length.end + length.value <= Len(archive)
             THEN /\ pending' = Append(pending,
                       [offset |-> offset.value, packed_size |-> packed_size.value,
                        original_size |-> original_size.value,
                        flags |-> Coded[flags.value],
                        start |-> Len(name_storage), length |-> length.value])
                  /\ name_storage' = name_storage
                       \o SubSeq(archive, length.end + 1, length.end + length.value)
                  /\ position' = length.end + length.value
                  /\ next' = next + 1
                  /\ UNCHANGED <<pc, count, index, chunk_end, member, unpacked>>
             ELSE UnpackFails
    /\ ReaderUnchanged

\* The entries get views of name_storage, which has its final size by then.
MakeViews ==
    /\ pc = "entries"
    /\ next > count
    /\ index' = pending
    /\ pc' = "scan"
    /\ next' = 1
    /\ UNCHANGED <<count, pending, name_storage, position, chunk_end, member, unpacked>>
    /\ ReaderUnchanged

\* chunkEncodedEnd.
ChunkAccepted(e) ==
    LET length == VarintAfter(ByteAfter(Read(0, position + e.offset)))
    IN  /\ length.ok
        /\ length.value = e.packed_size
        /\ length.end + length.value <= Len(archive)

ChunkEnd(e) == e.offset + 1 + Len(WriteVarint[e.packed_size]) + e.packed_size

ScanChunk ==
    /\ pc = "scan"
    /\ ~IsForeign
    /\ IF next \notin DOMAIN index
         THEN IF chunk_end <= Len(archive) - position
                THEN /\ pc' = "extract"
                     /\ next' = 1
                     /\ member' = 1
                     /\ UNCHANGED <<position, chunk_end, unpacked, indexVars>>
                ELSE UnpackFails
         ELSE IF ChunkAccepted(index[next])
           THEN /\ chunk_end' = IF ChunkEnd(index[next]) > chunk_end
                                  THEN ChunkEnd(index[next]) ELSE chunk_end
                /\ next' = next + 1
                /\ UNCHANGED <<pc, position, member, unpacked, indexVars>>
           ELSE UnpackFails
    /\ ReaderUnchanged

NameOf(e) == SubSeq(name_storage, e.start + 1, e.start + e.length)

-----------------------------------------------------------------------------
(* The files on disk.                                                      *)

\* p is the name of a directory that a file of name q is in. Names as pack()
\* makes them have no other form, and safeOutputPath leaves them alone.
IsAbove(p, q) == Len(p) < Len(q) /\ SubSeq(q, 1, Len(p) + 1) = Append(p, Separator)

\* writeWholeFile: no file can be where a directory is, or below a file.
Writable(path) == \A other \in DOMAIN disk : ~IsAbove(path, other) /\ ~IsAbove(other, path)

\* Mutant: a file that exists is not written again.
WrittenOnce(path, content) ==
    IF path \in DOMAIN disk THEN disk
    ELSE [p \in DOMAIN disk \cup {path} |-> IF p = path THEN content ELSE disk[p]]

\* A file that exists is truncated.
Written(path, content) ==
    [p \in DOMAIN disk \cup {path} |-> IF p = path THEN content ELSE disk[p]]

\* path::replace_extension: where the extension of the last part of a name
\* begins, which is not at its first character.
ExtensionStarts(name) ==
    {i \in 2 .. Len(name) :
       /\ name[i] = Dot /\ name[i - 1] # Separator
       /\ \A j \in i + 1 .. Len(name) : name[j] \notin {Dot, Separator}}

\* The directory that a nested archive is extracted into.
NestedDir(name) ==
    (IF ExtensionStarts(name) = {} THEN name
     ELSE SubSeq(name, 1, (CHOOSE i \in ExtensionStarts(name) : TRUE) - 1)) \o DirExtension

\* What is written for a file: its members, if it is taken for an archive, and
\* then the file itself.
Members(f) == IF f.kind = "plain" THEN <<>> ELSE f.members
PathOf(name, f, m) ==
    IF m <= Len(Members(f)) THEN NestedDir(name) \o <<Separator>> \o Members(f)[m] ELSE name

\* The m-th file written for entry k.  An overrun's own bytes, and those of its
\* members, are no longer in their buffers, and others may be.
Unknown == <<>>
Content(k, m) == IF files[k].kind = "overrun" THEN Unknown ELSE <<k, m>>

\* readChunk of what pack() stored, which has a limit of its own; then
\* parseNestedArchive if its bytes begin like an archive, and writeWholeFile:
\* one file is written at a time.  How an archive is read that is nested in
\* others, and failures of the file system, are the subject of Unpack.
ExtractEntry ==
    /\ pc = "extract"
    /\ IF next \notin DOMAIN index
         THEN /\ pc' = "done"
              /\ unpacked' = "ok"
              /\ UNCHANGED <<next, position, chunk_end, member, disk, indexVars>>
         ELSE LET f == files[next]
                  own == member > Len(Members(f))
                  path == PathOf(NameOf(index[next]), f, member)
              IN  \/ /\ index[next].packed_size <= MaxChunkSize
                     /\ ~(own /\ f.kind = "damaged")
                     /\ Writable(path)
                     /\ disk' = Written(path, Content(next, member))
                     /\ next' = IF own THEN next + 1 ELSE next
                     /\ member' = IF own THEN 1 ELSE member + 1
                     /\ UNCHANGED <<pc, position, chunk_end, unpacked, indexVars>>
                  \/ /\ \/ index[next].packed_size > MaxChunkSize
                        \/ own /\ f.kind = "damaged"
                        \/ f.kind = "overrun"
                        \/ ~Writable(path)
                     /\ UnpackFails
                     /\ UNCHANGED disk
    /\ UNCHANGED <<packVars, archive, cut>>

Done ==
    /\ pc = "done" \/ (pc = "scan" /\ IsForeign)
    /\ UNCHANGED vars

Next ==
    \/ ReadInput
    \/ AddFile
    \/ WriteArchive
    \/ Cut
    \/ ParseHeader
    \/ ParseCount
    \/ ParseEntry
    \/ MakeViews
    \/ ScanChunk
    \/ ExtractEntry
    \/ Done

Spec == Init /\ [][Next]_vars

-----------------------------------------------------------------------------
(* Properties.                                                             *)

EntryRead(e) ==
    [offset |-> e.offset, packed_size |-> e.packed_size,
     original_size |-> e.original_size, flags |-> e.flags, name |-> NameOf(e)]
EntriesRead == [i \in DOMAIN index |-> EntryRead(index[i])]

\* The limits of the reader, which pack() does not look at: those of
\* parseIndex, and what readChunk and parseNestedArchive ask of a file.
WithinLimits ==
    /\ Len(files) <= MaxEntries
    /\ \A i \in DOMAIN files : Len(files[i].name) <= MaxNameLength

Extracts(f) == f.kind # "damaged" /\ Len(f.payload) <= MaxChunkSize

\* The files that extraction should write: for which entry, and the how many-th.
Due == UNION {{k} \X (1 .. Len(Members(files[k])) + 1) : k \in DOMAIN files}
PathDue(w) == PathOf(entries[w[1]].name, files[w[1]], w[2])

\* Of two files, one would have to be a directory that the other is in.
PathsClash == \E v, w \in Due : IsAbove(PathDue(v), PathDue(w))

Extractable == ~PathsClash /\ \A i \in DOMAIN files : Extracts(files[i])

\* The last of the files written to one path.
Before(v, w) == v[1] < w[1] \/ (v[1] = w[1] /\ v[2] < w[2])
LastOf(path) ==
    CHOOSE w \in Due : /\ PathDue(w) = path
                       /\ \A v \in Due : PathDue(v) = path => v = w \/ Before(v, w)

\* README.md:4-5: the archiver can "bundle files into one binary container,
\* extract them again".  An index that keeps to the limits is read as it was
\* written, and the chunks are found behind it and fill the rest of the archive.
\* If extraction succeeds, no file is too large or only looks like an archive,
\* and no path, be it of a packed file or of a member of a packed archive, is
\* that of a directory another is in; of files of one path, which nothing warns
\* of, the last one is left.  And it does succeed then, if no archive overruns
\* the ring.  Beyond the limits, and of an archive that has lost bytes at its
\* end, nothing is extracted: the first pass comes before the first file.
PackedComesBack ==
    packed = "ok" /\ ~IsForeign =>
       IF WithinLimits /\ ~cut
         THEN /\ pc \in {"scan", "extract"} =>
                    /\ EntriesRead = entries
                    /\ SubSeq(archive, position + 1, Len(archive)) = chunks
              /\ pc = "extract" => position + chunk_end = Len(archive)
              /\ pc = "done" =>
                    /\ unpacked = "ok" =>
                          /\ Extractable
                          /\ disk = [path \in {PathDue(w) : w \in Due} |->
                                       Content(LastOf(path)[1], LastOf(path)[2])]
                    /\ Extractable /\ (\A i \in DOMAIN files : files[i].kind # "overrun")
                          => unpacked = "ok"
         ELSE pc # "extract" /\ disk = <<>>

\* A byte behind VarintLimit - 1 that go on: the last of a full-length varint,
\* some bits of which are beyond Word.
Overflows(bytes, k) ==
    /\ k >= VarintLimit
    /\ \A i \in 1 .. VarintLimit - 1 : bytes[k - i] >= Base

\* What parseIndex accepts of any bytes is an encoding of the index it yields:
\* written again it is no longer, and if it is as long, the same bytes but for
\* the bits of a full-length varint that do not fit into its value.
AcceptedIsEncoding ==
    pc = "scan" =>
       LET again == WriteIndex(EntriesRead)
           read == SubSeq(archive, Len(Magic) + 3, position)
       IN  /\ Len(again) <= Len(read)
           /\ Len(again) = Len(read) =>
                 \A k \in DOMAIN read : again[k] = read[k] \/ Overflows(read, k)

\* README.md:4-5 without the exceptions of PackedComesBack: whatever pack() has
\* written, unpack() extracts.
PackedIsExtracted ==
    packed = "ok" /\ ~IsForeign /\ ~cut /\ pc = "done" => unpacked = "ok"

=============================================================================
