------------------------------- MODULE Layout -------------------------------
(***************************************************************************)
(* Two sweeps over the chunks of an inspected archive, by two components   *)
(* that do not know of each other.  validateLayoutOrder                    *)
(* (src/src/validator.cc) walks through the chunks in the order of their   *)
(* offsets and reports gaps and overlaps; buildLayoutSegments and          *)
(* sortAndAddGaps (src/src/archive_stats.cc) cut the whole file into       *)
(* segments, and call a gap what nothing claims.  A report shows the       *)
(* results of both for one archive (src/src/report.cc:41-54).              *)
(*                                                                         *)
(* The chunks are those of flattenEntries: the archive's own (depth 0) and *)
(* those of nested archives, whose offsets count bytes of decoded          *)
(* payloads.  An action is one iteration of a loop; std::sort is not       *)
(* stable, so of chunks that compare equal any may come first.             *)
(***************************************************************************)
EXTENDS Naturals, Sequences, FiniteSets

CONSTANTS
    HeaderSize,      \* the 6 bytes of magic, version and flags
    Manifests        \* the manifests examined

Chunk ==
    [offset : Nat, header : Nat, payload : Nat, depth : Nat, readable : BOOLEAN]

Manifest ==
    [size : Nat, chunk_start : Nat, entries : Seq(Chunk),
     extension_offset : Nat, extension_size : Nat]

End(c) == c.offset + c.header + c.payload

\* The entries both sweeps look at.
Counted(m) ==
    {i \in DOMAIN m.entries : m.entries[i].depth = 0 /\ m.entries[i].readable}

\* What inspectArchiveBytesInternal leaves: no entries and no chunk stream
\* when the header or the index is bad; otherwise chunks inside the file, and
\* the extension, if there is one, behind the last of them.
Inspected(m) ==
    IF m.chunk_start = 0
      THEN m.entries = <<>> /\ m.extension_size = 0
      ELSE /\ m.chunk_start >= HeaderSize
           /\ m.chunk_start <= m.size
           /\ \A i \in Counted(m) :
                 /\ m.entries[i].offset >= m.chunk_start
                 /\ m.entries[i].header >= 2
                 /\ End(m.entries[i]) <= m.size
           /\ m.extension_size # 0 =>
                 /\ m.extension_offset
                      \in {m.chunk_start} \cup {End(m.entries[i]) : i \in Counted(m)}
                 /\ m.extension_offset >= m.chunk_start
                 /\ \A i \in Counted(m) : End(m.entries[i]) <= m.extension_offset
                 /\ m.extension_offset + m.extension_size <= m.size

ASSUME LayoutAssumption ==
    /\ HeaderSize \in Nat
    /\ Manifests \subseteq Manifest
    /\ \A m \in Manifests : Inspected(m)

VARIABLES
    manifest,
    sweep,           \* the sweep under way: "validate", "segments", "done"
    unchecked,       \* entries validateLayoutOrder has not come to
    previous_end,
    overlaps,        \* entries with an error layout.overlap
    gaps,            \* ranges with a note layout.gap, from the first byte to
                     \* the one behind the last
    left,            \* segments sortAndAddGaps has not come to
    cursor,
    layout           \* with_gaps

layoutVars ==
    <<manifest, sweep, unchecked, previous_end, overlaps, gaps, left, cursor, layout>>

Kinds == {"header", "index", "chunk_header", "chunk_payload", "extension",
          "gap", "trailing"}
Segment ==
    [kind : Kinds, offset : Nat, length : Nat, depth : Nat, entry : Nat]

LayoutTypes ==
    /\ manifest \in Manifests
    /\ sweep \in {"validate", "segments", "done"}
    /\ unchecked \subseteq DOMAIN manifest.entries
    /\ previous_end \in Nat
    /\ overlaps \subseteq DOMAIN manifest.entries
    /\ gaps \subseteq Nat \X Nat
    /\ left \subseteq Segment
    /\ cursor \in Nat
    /\ layout \subseteq Segment

Larger(a, b) == IF a < b THEN b ELSE a

-----------------------------------------------------------------------------
(* validateLayoutOrder.                                                    *)

LayoutInit ==
    /\ manifest \in Manifests
    /\ sweep = "validate"
    /\ unchecked = DOMAIN manifest.entries
    /\ previous_end = manifest.chunk_start
    /\ overlaps = {}
    /\ gaps = {}
    /\ left = {}
    /\ cursor = 0
    /\ layout = {}

\* Mutant: the end of the last chunk instead of the furthest so far.
CompareLast(i) ==
    LET c == manifest.entries[i] IN
    /\ previous_end' = End(c)
    /\ overlaps' = IF c.offset < previous_end THEN overlaps \cup {i} ELSE overlaps
    /\ gaps' = IF c.offset > previous_end
                 THEN gaps \cup {<<previous_end, c.offset>>}
                 ELSE gaps

\* Mutant: a chunk that starts where another one ends overlaps it.
CompareTouching(i) ==
    LET c == manifest.entries[i] IN
    /\ previous_end' = Larger(previous_end, End(c))
    /\ overlaps' = IF c.offset <= previous_end THEN overlaps \cup {i} ELSE overlaps
    /\ gaps' = IF c.offset > previous_end
                 THEN gaps \cup {<<previous_end, c.offset>>}
                 ELSE gaps

Compare(i) ==
    LET c == manifest.entries[i] IN
    /\ previous_end' = Larger(previous_end, End(c))
    /\ overlaps' = IF c.offset < previous_end THEN overlaps \cup {i} ELSE overlaps
    /\ gaps' = IF c.offset > previous_end
                 THEN gaps \cup {<<previous_end, c.offset>>}
                 ELSE gaps

\* One iteration: the entries of nested archives and the unreadable ones are
\* passed over.
CheckEntry ==
    /\ sweep = "validate"
    /\ \E i \in unchecked :
          /\ \A j \in unchecked :
                manifest.entries[i].offset <= manifest.entries[j].offset
          /\ unchecked' = unchecked \ {i}
          /\ IF i \in Counted(manifest)
               THEN Compare(i)
               ELSE UNCHANGED <<previous_end, overlaps, gaps>>
    /\ UNCHANGED <<manifest, sweep, left, cursor, layout>>

-----------------------------------------------------------------------------
(* buildLayoutSegments and sortAndAddGaps.                                 *)

ChunkSegments(m) ==
    UNION {LET c == m.entries[i] IN
           {[kind |-> "chunk_header", offset |-> c.offset, length |-> c.header,
             depth |-> c.depth, entry |-> i],
            [kind |-> "chunk_payload", offset |-> c.offset + c.header,
             length |-> c.payload, depth |-> c.depth, entry |-> i]} :
           i \in {j \in DOMAIN m.entries : m.entries[j].readable}}

HeaderSegment ==
    [kind |-> "header", offset |-> 0, length |-> HeaderSize, depth |-> 0, entry |-> 0]

IndexSegment(m) ==
    [kind |-> "index", offset |-> HeaderSize,
     length |-> IF m.chunk_start > HeaderSize THEN m.chunk_start - HeaderSize ELSE 0,
     depth |-> 0, entry |-> 0]

ExtensionSegments(m) ==
    IF m.extension_size = 0 THEN {}
    ELSE {[kind |-> "extension", offset |-> m.extension_offset,
           length |-> m.extension_size, depth |-> 0, entry |-> 0]}

\* Mutant: the index reaches from the start of the file.
SegmentsFromZero(m) ==
    {HeaderSegment, [IndexSegment(m) EXCEPT !.offset = 0]}
      \cup ChunkSegments(m) \cup ExtensionSegments(m)

Segments(m) ==
    {HeaderSegment, IndexSegment(m)} \cup ChunkSegments(m) \cup ExtensionSegments(m)

BuildLayoutSegments ==
    /\ sweep = "validate"
    /\ unchecked = {}
    /\ sweep' = "segments"
    /\ left' = Segments(manifest)
    /\ UNCHANGED <<manifest, unchecked, previous_end, overlaps, gaps, cursor, layout>>

SegmentEnd(s) == s.offset + s.length

Before(s, t) ==
    \/ s.offset < t.offset
    \/ s.offset = t.offset /\ s.length <= t.length

\* Mutant: the operands of the difference swapped.
UnassignedBackwards(kind, from, to) ==
    [kind |-> kind, offset |-> from, length |-> from - to, depth |-> 0, entry |-> 0]

Unassigned(kind, from, to) ==
    [kind |-> kind, offset |-> from, length |-> to - from, depth |-> 0, entry |-> 0]

\* Mutant: nested segments open gaps and move the cursor.
PlaceAnyDepth(s) ==
    /\ layout' = layout \cup {s}
                   \cup (IF s.offset > cursor
                           THEN {Unassigned("gap", cursor, s.offset)} ELSE {})
    /\ cursor' = Larger(cursor, SegmentEnd(s))

Place(s) ==
    /\ layout' = layout \cup {s}
                   \cup (IF s.depth = 0 /\ s.offset > cursor
                           THEN {Unassigned("gap", cursor, s.offset)} ELSE {})
    /\ cursor' = IF s.depth = 0 THEN Larger(cursor, SegmentEnd(s)) ELSE cursor

PlaceSegment ==
    /\ sweep = "segments"
    /\ \E s \in left :
          /\ \A t \in left : Before(s, t)
          /\ left' = left \ {s}
          /\ Place(s)
    /\ UNCHANGED <<manifest, sweep, unchecked, previous_end, overlaps, gaps>>

AddTrailing ==
    /\ sweep = "segments"
    /\ left = {}
    /\ sweep' = "done"
    /\ layout' = layout
                   \cup (IF manifest.size > cursor
                           THEN {Unassigned("trailing", cursor, manifest.size)} ELSE {})
    /\ UNCHANGED <<manifest, unchecked, previous_end, overlaps, gaps, left, cursor>>

LayoutDone == sweep = "done" /\ UNCHANGED layoutVars

LayoutNext ==
    \/ CheckEntry
    \/ BuildLayoutSegments
    \/ PlaceSegment
    \/ AddTrailing
    \/ LayoutDone

LayoutSpec == LayoutInit /\ [][LayoutNext]_layoutVars

-----------------------------------------------------------------------------
(* Properties.                                                             *)

InSegment(b, s) == s.offset <= b /\ b < SegmentEnd(s)
InChunk(b, c) == c.offset <= b /\ b < End(c)

Own == {s \in layout : s.depth = 0}
Leftover == {s \in layout : s.kind \in {"gap", "trailing"}}

\* README.md:135-136: archive_stats gives the "archive layout segments".  They
\* account for the file: every byte is in some segment of the archive itself,
\* and what is called a gap or trailing is claimed by nothing else.
AccountsForFile ==
    sweep = "done" =>
       /\ \A b \in 0 .. manifest.size - 1 : \E s \in Own : InSegment(b, s)
       /\ \A g \in Leftover, s \in Own, b \in 0 .. manifest.size - 1 :
             InSegment(b, g) /\ InSegment(b, s) => s = g

Share(m, i, j) ==
    \E b \in 0 .. m.size - 1 : InChunk(b, m.entries[i]) /\ InChunk(b, m.entries[j])

\* README.md:111 lists "overlaps" among what verification finds: of two chunks of
\* the archive that share a byte at least one has an error, and a chunk with an
\* error shares a byte with another, in whatever order chunks with equal
\* offsets are visited and whatever is nested in them.
OverlapExact ==
    unchecked = {} =>
       /\ \A i, j \in Counted(manifest) :
             i # j /\ Share(manifest, i, j) => i \in overlaps \/ j \in overlaps
       /\ \A i \in overlaps : \E j \in Counted(manifest) : i # j /\ Share(manifest, i, j)

\* Verification and statistics agree on the gaps: those reported are those
\* among the segments, byte for byte.
GapsAgree ==
    sweep = "done" =>
       gaps = {<<s.offset, SegmentEnd(s)>> : s \in {t \in layout : t.kind = "gap"}}

\* In an archive without an overlap error the segments are a partition of the
\* file: no byte is in two of them.
PartitionedUnlessOverlapping ==
    sweep = "done" /\ overlaps = {} =>
       \A s, t \in Own, b \in 0 .. manifest.size - 1 :
          InSegment(b, s) /\ InSegment(b, t) => s = t

=============================================================================
