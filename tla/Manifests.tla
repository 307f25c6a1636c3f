----------------------------- MODULE Manifests -----------------------------
(***************************************************************************)
(* What the program reports of an archive without extracting it: the       *)
(* manifest of inspection (src/src/inspect.cc), the verdict of             *)
(* verification (src/src/format_rules.cc, src/src/validator.cc), the       *)
(* summaries (src/src/manifest.cc, archive_stats.cc, catalog.cc) and the   *)
(* difference to another archive (src/src/catalog.cc).  The commands are   *)
(* run one after the other on one archive; each is a loop over the         *)
(* manifest's entries, in the order of flattenEntries.                     *)
(*                                                                         *)
(* The entries of an archive stand with those of the archives in it, a     *)
(* container before its members: owner is the container's place, 0 for     *)
(* the outermost.  Which names collide is the subject of NameChecks, the   *)
(* layout that of Layout, the bytes and the extension those of             *)
(* ChunkStream: what comes of them is a fact of the archive as a whole.    *)
(* Options that stop the loops early have their defaults.                  *)
(***************************************************************************)
EXTENDS Integers, Paths

CONSTANTS
    Inputs,          \* [archive, whole, other]: the archives compared
    OptionSets,      \* the ValidationOptions used
    MaxChunkSize,    \* kMaxChunkSize, and FormatLimits::max_chunk_payload
    FormatDepth,     \* FormatLimits::max_nested_depth
    MaxEntrySize,    \* ValidationOptions::max_entry_size
    MaxArchiveSize,  \* ValidationOptions::max_archive_size
    FormatSizes,     \* FormatLimits: max_reasonable_archive, max_extension_payload
    HighRatio,       \* ValidationOptions::high_compression_ratio
    Growth,          \* ValidationOptions::expansion_ratio
    Word,            \* 2^64 in the code
    NoneWord,        \* the name of the group without extension: "(none)"
    BucketBounds,    \* where the buckets of sizes begin
    ClassBounds      \* where the classes of sizes begin

Size == 0 .. Word - 1

Flag == {"compressed", "nested", "unknown"}

\* What a chunk holds: an archive, or bytes that are none but begin like one
\* ("broken") or not ("plain").
Contents == {"plain", "broken", "archive"}

\* inside: the chunk is in the chunk stream; expansion: what its runs add up to,
\* some other size if they are malformed.
Entry ==
    [name : Name \ {EmptyName}, packed : Size, original : Size, flags : SUBSET Flag,
     length : Size, chunkFlags : SUBSET Flag, inside : BOOLEAN, expansion : Size,
     content : Contents, owner : Nat]

\* What the chunk's bytes are when it is read: decodeRle goes by its own flag.
Unpacked(e) == IF "compressed" \in e.chunkFlags THEN e.expansion ELSE e.length

\* A chunk that looks like an archive has bytes (looksLikeVec).
WellFormed(entries) ==
    \A i \in DOMAIN entries :
       /\ entries[i].content # "plain" => Unpacked(entries[i]) # 0
       /\ entries[i].owner < i
       /\ entries[i].owner # 0 => entries[entries[i].owner].content = "archive"
       /\ \A j \in entries[i].owner + 1 .. i - 1 : entries[j].owner >= entries[i].owner

\* Header and index are read; the header has known flags only; the extension is
\* as it should be; chunks overlap.
Whole ==
    [opens : BOOLEAN, known : BOOLEAN, size : Nat, extension : Nat, sound : BOOLEAN,
     overlap : BOOLEAN]

Options ==
    [max_depth : Nat, canonical : BOOLEAN, empties : BOOLEAN,
     policy : {DefaultPolicy, PermissivePolicy}]

ASSUME ManifestsAssumption ==
    /\ {Word, Growth} \subseteq Nat \ {0}
    /\ {MaxChunkSize, MaxEntrySize, MaxArchiveSize, HighRatio} \subseteq Nat
    /\ FormatSizes \in [archive : Nat, extension : Nat]
    /\ FormatDepth \in Nat
    /\ BucketBounds \in Seq(Nat) /\ ClassBounds \in Seq(Nat)
    /\ BucketBounds # <<>> /\ ClassBounds # <<>>
    /\ Head(BucketBounds) = 0 /\ Head(ClassBounds) = 0
    /\ \A bounds \in {BucketBounds, ClassBounds} :
          \A i, j \in DOMAIN bounds : i < j => bounds[i] < bounds[j]
    /\ OptionSets \subseteq Options
    /\ \A i \in Inputs :
          /\ \A entries \in {i.archive, i.other} :
                entries \in Seq(Entry) /\ WellFormed(entries)
          /\ i.whole \in Whole /\ (~i.whole.opens => i.archive = <<>> /\ i.whole.known)

\* An extension begins with a dot, and "(none)" does not; nothing is nothing in
\* lower case.
ASSUME NoneAssumption ==
    /\ NoneWord \in Words
    /\ \A w \in Words : Lexicon[Lexicon[w].ext].fold # Lexicon[NoneWord].fold
    /\ Lexicon[NoWord].fold = NoWord

VARIABLES
    archive,         \* the entries of the archive
    whole,           \* the rest of it
    other,           \* the archive it is compared with
    options,
    phase,           \* what is being done
    next,            \* the entry the present loop is at
    manifest,        \* the manifest's entries
    diagnostics,     \* what was reported, in that order: [code, entry], 0 for no entry
    inspected,       \* how much of it inspection reported
    stats,           \* ArchiveStats
    compression,     \* CompressionSummary
    breakdowns,      \* the tallies of each group, of each breakdown
    diff             \* CatalogDiff

vars == <<archive, whole, other, options, phase, next, manifest, diagnostics,
          inspected, stats, compression, breakdowns, diff>>
input == <<archive, whole, other, options>>
summaries == <<stats, compression, breakdowns>>

-----------------------------------------------------------------------------
(* Inspection of an entry.                                                 *)

\* Mutant: the index and the chunk may give different lengths.
ReadableAnyLength(e) == e.inside

\* readChunkLayout
Readable(e) == e.inside /\ e.length = e.packed

\* readChunk
Decodes(e) == Readable(e) /\ e.length <= MaxChunkSize /\ e.original = Unpacked(e)

LooksNested(e) == Decodes(e) /\ e.content # "plain"

IsNested(e) == "nested" \in e.flags \/ LooksNested(e)

\* inspectArchiveBytesInternal calls itself.
Recurses(e) == Decodes(e) /\ IsNested(e) /\ e.original # 0

\* And the call gets as far as the entries.
Opened(e, depth) == Recurses(e) /\ depth < options.max_depth /\ e.content = "archive"

\* ManifestEntry: id is the entry's place in the archive.
Described(id, e, depth) ==
    [id |-> id, name |-> e.name, normalized |-> Normalized(DefaultPolicy, e.name),
     packed |-> e.packed, original |-> e.original, flags |-> e.flags,
     compressed |-> "compressed" \in e.flags, nested |-> IsNested(e), depth |-> depth,
     readable |-> Readable(e), payload |-> IF Readable(e) THEN e.length ELSE 0,
     chunkFlags |-> IF Readable(e) THEN e.chunkFlags ELSE {},
     opened |-> Opened(e, depth)]

NameChanged(m) == m.normalized # m.name

\* The manifest, as far as it goes, with entry k: no entries are listed of an
\* archive that was not opened.
Extended(list, entries, k) ==
    LET e == entries[k]
        containers == Within(list, {m \in ToSet(list) : m.id = e.owner /\ m.opened})
    IN  IF e.owner = 0 THEN Append(list, Described(k, e, 0))
        ELSE list \o [i \in DOMAIN containers |->
                         Described(k, e, containers[i].depth + 1)]

ManifestOf(entries) ==
    FoldLeft(LAMBDA list, k : Extended(list, entries, k), <<>>,
             [k \in DOMAIN entries |-> k])

\* What inspection reports of an entry, and of the archive in it.
InspectionIssues(e, depth) ==
    PathIssues(DefaultPolicy, e.name)
      \o Codes(<<Test("chunk.layout", ~Readable(e)),
                 Test("chunk.decode", Readable(e) /\ ~Decodes(e)),
                 Test("nesting.depth_limit", Recurses(e) /\ depth >= options.max_depth),
                 Test("header.parse", /\ Recurses(e) /\ depth < options.max_depth
                                      /\ e.content # "archive")>>)

-----------------------------------------------------------------------------
(* Verification of an entry of the manifest.                               *)

NameRule ==
    [empty |-> "format.name_empty", long |-> "format.name_long",
     control |-> "format.name_control", absolute |-> "format.name_absolute",
     dots |-> "format.name_dots", device |-> "format.name_device"]

\* decodeKnownFlags
HasUnknownFlags(flags) == "unknown" \in flags

\* checkNameRules
NameIssues(n) ==
    IF NameClass(n) \in DOMAIN NameRule THEN <<NameRule[NameClass(n)]>> ELSE <<>>

\* checkEntryFormatRules
FormatIssues(m) ==
    Codes(<<Test("format.unknown_flags", HasUnknownFlags(m.flags))>>)
      \o NameIssues(m.name)
      \o Codes(<<Test("format.packed_size", m.packed > MaxChunkSize),
                 Test("format.payload_size", m.readable /\ m.payload # m.packed),
                 Test("format.nested_depth", m.depth > FormatDepth)>>)

\* validatePathPolicy
PolicyIssues(m) ==
    PathIssues(options.policy, m.name)
      \o Codes(<<Test("path.not_canonical", /\ options.canonical
                          /\ Normalized(options.policy, m.name) # m.name)>>)

\* validateChunkLayout
LayoutIssues(m) ==
    IF ~m.readable THEN <<"chunk.unreadable">>
    ELSE Codes(<<Test("chunk.large_entry", m.original > MaxEntrySize),
                 Test("chunk.empty_entry", options.empties /\ m.original = 0),
                 Test("chunk.size_mismatch", m.payload # m.packed)>>)

AtLeastOne(size) == IF size = 0 THEN 1 ELSE size

\* The advice of validateCompressionProfile on the type of a file.
TypeIssues(m) ==
    LET given == Advisories(m.name) IN
    Codes(<<Test("compression.already_compressed_type",
                 m.compressed /\ CommonlyCompressed(m.name)),
            Test("name.backup", "backup" \in given),
            Test("name.temporary", "temporary" \in given),
            Test("name.editor-swap", "editor-swap" \in given),
            Test("name.system-metadata", "system-metadata" \in given)>>)

\* validateCompressionProfile, which gives no advice after its first finding.
CompressionIssues(m) ==
    IF m.packed = 0 /\ m.original # 0 THEN <<"compression.zero_packed">>
    ELSE Codes(<<Test("compression.high_ratio",
                      m.packed # 0 /\ m.compressed /\ m.original > HighRatio * m.packed),
                 Test("compression.expansion",
                      m.packed # 0 /\ m.packed > Growth * AtLeastOne(m.original)),
                 Test("compression.no_savings",
                      m.compressed /\ m.packed >= m.original /\ m.original # 0)>>)
           \o TypeIssues(m)

\* Mutant: the flags are compared the wrong way round.
FlagIssuesSwapped(m) ==
    Codes(<<Test("index.unknown_flags", HasUnknownFlags(m.flags)),
            Test("chunk.flag_disagreement", m.compressed <=> "compressed" \in m.chunkFlags)>>)

\* validateFlagProfile
FlagIssues(m) ==
    Codes(<<Test("index.unknown_flags", HasUnknownFlags(m.flags)),
            Test("chunk.flag_disagreement", m.compressed # ("compressed" \in m.chunkFlags))>>)

\* How the codes are reported; all others are warnings.
ErrorCodes ==
    {"path.empty", "chunk.layout", "chunk.decode", "nesting.depth_limit", "header.parse",
     "extension", "format.name_empty", "format.payload_size", "format.nested_depth",
     "nesting.depth", "layout.overlap", "chunk.unreadable", "chunk.size_mismatch"}

InfoCodes ==
    {"index.empty", "chunk.empty_entry", "compression.high_ratio", "compression.no_savings",
     "compression.already_compressed_type", "name.backup", "name.temporary",
     "name.editor-swap", "name.system-metadata"}

Reported(codes, id) == [i \in DOMAIN codes |-> [code |-> codes[i], entry |-> id]]

\* Diagnostics::hasErrors
HasErrors(list) == \E i \in DOMAIN list : list[i].code \in ErrorCodes

\* ArchiveManifest::diagnostics, a part of ValidationResult::diagnostics.
InspectionDiagnostics == SubSeq(diagnostics, 1, inspected)

\* Of the commands list and verify, those that exit with 0.
ListSucceeds == ~HasErrors(InspectionDiagnostics)
Verified == ~HasErrors(diagnostics)

-----------------------------------------------------------------------------
(* Summaries.                                                              *)

\* Mutant: sums are not bounded.
AddSizeUnbounded(a, b) == a + b

\* Sums of sizes are of 64 bits, and wrap around.
AddSize(a, b) == (a + b) % Word

\* One of SizeBucket, ExtensionSummary, DepthSummary, CatalogGroup, or a count.
Tally == [count : Nat, packed : Size, original : Size]
NoTally == [count |-> 0, packed |-> 0, original |-> 0]

\* Mutant: a tally begins anew with every entry.
AddedAnew(tally, m) ==
    [count |-> 1, packed |-> AddSize(0, m.packed), original |-> AddSize(0, m.original)]

\* addToBucket, and its like.
Added(tally, m) ==
    [count |-> tally.count + 1, packed |-> AddSize(tally.packed, m.packed),
     original |-> AddSize(tally.original, m.original)]

\* findBucket and classifySize, whose intervals have no gaps.
ClassOf(bounds, size) == Cardinality({i \in DOMAIN bounds : bounds[i] <= size})

Bucket(size) == ClassOf(BucketBounds, size)
SizeClass(size) == ClassOf(ClassBounds, size)

Folded(c) == [c EXCEPT !.word = Lexicon[c.word].fold]

Breakdowns ==
    {"packed_bucket", "original_bucket", "extension", "depth", "directory",
     "size_class", "flags", "name_class"}

\* summarizeExtensions: the group of an extension, and what it is called if there
\* is none.
NoExtension == Folded(Bare(NoneWord))
ExtensionGroup(name) ==
    LET ext == Folded(Extension(Last(name.components)))
    IN  IF ext = Empty THEN NoExtension ELSE ext

\* The group of an entry in each breakdown.
Group(m) ==
    [packed_bucket |-> Bucket(m.packed),
     original_bucket |-> Bucket(m.original),
     extension |-> ExtensionGroup(m.name),
     depth |-> m.depth,
     directory |-> Directory(m.name),
     size_class |-> SizeClass(m.original),
     flags |-> [compressed |-> m.compressed, nested |-> m.nested],
     name_class |-> NameClass(m.name)]

NoBreakdowns == [b \in Breakdowns |-> [g \in {} |-> NoTally]]

\* Of one breakdown's groups, the entry's with the entry, made if need be.
WithEntry(groups, g, m) ==
    [h \in DOMAIN groups \cup {g} |->
       LET tally == IF h \in DOMAIN groups THEN groups[h] ELSE NoTally
       IN  IF h = g THEN Added(tally, m) ELSE tally]

NoStats ==
    [all |-> NoTally, compressed |-> 0, nested |-> 0, max_depth |-> 0, changed |-> 0,
     largest |-> 0, largest_entry |-> 0]

\* accumulateStats, with PathSummary's count of changed names.
WithStats(s, m) ==
    [all |-> Added(s.all, m),
     compressed |-> s.compressed + IF m.compressed THEN 1 ELSE 0,
     nested |-> s.nested + IF m.nested THEN 1 ELSE 0,
     max_depth |-> IF m.depth > s.max_depth THEN m.depth ELSE s.max_depth,
     changed |-> s.changed + IF NameChanged(m) THEN 1 ELSE 0,
     largest |-> IF m.original >= s.largest THEN m.original ELSE s.largest,
     largest_entry |-> IF m.original >= s.largest THEN m.id ELSE s.largest_entry]

\* compressionRatio, as a fraction.
Ratio(m) ==
    CASE m.packed # 0 -> [num |-> m.original, den |-> m.packed]
      [] m.packed = 0 /\ m.original = 0 -> [num |-> 1, den |-> 1]
      [] m.packed = 0 /\ m.original # 0 -> [num |-> 0, den |-> 1]

Below(q, r) == q.num * r.den < r.num * q.den

NoCompression ==
    [compressed |-> NoTally, uncompressed |-> [count |-> 0, original |-> 0],
     best |-> 0, worst |-> 0]

\* The entry of the manifest with that id.
Listed(id) == CHOOSE m \in ToSet(manifest) : m.id = id

\* analyzeCompression: best and worst are the entries of those ratios.
WithCompression(s, m) ==
    IF m.compressed
      THEN [s EXCEPT
              !.compressed = Added(s.compressed, m),
              !.best = IF s.best = 0 \/ Below(Ratio(Listed(s.best)), Ratio(m))
                         THEN m.id ELSE s.best,
              !.worst = IF s.worst = 0 \/ Below(Ratio(m), Ratio(Listed(s.worst)))
                          THEN m.id ELSE s.worst]
      ELSE [s EXCEPT
              !.uncompressed = [count |-> s.uncompressed.count + 1,
                                original |-> AddSize(s.uncompressed.original, m.original)]]

-----------------------------------------------------------------------------
(* Differences.                                                            *)

\* Mutant: names that differ in case only are taken to be different.
KeyUnfolded(m) == m.normalized.components

\* compareKey
Key(m) == CanonicalKey(m.normalized)

Keys(list) == {Key(m) : m \in ToSet(list)}

\* catalogByNormalizedName keeps of the entries of one key the last, in the
\* order of their names and, for one name, of depth.  How names compare byte by
\* byte is left open.
Survivors(list, key) ==
    {m \in ToSet(list) :
       /\ Key(m) = key
       /\ \A x \in ToSet(list) : x.name = m.name => x.depth <= m.depth}

ByName(list) ==
    {f \in [Keys(list) -> ToSet(list)] :
       \A key \in Keys(list) : f[key] \in Survivors(list, key)}

Removed(m) == [name |-> m.name, what |-> "removed", left |-> m.original, right |-> 0]
AddedEntry(m) == [name |-> m.name, what |-> "added", left |-> 0, right |-> m.original]
Changed(l, r) ==
    [name |-> l.name, what |-> "changed", left |-> l.original, right |-> r.original]

Differs(l, r) == l.original # r.original \/ l.flags # r.flags

\* diffCatalogs, of two functions from keys to entries; addDiff counts.
Difference(left, right) ==
    {Removed(left[k]) : k \in DOMAIN left \ DOMAIN right}
      \cup {AddedEntry(right[k]) : k \in DOMAIN right \ DOMAIN left}
      \cup {Changed(left[k], right[k]) :
              k \in {j \in DOMAIN left \cap DOMAIN right : Differs(left[j], right[j])}}

-----------------------------------------------------------------------------

Init ==
    /\ \E i \in Inputs : archive = i.archive /\ whole = i.whole /\ other = i.other
    /\ options \in OptionSets
    /\ phase = "inspect" /\ next = 1
    /\ manifest = <<>> /\ diagnostics = <<>> /\ inspected = 0
    /\ stats = NoStats /\ compression = NoCompression
    /\ breakdowns = NoBreakdowns /\ diff = {}

\* The loop of a phase over a list.
At(p, list) == phase = p /\ next <= Len(list) /\ next' = next + 1 /\ UNCHANGED phase
Past(p, list, q) == phase = p /\ next > Len(list) /\ next' = 1 /\ phase' = q

Report(codes, id) == diagnostics' = diagnostics \o Reported(codes, id)

InspectEntry ==
    /\ At("inspect", archive)
    /\ manifest' = Extended(manifest, archive, next)
    /\ IF manifest' = manifest THEN UNCHANGED diagnostics
       ELSE Report(InspectionIssues(archive[next], Last(manifest').depth), next)
    /\ UNCHANGED <<input, inspected, summaries, diff>>

\* An archive that does not open has no entries to inspect.
EndInspection ==
    /\ Past("inspect", archive, "header")
    /\ Report(Codes(<<Test("header.parse", ~whole.opens),
                      Test("extension", whole.opens /\ ~whole.sound)>>), 0)
    /\ inspected' = Len(diagnostics')
    /\ UNCHANGED <<input, manifest, summaries, diff>>

\* checkArchiveFormatRules, for the archive
CheckHeader ==
    /\ phase = "header" /\ phase' = "format"
    /\ Report(Codes(<<Test("format.unknown_flags", ~whole.known),
                      Test("format.archive_size", whole.size > FormatSizes.archive),
                      Test("format.extension_size",
                           whole.opens /\ whole.extension > FormatSizes.extension)>>), 0)
    /\ UNCHANGED <<input, next, manifest, inspected, summaries, diff>>

\* and for its entries
CheckFormat ==
    /\ At("format", manifest)
    /\ Report(FormatIssues(manifest[next]), manifest[next].id)
    /\ UNCHANGED <<input, manifest, inspected, summaries, diff>>

\* validateArchiveTotals, which computes ArchiveStats for itself, and
\* validateLayoutOrder
ValidateTotals ==
    /\ Past("format", manifest, "entries")
    /\ Report(Codes(<<Test("archive.large", whole.size > MaxArchiveSize),
                      Test("index.empty", manifest = <<>> /\ ListSucceeds),
                      Test("nesting.depth",
                           \E m \in ToSet(manifest) : m.depth > options.max_depth),
                      Test("layout.overlap", whole.opens /\ whole.overlap)>>), 0)
    /\ UNCHANGED <<input, manifest, inspected, summaries, diff>>

\* validateEntryTree
ValidateEntry ==
    /\ At("entries", manifest)
    /\ LET m == manifest[next] IN
       Report(PolicyIssues(m) \o LayoutIssues(m) \o CompressionIssues(m) \o FlagIssues(m),
              m.id)
    /\ UNCHANGED <<input, manifest, inspected, summaries, diff>>

EndValidation ==
    /\ Past("entries", manifest, "summarize")
    /\ UNCHANGED <<input, manifest, diagnostics, inspected, summaries, diff>>

\* analyzeArchive and groupCatalog
SummarizeEntry ==
    /\ At("summarize", manifest)
    /\ LET m == manifest[next] IN
       /\ stats' = WithStats(stats, m)
       /\ compression' = WithCompression(compression, m)
       /\ breakdowns' = [b \in Breakdowns |-> WithEntry(breakdowns[b], Group(m)[b], m)]
    /\ UNCHANGED <<input, manifest, diagnostics, inspected, diff>>

\* diffCatalogs
Compare ==
    /\ Past("summarize", manifest, "done")
    /\ \E left \in ByName(manifest), right \in ByName(ManifestOf(other)) :
         diff' = Difference(left, right)
    /\ UNCHANGED <<input, manifest, diagnostics, inspected, summaries>>

Finished == phase = "done" /\ UNCHANGED vars

Next ==
    \/ InspectEntry \/ EndInspection \/ CheckHeader \/ CheckFormat \/ ValidateTotals
    \/ ValidateEntry \/ EndValidation \/ SummarizeEntry \/ Compare
    \/ Finished

Spec == Init /\ [][Next]_vars

-----------------------------------------------------------------------------
(* Properties.                                                             *)

TypeInvariant ==
    /\ phase \in {"inspect", "header", "format", "entries", "summarize", "done"}
    /\ next \in 1 .. Len(archive) + 1
    /\ \A k \in DOMAIN manifest : /\ manifest[k].id \in k .. Len(archive)
                                  /\ manifest[k].depth \in 0 .. options.max_depth
    /\ \A i \in DOMAIN diagnostics : diagnostics[i].entry \in 0 .. Len(archive)
    /\ inspected \in 0 .. Len(diagnostics)
    /\ stats.all \in Tally /\ compression.compressed \in Tally
    /\ compression.uncompressed.original \in Size
    /\ \A b \in Breakdowns : \A g \in DOMAIN breakdowns[b] : breakdowns[b][g] \in Tally

\* A name that inspection has nothing to say against is the one its entry is
\* extracted under, though one program goes by a policy (path_utils.cc:218) and
\* the other by std::filesystem (nested.cc:176); every name that the format
\* rules warn of (format_rules.cc:502) is objected to or changed by the policy,
\* too; what is left of a name with one defect in each component is not changed
\* again; and pack() names no entry that extraction would name otherwise.
NamesJudgedAlike ==
    phase = "done" => \A m \in ToSet(manifest) :
       LET valid == PathIssues(DefaultPolicy, m.name) = <<>> IN
       /\ valid /\ ~m.name.back => Output(m.name) = m.normalized
       /\ NameClass(m.name) \in DOMAIN NameRule => ~valid \/ NameChanged(m)
       /\ (\A c \in ToSet(m.name.components) :
             Cardinality(Defects(c)) <= IF c.word = NoWord THEN 0 ELSE 1)
          => Normalized(DefaultPolicy, m.normalized) = m.normalized
       /\ BelowRoot(m.name) # <<>> => Output(PackedName(m.name)) = PackedName(m.name)

Validated == phase \in {"summarize", "done"}

\* The commands list and verify fail only for a reason (main.cc:87, 106). list:
\* the archive, its extension, some chunk or some archive in it cannot be read;
\* if it does not fail, no entry is left out, of any archive in it.
\* verify: that, or chunks overlap or are deeper than the format's limit, which
\* no option changes (format_rules.h:74): none of the other rules that report
\* errors ever finds one.
VerdictExact ==
    Validated =>
       LET shallow == \A m \in ToSet(manifest) : m.depth <= FormatDepth
       IN  /\ ListSucceeds <=>
                 /\ whole.opens /\ whole.sound
                 /\ \A m \in ToSet(manifest) :
                       Decodes(archive[m.id]) /\ (Recurses(archive[m.id]) => m.opened)
           /\ ListSucceeds => {m.id : m \in ToSet(manifest)} = DOMAIN archive
           /\ Verified <=> ListSucceeds /\ ~(whole.opens /\ whole.overlap) /\ shallow

\* An entry as buildArchiveFromPayloads (nested.cc:131) makes it, of a file that
\* is small enough and has a name without defects.
AsPacked(e) ==
    /\ e.inside /\ e.length = e.packed /\ e.packed <= MaxChunkSize
    /\ e.chunkFlags = e.flags /\ "unknown" \notin e.flags
    /\ "nested" \in e.flags <=> e.content # "plain"
    /\ IF "compressed" \in e.flags
         THEN e.packed < e.original /\ e.packed # 0 /\ e.expansion = e.original
         ELSE e.packed = e.original
    /\ e.content # "broken"
    /\ ~e.name.back /\ BelowRoot(e.name) # <<>> /\ PackedName(e.name) = e.name
    /\ PathIssues(DefaultPolicy, e.name) = <<>>

\* Of the entries that pack() wrote verification says nothing, but that they are
\* large, empty, well compressed, deep or of a type that gives rise to advice.
PackedIsQuiet ==
    phase = "done" /\ (\A i \in DOMAIN archive : AsPacked(archive[i])) =>
       \A d \in ToSet(diagnostics) :
          d.entry # 0 =>
             d.code \in {"chunk.large_entry", "chunk.empty_entry", "compression.high_ratio",
                         "compression.already_compressed_type", "name.backup",
                         "name.temporary", "name.editor-swap", "name.system-metadata",
                         "nesting.depth_limit", "format.nested_depth"}

\* The sum of a field of all tallies of a breakdown.
SumOf(groups, field) == MapThenSumSet(LAMBDA g : groups[g][field], DOMAIN groups)

CountWhere(groups, flag) ==
    MapThenSumSet(LAMBDA g : groups[g].count, {g \in DOMAIN groups : g[flag]})

\* The summaries, each of which is counted by a loop of its own, agree: the
\* groups of every breakdown add up to the totals (manifest.cc:68), sums taken
\* modulo 2^64; so do compressed and other entries (archive_stats.cc:171); and
\* the entries singled out are extreme among all.
SummariesAgree ==
    phase = "done" =>
       /\ \A b \in Breakdowns :
             /\ SumOf(breakdowns[b], "count") = stats.all.count
             /\ SumOf(breakdowns[b], "packed") % Word = stats.all.packed
             /\ SumOf(breakdowns[b], "original") % Word = stats.all.original
       /\ stats.all.count = Len(manifest)
       /\ stats.compressed = compression.compressed.count
       /\ stats.compressed = CountWhere(breakdowns["flags"], "compressed")
       /\ stats.nested = CountWhere(breakdowns["flags"], "nested")
       /\ compression.compressed.count + compression.uncompressed.count = stats.all.count
       /\ AddSize(compression.compressed.original, compression.uncompressed.original)
            = stats.all.original
       /\ stats.max_depth \in DOMAIN breakdowns["depth"] \cup {0}
       /\ \A m \in ToSet(manifest) :
             /\ m.depth <= stats.max_depth
             /\ m.original <= Listed(stats.largest_entry).original
             /\ m.compressed => /\ ~Below(Ratio(Listed(compression.best)), Ratio(m))
                                /\ ~Below(Ratio(m), Ratio(Listed(compression.worst)))

SameKey(m, x) == CanonicalKey(m.normalized) = CanonicalKey(x.normalized)
Alone(m, list) == \A x \in ToSet(list) : SameKey(m, x) => x = m

What(kind) == {d \in diff : d.what = kind}

\* diffCatalogs (catalog.cc:167): of entries whose key no other entry of their
\* archive has, exactly those are listed that the other archive lacks, and those
\* whose size or flags differ there; and however many entries share a key, what
\* is added and removed makes up for the difference in the number of keys.
DiffExact ==
    phase = "done" =>
       LET keys(list) == {CanonicalKey(m.normalized) : m \in ToSet(list)} IN
       \A theirs \in {ManifestOf(other)} :
           /\ \A m \in ToSet(manifest) : Alone(m, manifest) =>
                /\ Removed(m) \in diff <=> \A x \in ToSet(theirs) : ~SameKey(m, x)
                /\ \A x \in ToSet(theirs) : SameKey(m, x) /\ Alone(x, theirs) =>
                      (Changed(m, x) \in diff <=> Differs(m, x))
           /\ \A x \in ToSet(theirs) : Alone(x, theirs) =>
                (AddedEntry(x) \in diff <=> \A m \in ToSet(manifest) : ~SameKey(m, x))
           /\ Cardinality(What("added")) - Cardinality(What("removed"))
                = Cardinality(keys(theirs)) - Cardinality(keys(manifest))
           /\ Cardinality({d.name : d \in diff}) = Cardinality(diff)

=============================================================================
