# Verification of Vector Archive

TLA+ models of the archiver in `src/`, the TLC runs that check them, and proofs
that TLAPS checks. Vector Archive packs files into one binary container
(`.vec`), extracts them again, lists and verifies archives. It is one thread and
keeps no state between two runs: what is hard in it is that all levels of a
nested extraction share four buffers through raw pointers, that a failure can
end the work anywhere, and that several readers of one format must agree.

## 1. The system

| component | files under `src/src/` | state | operations | what makes it correct |
|---|---|---|---|---|
| buffer pool | `pool` | four slots (storage, capacity), `cursor_`, `generation_` | `acquire`, `recycleForNested`, `generation` | how long a block may be used; no read outside storage that exists |
| chunk codec | `chunk` | none of its own; blocks of the pool | `encodeRle`, `encodeChunkPayload`, `decodeRle`, `readChunk` | what is packed is unpacked; a block is not overrun; malformed chunks are refused |
| extraction, packing | `nested`, `archive.h` | the call stack: one handle per level; files on disk | `pack`, `unpack` (file, memory), `unpackNestedOnly`, `parseArchiveBytes`, `parseNestedArchive` | every file exact, in order; success only when complete; bounded depth; it returns |
| header, primitive reader | `header` | position of a `Reader` | `readByte`, `readVarint`, `readBytes`, `parseHeader`, `writeVarint` | never past the end; varints invert each other |
| index table | `index` | entries, names | `parseIndex`, `writeIndex` | limits, names inside the input |
| extension | `checksum` | none | `parseExtension`, `writeExtension` | absent, valid, mismatched, truncated |
| inspection | `inspect` | a manifest, its own pool per level, a collision resolver | `inspectArchive*`, `readChunkLayout`, `inspectExtensionState` | reports the archive extraction sees |
| manifest | `manifest` | a tree of entries | totals, flattening, output | totals agree with the tree and with every breakdown |
| validation | `validator` | diagnostics | `validateArchive*`, one function per rule | an archive that verifies can be extracted |
| diagnostics | `diagnostics` | a list of issues | add, count, format | counts agree with the list; truncation says what is left out |
| checked reader | `byte_io` | position, sticky error | reads, `inspectVarint`, `checkedAdd`, `checkedMul` | first error kept, nothing moves after it |
| paths, collisions | `path_utils`, `path_report` | names assigned so far | `analyzePath`, `CollisionResolver::assign`, `buildExtractionPlan` | no name given out twice; it returns; a name that is accepted is the one extracted |
| format rules, statistics, catalog, reports | `format_rules`, `archive_stats`, `catalog`, `report` | none | tables, checks, layout segments, diffs, output | segments partition the file; a diff accounts for every entry; no rule fails an archive for a reason of its own |
| command line | `main` | none | one library call per command | exit code |

Interactions: everything is a direct call. `unpack` owns one `BufferPool` and
passes it down the recursion of `parseArchiveBytes` and `parseNestedArchive`;
`readChunk` decodes into it and returns a `ChunkHandle`, a raw pointer. A nested
archive is parsed *in* the buffer its chunk was decoded into, while its own
chunks are decoded into further slots of the same ring. Inspection parses the
same bytes with its own code and a pool per level; validation reads the
manifest inspection leaves.

There is no concurrency, no network, no timeout and nothing to recover after a
crash. The hard behaviours are the sharing of slots by levels that do not know
of each other, the failure of one step of many with files already on disk, sizes
and counts that the archive states more than once, and limits.

## 2. Modules

* `LeaseWindow`: the abstract specification of a pool: a borrowed block can be
  relied on while it is one of the last *Window* handed out.
* `BufferPool` (`pool.cc`): the ring, slot by slot, under any client. A history
  variable names each allocation by the value `generation_` got, so "the storage
  behind this pointer is gone" is a state predicate. `MCBufferPool` is its
  instance for TLC, `BufferPoolProofs` its proofs.
* `Unpack` (`nested.cc`, `chunk.cc`): extraction as a stack of frames, one per
  activation of `parseArchiveBytes`, over an instance of `BufferPool` whose
  handles are those in the frames. One action per part of the function between
  two changes of the pool: `Open`, `ParseIndex` (header, index and the first pass
  over all chunk headers), `ReadChunk` (checks and `acquire`), `CopyChunk`,
  `Descend` (depth limit, recycling, recursive call), `WriteFile`,
  `ParseExtension`. Byte strings are opaque; the constant `Bytes` says what the
  parser makes of each. A read through a pointer whose bytes have been replaced
  or freed yields any string of `Residue`, and any check on it may go either way.
* `UnpackFidelity`: what extraction should give, as a recursive definition over
  the archive, and the condition `Fits` under which the code gives it. Both are
  recursive functions of the number of levels that the depth limit leaves, so that
  they are defined for an archive that contains itself, too. `MCUnpack` holds the
  archives for TLC, `UnpackProofs` the proofs about both modules.
* `DataInduction`: what several proofs need of induction and of recursive functions;
  it models no code.
* `ChunkCodec` (`chunk.cc`): run-length encoding and decoding, byte by byte.
  `MCChunkCodec` is its instance.
* `ChunkStream` (`nested.cc`, `inspect.cc`, `validator.cc`, `chunk.cc`,
  `checksum.cc`, `header.cc`): what follows the index of an archive, as bytes,
  read first by extraction (two loops over the index, then the extension) and
  then by inspection and validation (one loop, extension, rules). An action is
  one iteration of a loop. Each reader has its own idea of where a chunk ends:
  `ScanEnd`, `LayoutEnd`. `MCChunkStream` is its instance. `ChunkProofs`
  holds the proofs about `ChunkCodec` and `ChunkStream`, which have no variables in common.

* `Container` (`nested.cc`, `index.cc`, `header.cc`): `pack()` input by input and
  entry by entry, what it writes, and `parseHeader`, `parseIndex` and the first
  pass over the chunks on those bytes, on a part of them, or on other bytes.
  The lengths of names, counts and offsets go through the varint writer and the
  varint reader. What was accepted is then extracted file by file (`ExtractEntry`):
  the members of a packed archive into the directory that `replace_extension`
  names (`NestedDir`), then the archive itself; paths are equal, or below one
  another. Which members an archive has, and whether it can be extracted, fits the
  ring or overruns it, is data (`Input`), and the subject of `Unpack`; what comes of
  an archive that overruns the ring is left open (`Content`).
* `ByteRanges` (`byte_io.cc`): ranges of bytes and sums and products that are
  refused if they do not fit.
* `CheckedReader` (`byte_io.cc`): the program's second reader, on the foreign bytes
  of `Container`, every call after every other, failed ones included; beside it a
  twin makes the same calls on the `Reader` of `header.cc`. It EXTENDS `Container` and
  `ByteRanges`. `MCContainer` is the instance of all three, `ContainerProofs` holds the
  proofs about them.
* `Layout` (`validator.cc`, `archive_stats.cc`, `manifest.cc`): two sweeps over the
  chunks of an inspected archive, `validateLayoutOrder` and `buildLayoutSegments`
  with `sortAndAddGaps`, one iteration at a time; `std::sort` leaves the order of
  equal elements open. `MCLayout` is its instance.
* `CollisionResolver` (`path_utils.cc`): `assign()`, one attempt at a time, for every
  policy. A name is a base and the marks added to it; what normalization and case
  folding make of a base is data. `NameChecks` composes it with the four loops
  over the names of an archive and of those nested in it: inspection (a resolver
  per archive), `validateDuplicates`, `analyzePaths` and `buildExtractionPlan` (one
  resolver). `MCNameChecks` is its instance. `ChecksProofs` holds the proofs about
  `Layout` and `NameChecks`, which have no variables in common.

* `Paths` (`path_utils.cc`, `format_rules.cc`, `nested.cc`): names as sequences of
  components, each a word with the blanks and dots behind it; what the policy,
  the classes of the format rules, extraction and `pack()` make of them. What is
  asked of a word (its length, whether it is a device name, its extension) is a
  record of the constant `Lexicon`. `PathsProofs` proves what its operators return,
  for every lexicon.
* `Manifests` (`inspect.cc`, `format_rules.cc`, `validator.cc`, `manifest.cc`,
  `archive_stats.cc`, `catalog.cc`): what is reported of an archive and of those
  nested in it, without extracting it. An action is one iteration of a loop:
  `InspectEntry`, `CheckFormat`, `ValidateEntry`, `SummarizeEntry`; `Compare` is
  `diffCatalogs`. `CheckHeader` and `ValidateTotals` are the rules on the archive as a
  whole, and `Advisories` (in `Paths`) and `TypeIssues` those on file types. It EXTENDS
  `Paths`.
* `Listings` (`archive_stats.cc`, `catalog.cc`, `manifest.cc`): what is sorted, cut
  off, filtered or looked up in a manifest. It EXTENDS `Manifests`.
* `Reports` (`diagnostics.cc`, `report.cc`): severities, the summary, which issues the
  text and the JSON show under a limit, and the tables and the status line of a
  report. It EXTENDS `Listings`; `MCManifests` is the instance of all, `ManifestsProofs`
  holds the proofs about `Manifests`, `Listings` and `Reports`.

How the modules fit: `Unpack` composes the pool with the recursion and takes the
outcome of parsing as data; `ChunkCodec`, `ChunkStream` and `Container` are what
that data abstracts, each on bytes; `Layout`, `NameChecks` and `Manifests` take what
inspection (`ChunkStream`) makes of a chunk as data; the rules on layout and on
duplicates, which `Manifests` leaves out, are those of the other two. Abstract
specifications are `LeaseWindow`, which `BufferPool` implements, and `BufferPool`
itself, which the recursion of `Unpack` implements (`PoolSpec`).

Definitions whose comment begins with "Mutant" are wrong on purpose: each is the
code with a plausible mistake, kept to see that a property notices it. No
specification uses them.

## 3. Runs

| run | bounds | what it shows |
|---|---|---|
| `pool` (`MCBufferPool`) | 4 slots as in the code, 5 acquisitions, sizes 0, 40 and 50, pressures 64, 71 and 88 (the remainders 13, 3 and 3 modulo 17), depths 1 and 2 | Any client of the ring. `WindowExact`: a handle loses its slot at the `SlotCount`-th `acquire` after its own and not before. `GenerationDetectsFree`: storage is freed only with a new `generation()`. `HandleFits`: what a handle names lies inside its storage, if that exists. `LeaseSpec`: the ring implements `LeaseWindow`. |
| `unpack` (`MCUnpack`) | the archives of `MCUnpack`: up to four members, two levels, one of each defect | Extraction with file system failures. `FaithfulPrefix`: what is on disk is an initial part of what should be, the last file possibly cut short. `SuccessExact`: success means all of it, from a file and from memory. `OuterFilesExact`, `PoolSpec` (each level uses the ring as `BufferPool` allows), `Termination`. |
| `unpack_stale` | the archives whose sizes recycle nothing | The container's file is written from a buffer reused meanwhile: a finding, below. |
| `unpack_unflushed` | same | A file's bytes are lost after the stream was asked for errors, and success is reported: a finding, below. |
| `codec` (`MCChunkCodec`) | files of up to 9 bytes of 2 values, chunks of up to 5 bytes 0 to 3; the longest run is 3 | `RoundTrip`, `WithinBlock`, `DecodeExact` (accepted exactly when well formed). |
| `stream` (`MCChunkStream`) | every stream of up to 5 bytes of 4 values with one entry, of up to 4 bytes of 3 values with two; every option | `ExtractableIsInspected`: what extraction accepts is inspected without error. `StreamEndAgrees`: both readers look for the extension in the same place, inside the archive. `FailureLocated`: where extraction fails, verification reports an error of that entry, unless it is an empty one that is marked as an archive. |
| `stream_lengths` | same | An archive that verifies and cannot be extracted: a finding, below. |
| `layout` (`MCLayout`) | every manifest of up to 3 entries, own and nested, in a file of 7 bytes | `OverlapExact`: errors exactly where chunks share bytes. `AccountsForFile`: every byte is in a segment, gaps are claimed by nothing else. `GapsAgree`: both sweeps find the same. `PartitionedUnlessOverlapping`. |
| `names` (`MCNameChecks`) | up to 3 entries with 4 bases, every nesting, every policy; the counter of attempts is 3 bits wide | `NamesDistinct`, `FirstFree`: names given out are distinct and changed no more than needed. `ChecksAgree`: four components agree on what collides. `NamingEnds`. |
| `container` (`MCContainer`) | up to 2 inputs of 11 kinds and 3 of the 4 that get in each other's way, or 4 small ones; at most 3 entries and names of 5 bytes; packed archives with up to two members; varint digits of 2 bits, up to 3 of them; every cut; other bytes up to 8 behind a header; `CheckedReader` on those of up to 4 bytes, with counts 0, 2 and the largest there is | `PackedComesBack`: the index and the chunks are read as they were written; extraction succeeds only if no file is too large or only looks like an archive, and no path is in the way of another, those of packed archives' members included; of equal paths the last file is left; and then it does succeed, if no packed archive overruns the ring. Beyond the limits or with its end missing nothing is extracted. `AcceptedIsEncoding`: the parser accepts nothing but encodings of the index it returns. `ReadersAgree`: a `CheckedReader` that is good in the end gave every answer that `Reader` gives, and the two read varints alike but for values that do not fit. |
| `container_damaged` | one input, none of which is in the way of another | An archive that `pack` wrote and `unpack` gives up on: a finding, below. |
| `manifests` (`MCManifests`) | 1300 names of one to three components, 24 components with every defect; a chunk of every kind; archives of every size, with unknown flags or extensions, or that do not open; containers in containers, up to three levels and four entries; every pair of archives of up to two of four entries; depth limits 0, 1 and 2, both policies; issue limits 0 to 2, three selections of severities | `NamesJudgedAlike`: a name that inspection accepts is the one extraction uses; rules of different components agree. `VerdictExact`: list and verify fail exactly for what cannot be decoded or opened, verify also for what overlaps or is too deep, and if list does not fail it leaves no entry out, however deep. `PackedIsQuiet`: nothing but size, depth and advice is reported of what `pack` wrote. `SummariesAgree`: every breakdown adds up to the totals. `ListingsAgree`: every list agrees with the summary it belongs to, but for the two groups that have none, and an entry is found by its name. `ReportAccounts`: what is shown and what is said to be left out are all the issues; a failed archive never has a report without a line of its own. `DiffExact`: what a diff lists, with several entries of one key too. |

Why small bounds are enough: a ring of few slots wraps as one of four does, and
the depth limit, the longest run, the longest varint and the largest chunk are
constants, given small values so that each limit is met from both sides. In
`stream`, 128 as a varint's first byte gives every small number encodings of one
and of two bytes, which is what the readers differ about. A manifest of three
chunks in seven bytes has every order, overlap, containment, gap and empty chunk
that two neighbours and a third can have. `unpack` loses at most two files
unnoticed (`MaxLost`): one before and one behind a file that is written. In `manifests`
sums wrap at 8 in place of 2^64, and the default policy's limits on names are met
from both sides; the permissive policy's (`MCPermissiveLimits`) are out of reach, as
they nearly are in the code. Deadlock is checked in every run; finished behaviours
stutter in an action of their own.

Fairness: `Unpack` and `NameChecks` (`FairSpec`) have weak fairness of the next step.
One thread runs and nothing else does, so each enabled step happens; calls of
the file system are taken to return. `Termination` and `NamingEnds` rest on it.

## 4. Proofs

| module | theorems | argument |
|---|---|---|
| `BufferPoolProofs` | types, `WindowExact`, `GenerationDetectsFree`, `HandleFits`, `LeaseSpec` | The cursor tells the age of each slot: a handle's slot is as far behind the cursor as acquisitions were made since. The refinement maps a step of the ring to one of the window. |
| `ChunkProofs` | types of `ChunkCodec` (`CodecTypes`), `WithinBlock`, `RoundTrip`, `DecodeExact` | Runs of the encoding correspond to pieces of the input; the decoder stands at the start of a run and has produced the input up to there. Of any data, it has produced what the runs so far stand for (`Decoded`), and what the runs stand for only grows, so that a run that does not fit now never does. |
| `DataInduction` | | Induction over the naturals, as a property of sets: a set that holds 0 and the successor of each of its members up to a bound holds every number up to that bound. From it, the recursion theorems that give a recursive function its equations. |
| `ChunkProofs` | types of `ChunkStream`, `FailureLocated`, `StreamEndAgrees`, `ExtractableIsInspected` | A varint, a chunk and its content look the same in every view of the stream that shows them. A varint has at least the value that its last digit has there, and the digits of the shortest form of a number are no more than those of any other, so extraction, which takes the shortest form, never ends behind inspection. The invariant `AgreeInv` says of both loops that the end they keep is that of the last chunk so far (`EndsAt`), of extraction which entries were good, and of inspection that every problem so far is among the errors. |
| `ChecksProofs` | types of `Layout` (`LayoutTypes`), `OverlapExact`, `AccountsForFile`, `PartitionedUnlessOverlapping`, `GapsAgree` | The end the validator has reached is that of the furthest chunk so far, and chunks come by offset, so a chunk that shares a byte with an earlier one begins before it. The cursor of the second sweep has every byte behind it in a segment and no gap in front of it. Each sweep has reported the voids (`Voids`) of the ranges it has passed, and the chunks leave the voids their segments leave, so the gaps agree. |
| `ChecksProofs` | types of `NameChecks`, `NamesDistinct`, `FirstFree`, `ChecksAgree` | `NamesInv`: the set of taken keys is that of the names given out (`KeysGranted`), the call in progress has found every earlier candidate taken (`CallInv`), and so did every call before (`GrantedInv`). It holds when the counter of attempts comes round, too. `ChecksInv`: the keys seen and the duplicates among the entries compared so far add up to their number, and an entry the plan renames found its own key granted to an earlier one. |
| `ContainerProofs` | `CheckedExact`, `WithinExact`, `OverlapExact`, `ContainsExact` | Of every word size: a sum or product is refused exactly if it does not fit, and ranges that fit are inside, overlap or contain one another exactly if the bytes say so. |
| `ContainerProofs` | `PackedComesBack` (`PackedTheorem`) | The digits that `writeVarint` writes of a number are those that `readVarint` adds up (`WrittenDigits`), for any base and any word. `BackInv` has two halves. While an archive is built, each entry says of its file what it should, and its chunk is at its offset (`Stored`). While it is read, what was written, or what a cut left of it, lies in the archive (`Lies`), and `Phase` says for each action where the reader stands (`EntryStart`) and that the rows so far say the entries so far. So a read yields what was written or fails for want of bytes (`Yields`), and only a cut makes it fail. The end of the last chunk is the end of the archive, so the first pass misses a cut of any length. Extraction then puts down the files one by one: those before the one it is at (`Reached`) are on disk, none in the way of another, each path with the last of its files (`OnDisk`, `LastIs`). |
| `ContainerProofs` | `AcceptedIsEncoding` (`AcceptedTheorem`) | A varint that was read, written again, is no longer than it was, and if as long has the same digits, but for the last of a full-length one, where a word may have cut it (`VarintAgain`). That two parts have this property makes it one of the whole (`AgainAfter`), so the parser can be followed entry by entry (`AgainInv`): what has been read so far is an encoding of the entries so far. |
| `ContainerProofs` | `ReadersAgree` (`ReadersTheorem`) | `ReaderInv`: until the first error, both readers are at the same place and gave the same answer, and after it `good()` says so. The loop of `inspectVarint` stops at the byte where `readVarint` ends, or before a digit that does not fit, and a value without such a digit loses nothing in a word (`AcceptedFits`). |
| `UnpackProofs` | `PoolTheorem`, `HandlesTheorem`, types, `OuterFilesTheorem` | `StackInv`: each call but the innermost waits in `parseNestedArchive` and its callee reads from the handle it holds; the outermost reads the caller's bytes, which nothing overwrites. Hence every step of the recursion is one of `BufferPool`'s client or none (`PoolTheorem`), and what `BufferPoolProofs` shows of any client holds of the handles on the stack (`HandlesTheorem`). Between `readChunk` and `writeWholeFile` of an entry that is no archive nothing is acquired, so its block still holds what was decoded, however often the ring came round before (`OuterFilesTheorem`). |
| `UnpackProofs` | `FaithfulTheorem`, `SuccessTheorem` | `FidelityInv`: every call on the stack has a place in `Expected` (`Tracks`), a directory, a position and the number of files that were due before it; what is written so far is what was due up to the innermost call. The handle of each waiting call still holds the entry, since the buffers acquired since then are bounded by what `Acquisitions` says of the archives below (`Ceiling`), less than the ring has. TLC checked `FidelityInv` on the archives of `MCUnpack` before it was proved. |
| `PathsProofs` | | Lemmas that `ManifestsProofs` cites: what a loop keeps of a sequence (`WithinTakes`), which codes a list of tests reports (`CodesMembers`), that a fold over components is a function of how many it has been over (`FoldExists`, `StepsTyped`), and what normalizing and sanitizing leave of a name (`LexicallyNormalIs`, `OneDefect`, `NormalizedStable`). |
| `ManifestsProofs` | types (`ManifestTypesTheorem`) | `PlaceInv`: in each phase, which entries the loop has been over, that the manifest lists them in order and describes each as `Described` does, one level below the container it is in, and leaves out only what is inside something that was not opened (`Listing`). `TalliesInv`: everything that is counted has its type. `PlaceInv` is what all other theorems build on. |
| `ManifestsProofs` | `VerdictExact` (`VerdictTheorem`) | `VerdictInv`: in each phase, an error is among the diagnostics exactly if one of the entries looked at so far, or the archive as a whole, gives rise to one, and which rules can. An entry that holds an archive is not empty, so inspection looks into it; if nothing is at fault it was opened, and what is in it listed, by induction over the places of the archive (`AllListed`). |
| `ManifestsProofs` | `NamesJudgedAlike` (`NamesTheorem`) | What `ComponentIssues` and `PathIssues` list is one predicate per code (`IssueOf`, `NameIssueOf`). A component that nothing is said against is none of the special ones, so `LexicallyNormal` keeps it (`NormalIs`). A component with one defect is mended to one that is not changed again (`OneDefect`, `ReplacementStable`), and so is a name of such components (`NormalizedStable`). |
| `ManifestsProofs` | `PackedIsQuiet` (`PackedTheorem`) | `Sourced`: each issue of an entry was reported of an entry that is listed, by one of the rules. Of an entry as `pack()` makes it each rule but those named is silent. |
| `ManifestsProofs` | `SummariesAgree` (`AgreementTheorem`) | `SumsInv`: each breakdown is a function whose sums are the totals so far, modulo the word. One more entry adds to one group, and a sum over groups of which one has grown has grown by as much (`SumChanged`), a fact about `MapThenSumSet`. `ExtremesInv`: the largest size and the best and the worst ratio so far are those of an entry, and none so far is beyond them; ratios are compared as products, and that is an order (`NotBelowFollows`). |
| `ManifestsProofs` | `DiffExact` (`DiffTheorem`) | `DiffInv`: the difference is that of the manifest and of `ManifestOf(other)`, which, being made by the same loop, is a list as `PlaceInv` says. A catalog keeps one entry per key, so an entry alone with its key is the one kept, and what is added, removed and kept are the parts of two sets of keys. |
| `ManifestsProofs` | `ReportAccounts` (`ReportTheorem`) | What a fold over the issues has shown, and what it has counted, as functions of the number of issues it has been over (`FoldsUpTo`): each issue is shown or counted (`ShownOrCountedHolds`), and what begins a list is shown first of what is shown of the list (`ShownFirst`). The top of a list sorted by size has the size that the summary calls the largest. |
| `ManifestsProofs` | `ListingsAgree` (`ListingsTheorem`) | `CountsInv`: the count of a group is the number of places of the manifest in it, by a bijection between places and the filtered list. The number of times a name occurs is the number of entries of its key, so the sum over all names is the number of entries. No extension is what those without one are counted as (`FoldedExtension`). The search takes the first entry that fits, and what has been given the name of another has its key. |

They hold for every value of the constants under the assumptions named in the
modules (`PoolAssumption`, `CodecAssumption`, `StreamAssumption`,
`LayoutAssumption`, `ResolverAssumption`, `NamesAssumption`,
`ByteRangesAssumption`, `UnpackAssumption`, `FidelityAssumption`,
`VarintAssumption`, `WordAssumption`, `ContainerAssumption`,
`CheckedReaderAssumption`, `PathsAssumption`, `ReplacementAssumption`,
`ManifestsAssumption`, `NoneAssumption`, `ReportsAssumption`), which TLC evaluates for the instances.
`FidelityAssumption` only says that names are made of strings.
`PathsAssumption` says that to fold the case of a word twice is to fold it once, and
that no limit of the default policy is above that of the permissive one.
`ReplacementAssumption` says what a word is mended to (`path_utils.cc:60`, `374`): no
device name has a dot in it, one behind `_` is none any more, and with `_` for its
unsafe characters a word has none left and is no device unless it was one.
`ManifestsAssumption` says that the bounds of sizes ascend and that the entries of
an archive stand behind the one that contains them, `NoneAssumption` that `"(none)"` is no
file's extension (`archive_stats.cc:267`). `WordAssumption` says that words end within the last digit of a full-length
varint, and are a multiple of what that digit counts for: 2^64 is 2 * 128^9. `ContainerAssumption` says that
exclusive or with 0x5a undoes itself, and that names and positions are sizes, as
every `std::string` has one. For the same reason `WriteArchive` only succeeds with
chunks whose length is a size: they are in memory.

Only model-checked: `Termination` and `NamingEnds`, which are liveness under
fairness, out of the prover's reach. Every other property of a passing run has a
theorem. What the proofs do not say: that the assumptions on data (`Lexicon`, `Bytes`,
`Inputs`) describe the program's own tables and bytes, which is what sections 2 and 6 are about.

## 5. Findings

* `unpack_stale`: a container with four members or more is extracted with another
  file's bytes in place of its own (`nested.cc:266`): its buffer has been handed out
  again by then.
* `stream_lengths`: an archive with a length written in more bytes than needed
  passes `verify` and is refused by `unpack` (`nested.cc:115`).
* `unpack_unflushed`: a file, or an archive, whose bytes are still buffered when
  `writeWholeFile` looks at the stream is lost without notice (`nested.cc:65`):
  `pack` of a small file to `/dev/full` succeeds.
* `container_damaged`: `pack` stores files that `unpack` gives up on, with every file
  behind them: a text that begins with `VEC!` (`nested.cc:135`), a file whose
  stored bytes exceed 64 MiB (`chunk.cc:84`). Likewise more than 4096 files, or a
  name longer than 4096 bytes (`index.cc:19`, `59`), which make the archive as a
  whole unreadable.

Without a run of their own:

* An archive two levels down, however few members there are, whose size is at least
  64 and leaves 3 modulo 17 frees the storage that it lies in (`pool.cc:36`), and that
  of its container. It is parsed there all the same, and both are written to disk from
  there. An address sanitizer stops at the first read. `NoStaleHandleUse` fails of such
  archives (`MCRecycling`) too, and earlier, which is why `unpack_stale` is about the
  others. `SuccessExact` and `FaithfulPrefix` promise nothing of them (`Fits`).
* `pack` stores an archive `x.vec` that has a member and a file `x.d`, `verify` has
  nothing against the result, and `unpack` fails: the members are put into a directory
  `x.d` (`nested.cc:253`). `PackedComesBack` says which paths get in each other's way
  so.
* An empty entry marked as a nested archive passes `verify`, since inspection does not
  look into it (`inspect.cc:149`), and `unpack` fails on it. `FailureLocated` names it
  as the one kind of entry that fails unreported.
* With `kKeepFirst`, `assign()` tries the same name for ever once it is taken
  (`path_utils.cc:185`), which is why `NamingEnds` excludes that strategy; no command
  uses it.

All of them were reproduced with the program itself, but for `kKeepFirst`, which
took a call of the class.

Not errors, but shown by `Manifests` and worth knowing:

* A component with two defects is only half mended: `"a. "` becomes `"a."`, which is
  changed again the next time (`path_utils.cc:60`).
* `a\b` is shown as `a/b` by inspection and written as one file `a\b` by extraction on
  POSIX; `a/../b` is shown as `a/b`, with a warning, and written as `b`.
* Some rules never find anything, since inspection decides before them:
  `path.no_output_name` (`validator.cc:172`), `nesting.depth` (`validator.cc:365`),
  `chunk.size_mismatch` (`validator.cc:216`), `format.payload_size`
  (`format_rules.cc:580`), and those on empty names, which the index refuses.
* `entriesWithExtension` asked for the group `"(none)"` of the statistics lists nothing
  (`archive_stats.cc:266`, `424`), and `filterCatalogBySize` asked for empty entries
  lists all (`catalog.cc:118`).
* The format's depth limit (`format_rules.h:74`) is not that of the options: an
  archive inspected deeper than it fails verification.

## 6. Not modelled

* Values that no property here tells apart: the arithmetic of the extension's
  checksum, the letters of names (what is asked of a word is data in `Paths`, and
  what becomes of a name is data in `NameChecks` and `Unpack`), messages.
* How names compare byte by byte: in `Manifests` the order that
  `buildCatalog` sorts names into is open, so a diff may pick any entry of a key.
* What only formats: text and JSON of manifests, diagnostics, reports, statistics
  and plans; the tables of `format_rules.cc` that descriptions and advice are
  looked up in, and the text search of the catalog; the arguments of `main.cc`.
* `byCategory` and `IssueBuilder` of the diagnostics, hexadecimal and
  ASCII previews, histograms and `encodeVarintToBytes` of `byte_io.cc`: each fills in
  or counts what it is given, and no other part of the program depends on it.
* The extension that `buildArchiveFromPayloads` writes for tests only
  (`buildArchiveForTest`); `pack()` writes none.
* Allocation failures. A declared size is allocated before it is checked
  against the data (`decodeRle`); an exception ends the program.
* Header and index as inspection and validation read them: they call the same
  `parseHeader` and `parseIndex`.

## 7. Plan

Built in this order, most important first: the pool, extraction over it, the
codec, the chunk stream and its two readers, layout, names, the container,
names on their own, what is reported of an archive, the checked reader beside
the parsers' reader, extraction of equal names, lists and reports, the proofs
about extraction, about the two readers of the chunk stream, about the decoder,
about the container and its two readers, and about all that is reported of an
archive. Every safety property that is checked is now proved as well.

The twelve runs each ask a question of their own; what is added is to be checked
in a composition with what uses it, so that its properties concern what is handed
over rather than one loop.
