------------------------------- MODULE Unpack -------------------------------
(***************************************************************************)
(* Extraction: unpack(), unpackNestedOnly(), parseArchiveBytes() and       *)
(* parseNestedArchive() in src/src/nested.cc, with readChunk() and         *)
(* decodeRle() of src/src/chunk.cc, over the BufferPool they all share.    *)
(*                                                                         *)
(* An entry that is itself an archive is parsed in place: the recursive    *)
(* call reads its header, index, chunks and extension from the pool buffer *)
(* the chunk was decoded into, while it acquires further buffers from the  *)
(* same ring.  The stack of calls is the sequence stack, outermost first.  *)
(*                                                                         *)
(* Byte strings are members of Payloads, and Bytes says what the parser    *)
(* makes of each.  A read from a buffer whose bytes are no longer those    *)
(* its holder put there (BufferPool!Intact is false: the slot was handed   *)
(* out again, or its storage freed) yields any member of Residue and makes *)
(* any check on it succeed or fail.                                        *)
(***************************************************************************)
EXTENDS Naturals, Sequences, FiniteSets

CONSTANTS
    SlotCount,        \* slots_.size(): 4 in the code
    MaxAcquires,      \* bound on acquire() calls, above what Roots need
    MaxNestedDepth,   \* kMaxNestedDepth: 8 in the code
    Payloads,         \* the byte strings that occur
    Bytes,            \* Bytes[p]: what the parser makes of p
    Residue,          \* what a reader may find in a buffer it no longer owns
    Roots,            \* the archives given to unpack
    Stale,            \* written from a buffer somebody else has written to
    Torn,             \* a file that was opened, not completely written
    Lost,             \* the same, but nobody knows
    MaxLost,          \* bound on the files lost that way
    ReplaceExtension  \* path::replace_extension(".d") on a last path component

Chunk == {"ok", "refused", "broken"}
Extension == {"absent", "ok", "mismatch", "truncated"}

\* An index entry and its chunk.  scan: chunkEncodedEnd accepts the chunk.
\* chunk: readChunk decodes it to payload, refuses it before it acquires a
\* buffer, or finds the run-length data broken after it did.
Entry == [name : Seq(STRING), nested : BOOLEAN, scan : BOOLEAN,
          chunk : Chunk, payload : Payloads]

\* vec: looksLikeVec.  parses: parseHeader and parseIndex succeed.
Parsed == [size : Nat, vec : BOOLEAN, parses : BOOLEAN,
           entries : Seq(Entry), extension : Extension]

ASSUME UnpackAssumption ==
    /\ SlotCount \in Nat \ {0}
    /\ MaxAcquires \in Nat
    /\ MaxNestedDepth \in Nat \ {0}
    /\ Bytes \in [Payloads -> Parsed]
    /\ Residue \subseteq Payloads /\ Residue # {}
    /\ Roots \subseteq Payloads
    /\ {Stale, Torn, Lost} \cap Payloads = {}
    /\ Stale # Torn /\ Stale # Lost /\ Torn # Lost
    /\ MaxLost \in Nat

VARIABLES
    capacity, cursor, generation, storage, lease, acquires,  \* see BufferPool
    contents,         \* what each slot was last filled with
    root,             \* the archive being unpacked
    entrypoint,       \* which function was called, see Init
    stack,            \* the calls of parseArchiveBytes, outermost first
    written,          \* the files written, in order, and from which entries
    result            \* "running", "ok" or "error": what unpack returns

poolVars == <<capacity, cursor, generation, storage, lease, acquires>>
vars == <<poolVars, contents, root, entrypoint, stack, written, result>>

\* The handle of a frame that holds none, and the source of the outermost
\* frame, whose bytes belong to the caller of unpack.
NoHandle ==
    [slot |-> 0, storage |-> 0, size |-> 0, pool_generation |-> 0, serial |-> 0]

OpenHandles == {stack[k].handle : k \in 1 .. Len(stack)} \ {NoHandle}

PayloadSizes == {Bytes[p].size : p \in Payloads}

Pool == INSTANCE BufferPool
          WITH Sizes <- PayloadSizes, Pressures <- PayloadSizes,
               Depths <- 1 .. MaxNestedDepth, handles <- OpenHandles

-----------------------------------------------------------------------------
(* Frames: one activation of parseArchiveBytes.                            *)

Frame(source, archive, depth, dir, pc) ==
    [source |-> source,     \* the buffer data points into
     archive |-> archive,   \* the bytes parsed: index, header flags
     depth |-> depth,
     dir |-> dir,           \* options.output_dir
     next |-> 1,            \* the entry the loop is at
     handle |-> NoHandle,   \* the loop body's ChunkHandle
     pc |-> pc]

Top == stack[Len(stack)]
\* The entry the innermost call is at: one entry number for every level.
Position == [k \in 1 .. Len(stack) |-> stack[k].next]

At(pc) == result = "running" /\ stack # <<>> /\ Top.pc = pc
Entries(f) == Bytes[f.archive].entries
Current(f) == Entries(f)[f.next]

Update(f) == stack' = [stack EXCEPT ![Len(stack)] = f]

\* Mutant: a caller goes on after its callee failed.
FailInnermost == stack' = SubSeq(stack, 1, Len(stack) - 1) /\ result' = "error"

\* Every caller returns false as soon as its callee does.
Fail == stack' = <<>> /\ result' = "error"

\* The bytes this call parses are still there.
SourceGood(f) == f.source = NoHandle \/ Pool!Intact(f.source)

\* What is left of a name, the sequence of parts of its lexically normal form,
\* without the parts that would leave the directory; "/" is the root.
KeptParts(name) ==
    LET kept == SelectSeq(name, LAMBDA part : part \notin {".", "..", "/"})
    IN  IF kept = <<>> THEN <<"unnamed">> ELSE kept

SafeOutputPath(dir, name) == dir \o KeptParts(name)

NestedDir(path) == [path EXCEPT ![Len(path)] = ReplaceExtension[@]]

StrictPrefix(p, q) == Len(p) < Len(q) /\ SubSeq(q, 1, Len(p)) = p

\* writeWholeFile cannot make path a file: it is a directory already, or one
\* of the directories above it is a file.
Blocked(path) ==
    \E k \in 1 .. Len(written) : \/ StrictPrefix(path, written[k].path)
                                 \/ StrictPrefix(written[k].path, path)

-----------------------------------------------------------------------------
(* The three entry points: unpack(file, dir), unpack(data, size) and       *)
(* unpackNestedOnly(data, size), which begins at depth 1.                  *)

EntryPoint == {"file", "memory", "nestedOnly"}

\* options.extract
extract == entrypoint = "file"

FirstDepth == IF entrypoint = "nestedOnly" THEN 1 ELSE 0

Init ==
    /\ Pool!PoolInit
    /\ contents = [s \in 0 .. SlotCount - 1 |-> Stale]
    /\ root \in Roots
    /\ entrypoint \in EntryPoint
    /\ stack = <<Frame(NoHandle, root, FirstDepth, <<>>,
                        IF extract THEN "open" ELSE "index")>>
    /\ written = <<>>
    /\ result = "running"

\* Mutant: the archive file is read into a block of the pool.
OpenIntoPool ==
    /\ At("open")
    /\ Pool!AcquireSlot(Bytes[root].size)
    /\ contents' = [contents EXCEPT ![cursor] = root]
    /\ Update([Top EXCEPT !.source = Pool!NewHandle(Bytes[root].size), !.pc = "index"])
    /\ UNCHANGED <<root, entrypoint, written, result>>

\* Read the archive file and create the output directory, or fail to.
Open ==
    /\ At("open")
    /\ \/ Update([Top EXCEPT !.pc = "index"]) /\ UNCHANGED result
       \/ Fail
    /\ UNCHANGED <<poolVars, contents, root, entrypoint, written>>

-----------------------------------------------------------------------------
(* One call of parseArchiveBytes.                                          *)

\* Mutant: no first pass over the chunk headers.
ParseIndexOnly ==
    /\ At("index")
    /\ \E seen \in IF SourceGood(Top) THEN {Top.archive} ELSE Residue :
          IF Bytes[seen].parses
            THEN /\ Update([Top EXCEPT !.archive = seen, !.pc = "entry"])
                 /\ UNCHANGED result
            ELSE Fail
    /\ UNCHANGED <<poolVars, contents, root, entrypoint, written>>

\* The header, the index, and a first pass over all chunk headers.
ParseIndex ==
    /\ At("index")
    /\ \E seen \in IF SourceGood(Top) THEN {Top.archive} ELSE Residue :
          IF /\ Bytes[seen].parses
             /\ \A k \in 1 .. Len(Bytes[seen].entries) : Bytes[seen].entries[k].scan
            THEN /\ Update([Top EXCEPT !.archive = seen, !.pc = "entry"])
                 /\ UNCHANGED result
            ELSE Fail
    /\ UNCHANGED <<poolVars, contents, root, entrypoint, written>>

\* readChunk up to and including acquire().
ReadChunk ==
    /\ At("entry")
    /\ Top.next <= Len(Entries(Top))
    /\ \E refused \in IF SourceGood(Top)
                        THEN {Current(Top).chunk = "refused"} ELSE BOOLEAN :
          IF refused
            THEN Fail /\ UNCHANGED poolVars
            ELSE LET size == Bytes[Current(Top).payload].size
                 IN  /\ acquires < MaxAcquires
                     /\ Pool!AcquireSlot(size)
                     /\ Update([Top EXCEPT !.handle = Pool!NewHandle(size),
                                           !.pc = "copy"])
                     /\ UNCHANGED result
    /\ UNCHANGED <<contents, root, entrypoint, written>>

\* The rest of readChunk: copy or expand the chunk into the block acquired,
\* which may be the very buffer it is read from.
CopyChunk ==
    /\ At("copy")
    /\ \/ \E seen \in IF SourceGood(Top) THEN {Current(Top).payload} ELSE Residue :
             /\ SourceGood(Top) => Current(Top).chunk = "ok"
             /\ contents' = [contents EXCEPT ![Top.handle.slot] = seen]
             /\ Update([Top EXCEPT !.pc = IF Current(Top).nested \/ Bytes[seen].vec
                                            THEN "descend" ELSE "write"])
             /\ UNCHANGED result
       \/ /\ SourceGood(Top) => Current(Top).chunk = "broken"
          /\ Fail
          /\ UNCHANGED contents
    /\ UNCHANGED <<poolVars, root, entrypoint, written>>

\* The call of parseArchiveBytes that a nested archive is parsed by.
EnterNested ==
    /\ stack' = Append(
         [stack EXCEPT ![Len(stack)].pc = "nested"],
         Frame(Top.handle, contents[Top.handle.slot], Top.depth + 1,
               IF extract
                 THEN NestedDir(SafeOutputPath(Top.dir, Current(Top).name))
                 ELSE Top.dir,
               "index"))
    /\ UNCHANGED result

\* Mutant: the depth limit is reached one level early.
DescendOneLess ==
    /\ At("descend")
    /\ IF Top.depth + 1 >= MaxNestedDepth
         THEN Fail /\ UNCHANGED poolVars
         ELSE Pool!RecycleSlots(Top.handle.size, Top.depth + 1) /\ EnterNested
    /\ UNCHANGED <<contents, root, entrypoint, written>>

\* Mutant: a nested archive starts with a ring of its own, in the same slots.
DescendWithFreshRing ==
    /\ At("descend")
    /\ IF Top.depth + 1 > MaxNestedDepth
         THEN Fail /\ UNCHANGED poolVars
         ELSE /\ cursor' = 0
              /\ UNCHANGED <<capacity, generation, storage, lease, acquires>>
              /\ EnterNested
    /\ UNCHANGED <<contents, root, entrypoint, written>>

\* parseNestedArchive: the depth limit, the recycling of the pool, and the
\* recursive call, which reads from the handle of this frame.
Descend ==
    /\ At("descend")
    /\ IF Top.depth + 1 > MaxNestedDepth
         THEN Fail /\ UNCHANGED poolVars
         ELSE Pool!RecycleSlots(Top.handle.size, Top.depth + 1) /\ EnterNested
    /\ UNCHANGED <<contents, root, entrypoint, written>>

\* Mutant: a file that cannot be opened is tried again.
WriteFileRetry ==
    /\ At("write")
    /\ LET path == SafeOutputPath(Top.dir, Current(Top).name)
           bytes == IF Pool!Intact(Top.handle)
                      THEN contents[Top.handle.slot] ELSE Stale
           file(content) == [path |-> path, bytes |-> content, entry |-> Position]
           done == Update([Top EXCEPT !.next = @ + 1, !.handle = NoHandle,
                                      !.pc = "entry"])
       IN  \/ ~extract /\ done /\ UNCHANGED <<written, result>>
           \/ /\ extract /\ ~Blocked(path)
              /\ written' = Append(written, file(bytes))
              /\ done /\ UNCHANGED result
           \/ extract /\ UNCHANGED <<stack, written, result>>
    /\ UNCHANGED <<poolVars, contents, root, entrypoint>>

\* writeWholeFile looks at the stream before it is destroyed, which is when
\* buffered bytes are written: a failure then is not seen by anyone.
LostUnseen ==
    IF Top.handle.size > 0
       /\ Cardinality({k \in DOMAIN written : written[k].bytes = Lost}) < MaxLost
      THEN {Lost} ELSE {}

\* The end of the loop body: the handle's bytes become the entry's file.
WriteFile ==
    /\ At("write")
    /\ LET path == SafeOutputPath(Top.dir, Current(Top).name)
           bytes == IF Pool!Intact(Top.handle)
                      THEN contents[Top.handle.slot] ELSE Stale
           file(content) == [path |-> path, bytes |-> content, entry |-> Position]
           done == Update([Top EXCEPT !.next = @ + 1, !.handle = NoHandle,
                                      !.pc = "entry"])
       IN  \/ ~extract /\ done /\ UNCHANGED <<written, result>>
           \/ /\ extract /\ ~Blocked(path)
              /\ \E content \in {bytes} \cup LostUnseen :
                    written' = Append(written, file(content))
              /\ done /\ UNCHANGED result
           \/ extract /\ Fail /\ UNCHANGED written
           \/ /\ extract /\ ~Blocked(path)
              /\ written' = Append(written, file(Torn))
              /\ Fail
    /\ UNCHANGED <<poolVars, contents, root, entrypoint>>

\* Mutant: a truncated extension is no error.
ParseExtensionLeniently ==
    /\ At("entry")
    /\ Top.next > Len(Entries(Top))
    /\ IF Len(stack) = 1 THEN stack' = <<>> /\ result' = "ok"
       ELSE /\ stack' = [SubSeq(stack, 1, Len(stack) - 1)
                           EXCEPT ![Len(stack) - 1].pc = "write"]
            /\ UNCHANGED result
    /\ UNCHANGED <<poolVars, contents, root, entrypoint, written>>

\* After the loop: the extension.  A checksum mismatch is not an error.
ParseExtension ==
    /\ At("entry")
    /\ Top.next > Len(Entries(Top))
    /\ \E truncated \in
          IF SourceGood(Top) \/ Bytes[Top.archive].extension = "absent"
            THEN {Bytes[Top.archive].extension = "truncated"} ELSE BOOLEAN :
          IF truncated THEN Fail
          ELSE IF Len(stack) = 1 THEN stack' = <<>> /\ result' = "ok"
          ELSE /\ stack' = [SubSeq(stack, 1, Len(stack) - 1)
                              EXCEPT ![Len(stack) - 1].pc = "write"]
               /\ UNCHANGED result
    /\ UNCHANGED <<poolVars, contents, root, entrypoint, written>>

Finished == result # "running" /\ UNCHANGED vars

Next ==
    \/ Open \/ ParseIndex \/ ReadChunk \/ CopyChunk \/ Descend \/ WriteFile
    \/ ParseExtension \/ Finished

\* One thread runs unpack to its end: it never stops at a step it can take.
Spec == Init /\ [][Next]_vars /\ WF_vars(Next)

-----------------------------------------------------------------------------
(* Properties.                                                             *)

FrameType(f) ==
    /\ f.source \in {NoHandle} \cup OpenHandles
    /\ f.archive \in Payloads
    /\ f.depth \in 0 .. MaxNestedDepth
    /\ f.next \in 1 .. Len(Entries(f)) + 1
    /\ f.handle \in {NoHandle} \cup Pool!Handle
    /\ f.pc \in {"open", "index", "entry", "copy", "descend", "nested", "write"}

TypeInvariant ==
    /\ Pool!TypeInvariant
    /\ contents \in [0 .. SlotCount - 1 -> Payloads \cup {Stale}]
    /\ root \in Roots
    /\ entrypoint \in EntryPoint
    /\ \A k \in 1 .. Len(stack) : FrameType(stack[k])
    /\ \A k \in 1 .. Len(written) :
          written[k].bytes \in Payloads \cup {Stale, Torn, Lost}
    /\ result \in {"running", "ok", "error"}
    /\ result = "running" <=> stack # <<>>

\* The recursion uses the pool by its rules: every step is one acquire(), one
\* recycling, or handles going out of scope, so that what holds of every
\* client of BufferPool holds of every handle on the stack.
PoolSpec == Pool!Spec

\* The files of the outer archive that are not archives themselves come out
\* right whatever the nested archives next to them did to the pool.
OuterFilesExact ==
    \A k \in 1 .. Len(written) :
       Len(written[k].entry) = 1 =>
          LET entry == Bytes[root].entries[written[k].entry[1]]
          IN  ~entry.nested /\ ~Bytes[entry.payload].vec
                => written[k].bytes \in {entry.payload, Torn, Lost}

\* nested.cc:65-68 report "failed to write output": when unpack() reports
\* success instead, no file has lost bytes.
SuccessIsWritten ==
    result = "ok" => \A k \in DOMAIN written : written[k].bytes # Lost

\* unpack returns, with any archive and any failure of the file system.
Termination == <>(result # "running")

\* pool.cc:31-32 asks of the holders of a chunk handle not to assume that they
\* own the bytes; parseArchiveBytes writes a container's file from its handle
\* after the recursive call (nested.cc:264-269).  No file is written from
\* bytes that were handed to somebody else, nor from storage that was freed.
NoStaleHandleUse ==
    \A k \in 1 .. Len(written) : written[k].bytes # Stale

=============================================================================
