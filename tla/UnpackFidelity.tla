--------------------------- MODULE UnpackFidelity ---------------------------
(***************************************************************************)
(* What extraction should give, as one recursive definition over the       *)
(* archive, and when the code gives it.                                    *)
(*                                                                         *)
(* Outcome is parseArchiveBytes with every nested archive parsed from      *)
(* bytes that nothing else touches.  Fits tells for which archives that is *)
(* true of the code: while a nested archive is parsed, fewer buffers are   *)
(* acquired than the ring has, and no recycling is triggered.  Each is a   *)
(* function of the levels that the depth limit leaves, so that archives    *)
(* that contain themselves have an outcome too.                            *)
(***************************************************************************)
EXTENDS Unpack

IsContainer(entry) == entry.nested \/ Bytes[entry.payload].vec

\* The parts of a name are strings, and path::replace_extension is defined for
\* the last one.
ASSUME FidelityAssumption ==
    \A p \in Payloads : \A k \in 1 .. Len(Bytes[p].entries) :
       LET kept == KeptParts(Bytes[p].entries[k].name)
       IN  kept \in Seq(STRING) /\ ReplaceExtension[kept[Len(kept)]] \in STRING

\* The calls that may be on the stack at a depth, that one included.
Levels(depth) == MaxNestedDepth + 1 - depth

-----------------------------------------------------------------------------
(* Which archives fit the ring.                                            *)

\* How many buffers the loop takes for the first k entries of p, if below says
\* how many nested archives take.
Spent(below, p) ==
    LET entries == Bytes[p].entries
        spent[k \in 0 .. Len(entries)] ==
          IF k = 0 THEN 0
          ELSE spent[k - 1] + 1
                 + (IF IsContainer(entries[k]) THEN below[entries[k].payload] ELSE 0)
    IN  spent

\* How many buffers parsing p takes with n levels, nested archives included.
Acquisitions[n \in Nat] ==
    [p \in Payloads |->
       IF n = 0 THEN 0 ELSE Spent(Acquisitions[n - 1], p)[Len(Bytes[p].entries)]]

Fits[n \in Nat] ==
    [p \in Payloads |->
       n # 0 =>
         \A k \in 1 .. Len(Bytes[p].entries) :
            LET entry == Bytes[p].entries[k]
            IN  IsContainer(entry) =>
                   /\ Acquisitions[n - 1][entry.payload] < SlotCount
                   /\ ~Pool!Recycles(Bytes[entry.payload].size, MaxNestedDepth + 2 - n)
                   /\ Fits[n - 1][entry.payload]]

-----------------------------------------------------------------------------
(* The files parsing p writes into dir, in order, and whether it succeeds, *)
(* if the file system never fails.                                         *)

Nothing == [files |-> <<>>, ok |-> TRUE]
Rejected == [files |-> <<>>, ok |-> FALSE]

\* acc, followed by the rest if acc is no failure.
Then(acc, rest) ==
    IF acc.ok THEN [files |-> acc.files \o rest.files, ok |-> rest.ok] ELSE acc

\* What the loop body does with entry k, if below says what nested archives give.
EntryOutcome(below, p, dir, position, k) ==
    LET entry == Bytes[p].entries[k]
        path == SafeOutputPath(dir, entry.name)
        here == Append(position, k)
        file == [path |-> path, bytes |-> entry.payload, entry |-> here]
        written_out == [files |-> <<file>>, ok |-> TRUE]
    IN  IF entry.chunk # "ok" THEN Rejected
        ELSE IF IsContainer(entry)
          THEN Then(below[entry.payload][NestedDir(path)][here], written_out)
          ELSE written_out

\* The loop after k entries.
LoopOutcome(below, p, dir, position) ==
    LET loop[k \in 0 .. Len(Bytes[p].entries)] ==
          IF k = 0 THEN Nothing
          ELSE Then(loop[k - 1], EntryOutcome(below, p, dir, position, k))
    IN  loop

Readable(p) ==
    /\ Bytes[p].parses
    /\ \A k \in 1 .. Len(Bytes[p].entries) : Bytes[p].entries[k].scan

ArchiveOutcome(below, p, dir, position) ==
    IF Readable(p)
      THEN Then(LoopOutcome(below, p, dir, position)[Len(Bytes[p].entries)],
                [files |-> <<>>, ok |-> Bytes[p].extension # "truncated"])
      ELSE Rejected

\* The same with n levels.
Outcome[n \in Nat] ==
    [p \in Payloads |-> [dir \in Seq(STRING) |-> [position \in Seq(Nat) |->
       IF n = 0 THEN Rejected ELSE ArchiveOutcome(Outcome[n - 1], p, dir, position)]]]

RootFits == Fits[Levels(FirstDepth)][root]
Expected == Outcome[Levels(FirstDepth)][root][<<>>][<<>>]

-----------------------------------------------------------------------------
(* Properties.                                                             *)

\* Files as they should be, apart from those lost without notice.
Agree(files, expected) ==
    /\ Len(files) <= Len(expected)
    /\ \A k \in DOMAIN files :
          files[k] \in {expected[k], [expected[k] EXCEPT !.bytes = Lost]}

\* At every moment the files written are an initial part of what extraction
\* should give, in that order: contents before their container, and nothing
\* from an archive whose index or chunk headers are rejected.  Only the last
\* file may be torn, and only after a failure (nested.cc:224-269).
FaithfulPrefix ==
    RootFits =>
       LET torn == written # <<>> /\ written[Len(written)].bytes = Torn
           whole == IF torn THEN SubSeq(written, 1, Len(written) - 1) ELSE written
       IN  /\ Agree(whole, Expected.files)
           /\ torn => result = "error"

\* What unpack() says: a success only for an archive that can be extracted, all
\* of it then on disk, as far as it knows; and without a file system to fail,
\* unpack(data, size) accepts every such archive.
SuccessExact ==
    RootFits /\ result # "running" =>
       /\ result = "ok" =>
             /\ Expected.ok
             /\ extract => /\ Agree(written, Expected.files)
                           /\ Len(written) = Len(Expected.files)
       /\ ~extract /\ Expected.ok => result = "ok"

=============================================================================
