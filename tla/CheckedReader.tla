--------------------------- MODULE CheckedReader ---------------------------
(***************************************************************************)
(* CheckedReader (src/src/byte_io.cc), the second reader of the program,   *)
(* beside the one that the parsers use (src/src/header.cc, in Container).  *)
(* Its caller may go on after a failure and look at the first error in the *)
(* end; so every call may follow every other here.  They are made on some  *)
(* of the bytes that no pack() has written.  Beside it a twin makes the    *)
(* same calls on a Reader and gives up, as the parsers do, when one fails. *)
(***************************************************************************)
EXTENDS Container, ByteRanges

CONSTANTS
    CheckedLength,   \* bytes of no more than this length are read
    Counts           \* arguments of readBytes and skip

\* Positions are sizes.
ASSUME CheckedReaderAssumption == CheckedLength \in Position /\ Counts \subseteq Position

VARIABLES
    pos,             \* pos_
    error,           \* error_: what failed, and where, but for a seek
    answer,          \* what the last call returned
    failed,          \* some call returned false
    twin             \* the Reader: whether it goes on, its position and answer

readerVars == <<pos, error, answer, failed, twin>>

NoError == [what |-> "none", at |-> 0]
Errors == {"none", "truncated", "overflow", "seek"}

ReaderInit ==
    /\ pos = 0 /\ error = NoError /\ answer = Failed /\ failed = FALSE
    /\ twin = [ok |-> TRUE, position |-> 0, answer |-> Failed]

-----------------------------------------------------------------------------

Remaining == IF pos > Len(archive) THEN 0 ELSE Len(archive) - pos

ConsumedRange == [offset |-> 0, length |-> pos]
RemainingRange == [offset |-> pos, length |-> Remaining]

\* ByteView::subview, which is empty if it would not be inside.
Subview(offset, length) ==
    IF RangeWithin(offset, length, Len(archive))
      THEN SubSeq(archive, offset + 1, offset + length) ELSE <<>>

\* inspectVarint: where its loop stops, counted from 0.
Stops(p) ==
    {i \in 0 .. VarintLimit - 1 :
       \/ p + i >= Len(archive)
       \/ i = VarintLimit - 1 /\ (archive[p + i + 1] % Base) * Weight[i] >= Word
       \/ archive[p + i + 1] < Base}

\* Mutant: a last byte that does not fit is accepted.
InspectAnyVarint(p) ==
    IF Stops(p) = {} THEN [kind |-> "overflow"]
    ELSE LET i == Min(Stops(p)) IN
         IF p + i >= Len(archive) THEN [kind |-> "truncated"]
         ELSE [kind |-> "valid", value |-> DigitsValue(p, i + 1) % Word, size |-> i + 1,
               canonical |-> i + 1 = Len(WriteVarint[DigitsValue(p, i + 1) % Word])]

InspectVarint(p) ==
    IF Stops(p) = {} THEN [kind |-> "overflow"]
    ELSE LET i == Min(Stops(p)) IN
         IF p + i >= Len(archive) THEN [kind |-> "truncated"]
         ELSE IF i = VarintLimit - 1 /\ (archive[p + i + 1] % Base) * Weight[i] >= Word
           THEN [kind |-> "overflow"]
         ELSE [kind |-> "valid", value |-> DigitsValue(p, i + 1) % Word, size |-> i + 1,
               canonical |-> i + 1 = Len(WriteVarint[DigitsValue(p, i + 1) % Word])]

-----------------------------------------------------------------------------

\* Mutant: the last error is kept.
ErrorSetAgain(what, at) == error' = [what |-> what, at |-> at]

\* setError keeps the first.
ErrorSet(what, at) ==
    error' = IF error = NoError THEN [what |-> what, at |-> at] ELSE error

CallFails == answer' = Failed /\ failed' = TRUE /\ UNCHANGED pos

CallYields(value, end) ==
    answer' = Read(value, end) /\ pos' = end /\ UNCHANGED <<failed, error>>

\* require refuses everything after an error.
Take(n, value) ==
    IF error = NoError /\ Remaining >= n
      THEN CallYields(value, pos + n)
      ELSE CallFails /\ IF error = NoError THEN ErrorSet("truncated", pos) ELSE UNCHANGED error

\* The twin's call, with that result.
TwinCall(read) ==
    twin' = IF ~twin.ok THEN twin
            ELSE IF read.ok THEN [ok |-> TRUE, position |-> read.end, answer |-> read]
            ELSE [twin EXCEPT !.ok = FALSE, !.answer = Failed]

\* Reader::readBytes and Reader::skip.
TwinTake(n, value) ==
    TwinCall(IF Len(archive) - twin.position >= n
               THEN Read(value, twin.position + n) ELSE Failed)

\* The bytes under inspection.
InUse == IsForeign /\ Len(archive) <= CheckedLength /\ UNCHANGED vars

CheckedByte ==
    /\ InUse
    /\ Take(1, Subview(pos, 1))
    /\ TwinTake(1, SubSeq(archive, twin.position + 1, twin.position + 1))

CheckedBytes ==
    /\ InUse
    /\ \E n \in Counts :
         /\ Take(n, Subview(pos, n))
         /\ TwinTake(n, SubSeq(archive, twin.position + 1, twin.position + n))

CheckedSkip ==
    /\ InUse
    /\ \E n \in Counts : Take(n, <<>>) /\ TwinTake(n, <<>>)

\* It is read after an error, too.
CheckedVarint ==
    /\ InUse
    /\ LET info == InspectVarint(pos) IN
       IF info.kind = "valid"
         THEN CallYields(<<info.value>>, pos + info.size)
         ELSE CallFails /\ ErrorSet(info.kind, pos)
    /\ LET read == ReadVarint(twin.position)
       IN  TwinCall(IF read.ok THEN Read(<<read.value>>, read.end) ELSE Failed)

\* Nor does it matter to a seek. Reader has none: the twin begins another.
CheckedSeek ==
    /\ InUse
    /\ \E to \in 0 .. Len(archive) + 1 :
         /\ IF to <= Len(archive) THEN CallYields(<<>>, to)
                                  ELSE CallFails /\ ErrorSet("seek", 0)
         /\ TwinCall(IF to <= Len(archive) THEN Read(<<>>, to) ELSE Failed)

ReaderNext ==
    \/ CheckedByte \/ CheckedBytes \/ CheckedSkip \/ CheckedVarint \/ CheckedSeek
    \/ Next /\ UNCHANGED readerVars

ComposedInit == Init /\ ReaderInit

ReaderSpec == ComposedInit /\ [][ReaderNext]_<<vars, readerVars>>

-----------------------------------------------------------------------------
(* Properties.                                                             *)

\* It is good exactly if no call failed; then every call answered as Reader's
\* did, and left the same bytes to read.  Where it is not good, either Reader
\* failed at the same place, or a varint was met whose value does not fit.
GoodIsFaithful ==
    /\ error = NoError <=> ~failed
    /\ error = NoError => twin.ok /\ twin.position = pos /\ twin.answer = answer
    /\ error # NoError /\ twin.ok => error.what = "overflow"
    /\ ~twin.ok => error.what \in {"overflow", "seek"} \/ error.at = twin.position

\* Reader accepts every varint that CheckedReader does, and besides some whose
\* value does not fit. What CheckedReader accepts loses no bits, and only what
\* would be written for its value is called canonical.
VarintsAgree(p) ==
    LET info == InspectVarint(p)
        read == ReadVarint(p) IN
    CASE info.kind = "valid" ->
           /\ read = Read(info.value, p + info.size)
           /\ info.value = DigitsValue(p, info.size)
           /\ info.canonical <=> SubSeq(archive, p + 1, p + info.size) = WriteVarint[info.value]
      [] info.kind = "truncated" -> ~read.ok
      [] info.kind = "overflow" ->
           read.ok => read.end = p + VarintLimit /\ DigitsValue(p, VarintLimit) >= Word

\* CheckedReader (byte_io.cc:147-216) is as good as Reader to a caller that
\* looks at good() in the end only, though seek() and readVarint() succeed after
\* an error; and the two read varints alike. What was read and what is left to
\* read never overlap.
ReadersAgree ==
    /\ GoodIsFaithful
    /\ ~Overlaps(ConsumedRange, RemainingRange)
    /\ IsForeign /\ Len(archive) <= CheckedLength => VarintsAgree(pos)

=============================================================================
