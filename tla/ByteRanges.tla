----------------------------- MODULE ByteRanges -----------------------------
(***************************************************************************)
(* ByteRange and the checked arithmetic of src/src/byte_io.cc.  A range is *)
(* an offset and a length, each of which may be as large as std::size_t    *)
(* allows, so that its end need not be: it is then taken to be the largest *)
(* position.  An addition or a product yields NoSize if it is too large.   *)
(***************************************************************************)
EXTENDS Naturals

CONSTANT MaxSize     \* the largest std::size_t: 2^64 - 1 in the code

ASSUME ByteRangesAssumption == MaxSize \in Nat

Position == 0 .. MaxSize
ByteRange == [offset : Position, length : Position]

NoSize == [none |-> TRUE]
Sized(value) == [none |-> FALSE, value |-> value]

CheckedAdd(a, b) == IF a > MaxSize - b THEN NoSize ELSE Sized(a + b)

CheckedMul(a, b) ==
    IF a # 0 /\ b > MaxSize \div a THEN NoSize ELSE Sized(a * b)

RangeWithin(offset, length, size) ==
    LET end == CheckedAdd(offset, length) IN end # NoSize /\ end.value <= size

End(r) ==
    LET end == CheckedAdd(r.offset, r.length)
    IN  IF end = NoSize THEN MaxSize ELSE end.value

HoldsPosition(r, position) == r.offset <= position /\ position < End(r)

ContainsRange(r, s) == r.offset <= s.offset /\ End(s) <= End(r)

Overlaps(r, s) ==
    /\ r.length # 0 /\ s.length # 0
    /\ r.offset < End(s) /\ s.offset < End(r)

Intersection(r, s) ==
    LET begin == IF r.offset > s.offset THEN r.offset ELSE s.offset
        finish == IF End(r) < End(s) THEN End(r) ELSE End(s)
    IN  [offset |-> begin, length |-> IF finish <= begin THEN 0 ELSE finish - begin]

=============================================================================
