-------------------------- MODULE ContainerProofs ---------------------------
(***************************************************************************)
(* Proofs about Container, CheckedReader and ByteRanges, for every size of *)
(* digits, varints, words and limits: what pack() writes is read and       *)
(* extracted as it was put in, what the parser accepts of any other bytes  *)
(* is an encoding of what it returns, and the program's two readers agree. *)
(*                                                                         *)
(* The order is that of the archive: numbers and varints, written and      *)
(* read; the two readers; entries, the index and the chunks; the steps of  *)
(* reading a packed archive back; and the steps of parsing any bytes.      *)
(***************************************************************************)
EXTENDS CheckedReader, SequenceTheorems, DataInduction, TLAPS

-----------------------------------------------------------------------------
(* Numbers.                                                                *)

\* A product with a larger number is no smaller.
LEMMA ProductMonotone ==
    ASSUME NEW a \in Nat, NEW b \in Nat, NEW c \in Nat, b <= c
    PROVE  a * b <= a * c
  <1> DEFINE d == c - b
  <1>1. d \in Nat /\ c = b + d
    OBVIOUS
  <1> HIDE DEF d
  <1>2. a * (b + d) = a * b + a * d /\ a * b \in Nat /\ a * d \in Nat
    BY <1>1
  <1> QED
    BY <1>1, <1>2

-----------------------------------------------------------------------------
(* Ranges of bytes.                                                        *)

\* The end of a range is its offset and its length, unless that is too large.
LEMMA EndIsSum ==
    ASSUME NEW r \in ByteRange
    PROVE  /\ End(r) \in Position
           /\ r.offset + r.length <= MaxSize => End(r) = r.offset + r.length
           /\ r.offset + r.length > MaxSize => End(r) = MaxSize
           /\ End(r) >= r.offset
  BY ByteRangesAssumption DEF End, CheckedAdd, ByteRange, Position, NoSize, Sized

\* checkedAdd and checkedMul (byte_io.cc:274-288) yield a sum or a product
\* exactly if it is a size, without ever computing a larger one.
THEOREM CheckedExact ==
    ASSUME NEW a \in Position, NEW b \in Position
    PROVE  /\ CheckedAdd(a, b) = IF a + b <= MaxSize THEN Sized(a + b) ELSE NoSize
           /\ CheckedMul(a, b) = IF a * b <= MaxSize THEN Sized(a * b) ELSE NoSize
  <1>1. CheckedAdd(a, b) = IF a + b <= MaxSize THEN Sized(a + b) ELSE NoSize
    BY ByteRangesAssumption DEF CheckedAdd, Position
  <1>2. CASE a = 0
    BY <1>1, <1>2, ByteRangesAssumption DEF CheckedMul, Position
  <1>3. CASE a # 0
    <2> DEFINE q == MaxSize \div a
               m == MaxSize % a
    <2>1. q \in Nat /\ m \in Nat /\ m < a /\ MaxSize = q * a + m
      BY <1>3, ByteRangesAssumption DEF Position
    <2>2. b > q <=> a * b > MaxSize
      <3>1. CASE b > q
        <4>1. b >= q + 1
          BY <2>1, <3>1 DEF Position
        <4>2. a * (q + 1) <= a * b
          <5>1. a \in Nat /\ q + 1 \in Nat /\ b \in Nat /\ q + 1 <= b
            BY <2>1, <4>1 DEF Position
          <5> HIDE DEF q
          <5> QED  BY <5>1, ProductMonotone
        <4>3. a * (q + 1) = q * a + a
          BY <2>1 DEF Position
        <4> QED  BY <2>1, <3>1, <4>2, <4>3, ByteRangesAssumption DEF Position
      <3>2. CASE b <= q
        <4>1. a * b <= a * q
          <5>1. a \in Nat /\ q \in Nat /\ b \in Nat /\ b <= q
            BY <2>1, <3>2 DEF Position
          <5> HIDE DEF q
          <5> QED  BY <5>1, ProductMonotone
        <4> QED  BY <2>1, <3>2, <4>1, ByteRangesAssumption DEF Position
      <3> QED  BY <2>1, <3>1, <3>2 DEF Position
    <2> HIDE DEF q, m
    <2>3. CheckedMul(a, b) = IF b > q THEN NoSize ELSE Sized(a * b)
      BY <1>3 DEF CheckedMul, q
    <2> QED  BY <1>1, <2>2, <2>3, ByteRangesAssumption DEF Position
  <1> QED  BY <1>2, <1>3

\* rangeWithin, and so ByteView::has (byte_io.cc:84), is right about ranges
\* whose end is no size.
THEOREM WithinExact ==
    ASSUME NEW offset \in Position, NEW length \in Position, NEW size \in Position
    PROVE  RangeWithin(offset, length, size) <=> offset + length <= size
  BY ByteRangesAssumption DEF RangeWithin, CheckedAdd, NoSize, Sized, Position

\* Two ranges overlap (byte_io.cc:44) exactly if there is a position that both
\* hold, and their intersection (byte_io.cc:51) is a range that holds exactly
\* those.
THEOREM OverlapExact ==
    ASSUME NEW r \in ByteRange, NEW s \in ByteRange
    PROVE  /\ Overlaps(r, s) <=> \E p \in Position : HoldsPosition(r, p) /\ HoldsPosition(s, p)
           /\ Intersection(r, s) \in ByteRange
           /\ \A p \in Position : HoldsPosition(Intersection(r, s), p) <=> HoldsPosition(r, p) /\ HoldsPosition(s, p)
           /\ Overlaps(r, s) <=> Intersection(r, s).length # 0
  <1> DEFINE begin == IF r.offset > s.offset THEN r.offset ELSE s.offset
             finish == IF End(r) < End(s) THEN End(r) ELSE End(s)
             i == Intersection(r, s)
  <1>1. /\ End(r) \in Position /\ End(r) >= r.offset
        /\ End(s) \in Position /\ End(s) >= s.offset
        /\ r.length = 0 => End(r) = r.offset
        /\ s.length = 0 => End(s) = s.offset
        /\ {r.offset, s.offset, r.length, s.length} \subseteq Position
        /\ r.length # 0 /\ r.offset < MaxSize => r.offset < End(r)
        /\ s.length # 0 /\ s.offset < MaxSize => s.offset < End(s)
    BY EndIsSum, ByteRangesAssumption DEF ByteRange, Position
  <1>2. /\ begin \in Position /\ finish \in Position
        /\ i.offset = begin
        /\ i.length = IF finish <= begin THEN 0 ELSE finish - begin
        /\ i \in ByteRange
    BY <1>1, ByteRangesAssumption DEF Intersection, ByteRange, Position
  <1>3. End(i) = IF finish <= begin THEN begin ELSE finish
    BY <1>2, EndIsSum, ByteRangesAssumption DEF Position
  <1>4. Overlaps(r, s) <=> begin < finish
    BY <1>1, ByteRangesAssumption DEF Overlaps, Position
  <1>5. \A p \in Position : HoldsPosition(r, p) /\ HoldsPosition(s, p) <=> begin <= p /\ p < finish
    BY <1>1, ByteRangesAssumption DEF HoldsPosition, Position
  <1>6. \A p \in Position : HoldsPosition(i, p) <=> begin <= p /\ p < finish
    BY <1>2, <1>3, ByteRangesAssumption DEF HoldsPosition, Position
  <1>7. begin < finish => HoldsPosition(r, begin) /\ HoldsPosition(s, begin)
    BY <1>2, <1>5, ByteRangesAssumption DEF Position
  <1>8. Overlaps(r, s) <=> \E p \in Position : HoldsPosition(r, p) /\ HoldsPosition(s, p)
    BY <1>2, <1>4, <1>5, <1>7, ByteRangesAssumption DEF Position
  <1> QED  BY <1>2, <1>4, <1>5, <1>6, <1>8, ByteRangesAssumption DEF Position

\* A range that contains another (byte_io.cc:40) holds every position of it;
\* and if it does and the other is not empty, it contains it.
THEOREM ContainsExact ==
    ASSUME NEW r \in ByteRange, NEW s \in ByteRange
    PROVE  /\ ContainsRange(r, s) => \A p \in Position : HoldsPosition(s, p) => HoldsPosition(r, p)
           /\ /\ s.offset < End(s)
              /\ \A p \in Position : HoldsPosition(s, p) => HoldsPosition(r, p)
              => ContainsRange(r, s)
  <1>1. /\ End(r) \in Position /\ End(s) \in Position
        /\ r.offset \in Position /\ s.offset \in Position
    BY EndIsSum DEF ByteRange
  <1>2. ContainsRange(r, s) => \A p \in Position : HoldsPosition(s, p) => HoldsPosition(r, p)
    BY <1>1, ByteRangesAssumption DEF ContainsRange, HoldsPosition, Position
  <1>3. ASSUME s.offset < End(s), \A p \in Position : HoldsPosition(s, p) => HoldsPosition(r, p)
        PROVE  ContainsRange(r, s)
    <2>1. HoldsPosition(s, s.offset) /\ HoldsPosition(s, End(s) - 1) /\ End(s) - 1 \in Position
      BY <1>1, <1>3, ByteRangesAssumption DEF HoldsPosition, Position
    <2>2. HoldsPosition(r, s.offset) /\ HoldsPosition(r, End(s) - 1)
      BY <1>1, <1>3, <2>1
    <2> QED  BY <1>1, <2>2, ByteRangesAssumption DEF ContainsRange, HoldsPosition, Position
  <1> QED  BY <1>2, <1>3

-----------------------------------------------------------------------------
(* Digits.                                                                 *)

\* A number has one last digit.
LEMMA LastDigit ==
    ASSUME NEW v \in Nat
    PROVE  /\ v \div Base \in Nat /\ v % Base \in 0 .. Base - 1
           /\ v = (v % Base) + Base * (v \div Base)
           /\ v >= Base => v \div Base < v /\ v \div Base # 0
           /\ v < Base => v % Base = v /\ v \div Base = 0
  <1>1. PICK b \in Nat : b = Base /\ b >= 4
    BY VarintAssumption
  <1>2. PICK q \in Nat, r \in 0 .. b - 1 : q = v \div b /\ r = v % b /\ v = r + b * q
    BY <1>1
  <1>3. v >= b => q # 0
    BY <1>1, <1>2
  <1>4. v >= b => q < v
    <2>1. q + q <= b * q
      BY <1>1
    <2> QED
      BY <1>1, <1>2, <1>3, <2>1
  <1>5. v < b => q = 0
    <2>1. q >= 1 => b * q >= b
      BY <1>1
    <2> QED
      BY <1>1, <1>2, <2>1
  <1> QED
    BY <1>1, <1>2, <1>3, <1>4, <1>5

\* And only one.
LEMMA OneLastDigit ==
    ASSUME NEW d \in 0 .. Base - 1, NEW w \in Nat
    PROVE  /\ (d + Base * w) % Base = d
           /\ (d + Base * w) \div Base = w
           /\ d + Base * w \in Nat
  <1>1. PICK b \in Nat : b = Base /\ b >= 4
    BY VarintAssumption
  <1>2. PICK v \in Nat : v = d + b * w
    BY <1>1
  <1>3. PICK q \in Nat, r \in 0 .. b - 1 : q = v \div b /\ r = v % b /\ v = r + b * q
    BY <1>1
  <1>4. q = w
    <2>1. CASE q < w
      <3>1. b * (q + 1) <= b * w /\ b * (q + 1) = b * q + b
        BY <1>1, <2>1, ProductMonotone
      <3> QED
        BY <1>1, <1>2, <1>3, <3>1
    <2>2. CASE w < q
      <3>1. b * (w + 1) <= b * q /\ b * (w + 1) = b * w + b
        BY <1>1, <2>2, ProductMonotone
      <3> QED
        BY <1>1, <1>2, <1>3, <3>1
    <2> QED
      BY <2>1, <2>2
  <1>5. r = d
    BY <1>1, <1>2, <1>3, <1>4
  <1> QED
    BY <1>1, <1>2, <1>3, <1>4, <1>5

\* The definition of Weight as equations.
LEMMA WeightDef ==
    /\ \A k \in Nat : Weight[k] \in Nat \ {0}
    /\ Weight[0] = 1
    /\ \A k \in Nat \ {0} : Weight[k] = Base * Weight[k - 1]
  <1> PICK b \in Nat : b = Base /\ b >= 4
    BY VarintAssumption
  <1> DEFINE step == [k \in Nat |-> [v \in Nat |-> b * v]]
  <1>1. step \in [Nat -> [Nat -> Nat]]
    OBVIOUS
  <1>2. PICK f \in [Nat -> Nat] : Recursive(f, 1, step)
    <2> HIDE DEF step
    <2> QED
      BY <1>1, Recursion
  <1>3. f[0] = 1 /\ \A k \in Nat \ {0} : f[k] = b * f[k - 1]
    <2>1. \A k \in Nat \ {0} : k - 1 \in Nat /\ f[k - 1] \in Nat
      OBVIOUS
    <2>2. \A k \in Nat, v \in Nat : step[k][v] = b * v
      OBVIOUS
    <2> HIDE DEF step
    <2>3. f[0] = 1 /\ \A k \in Nat \ {0} : f[k] = step[k][f[k - 1]]
      BY <1>2, Zenon DEF Recursive
    <2> QED
      BY <2>1, <2>2, <2>3
  <1>4. f = [k \in Nat |-> IF k = 0 THEN 1 ELSE b * f[k - 1]]
    BY <1>3
  <1>5. Weight = [k \in Nat |-> IF k = 0 THEN 1 ELSE Base * Weight[k - 1]]
    BY <1>4, Zenon DEF Weight
  <1> DEFINE S == {k \in Nat : Weight[k] \in Nat \ {0}}
  <1>6. 0 \in S
    BY <1>5
  <1>7. ASSUME NEW k \in Nat, k \in S
        PROVE  k + 1 \in S
    <2>1. Weight[k + 1] = b * Weight[k]
      BY <1>5
    <2>2. PICK w \in Nat \ {0} : w = Weight[k]
      BY <1>7
    <2>3. b * w \in Nat \ {0}
      OBVIOUS
    <2> QED
      BY <2>1, <2>2, <2>3
  <1> HIDE DEF S
  <1>8. \A k \in Nat : k \in S
    BY <1>6, <1>7, NumbersIn
  <1> QED
    BY <1>5, <1>8 DEF S

\* The same, a digit further.
LEMMA WeightNext ==
    ASSUME NEW k \in Nat
    PROVE  Weight[k] \in Nat \ {0} /\ Weight[k + 1] = Base * Weight[k]
  <1>1. k + 1 \in Nat \ {0} /\ (k + 1) - 1 = k
    OBVIOUS
  <1>2. Weight[k + 1] = Base * Weight[(k + 1) - 1]
    BY <1>1, WeightDef, Zenon
  <1> QED
    BY <1>1, <1>2, WeightDef

\* A byte that goes on is its digit and Base, any other is its digit.
LEMMA DigitAt ==
    ASSUME archive \in Seq(Byte), NEW i \in 1 .. Len(archive)
    PROVE  /\ archive[i] \in Nat /\ archive[i] % Base \in 0 .. Base - 1
           /\ archive[i] < Base => archive[i] % Base = archive[i]
           /\ archive[i] >= Base => archive[i] = Base + (archive[i] % Base)
  <1>1. PICK b \in Nat : b = Base /\ b >= 4
    BY VarintAssumption
  <1>2. archive[i] \in Byte
    OBVIOUS
  <1>3. PICK v \in Nat : v = archive[i] /\ v < 2 * b
    BY <1>1, <1>2 DEF Byte
  <1>4. /\ v % Base \in 0 .. Base - 1 /\ v < Base => v % Base = v
        /\ v = (v % Base) + Base * (v \div Base)
        /\ v >= Base => v \div Base # 0
        /\ v \div Base \in Nat
    BY LastDigit
  <1>5. PICK q \in Nat, r \in 0 .. b - 1 : q = v \div Base /\ r = v % Base /\ v = r + b * q
    BY <1>1, <1>4
  <1>6. v >= b => q = 1
    <2>1. q >= 2 => b * 2 <= b * q
      BY <1>1, ProductMonotone
    <2>2. q >= 2 => v >= 2 * b
      BY <1>1, <1>5, <2>1
    <2>3. v >= b => q # 0
      BY <1>1, <1>4, <1>5
    <2> QED
      BY <1>3, <2>2, <2>3
  <1>7. v >= b => v = b + r
    BY <1>1, <1>5, <1>6
  <1> QED
    BY <1>1, <1>3, <1>4, <1>5, <1>7

\* What the digits behind p add up to, f[n] for n of them.
LEMMA DigitsSum ==
    ASSUME archive \in Seq(Byte), NEW p \in Nat, NEW m \in Nat, p + m <= Len(archive)
    PROVE  \E f \in [0 .. m -> Nat] :
              /\ f[0] = 0
              /\ \A k \in 1 .. m : f[k] = f[k - 1] + (archive[p + k] % Base) * Weight[k - 1]
              /\ \A n \in 0 .. m : DigitsValue(p, n) = f[n]
  <1> PICK c : c = [k \in 1 .. m |-> (archive[p + k] % Base) * Weight[k - 1]]
    OBVIOUS
  <1>1. \A k \in 1 .. m : c[k] \in Nat
    <2> SUFFICES ASSUME NEW k \in 1 .. m
                 PROVE  c[k] \in Nat
      OBVIOUS
    <2>1. PICK i \in 1 .. Len(archive) : i = p + k
      OBVIOUS
    <2>2. archive[i] % Base \in Nat
      BY DigitAt, VarintAssumption
    <2>3. k - 1 \in Nat /\ Weight[k - 1] \in Nat
      BY WeightDef
    <2>4. PICK d \in Nat, w \in Nat : d = archive[i] % Base /\ w = Weight[k - 1] /\ d * w \in Nat
      BY <2>2, <2>3
    <2> QED
      BY <2>1, <2>4
  <1> DEFINE step == [k \in 1 .. m |-> [v \in Nat |-> v + c[k]]]
  <1>2. step \in [1 .. m -> [Nat -> Nat]]
    BY <1>1
  <1>3. PICK f \in [0 .. m -> Nat] : Follows(f, 0, step, m)
    <2> HIDE DEF step
    <2> QED
      BY <1>2, RecursionUpTo
  <1>4. f[0] = 0 /\ \A k \in 1 .. m : f[k] = f[k - 1] + c[k]
    <2>1. \A k \in 1 .. m : f[k - 1] \in Nat
      <3>1. \A k \in 1 .. m : k - 1 \in 0 .. m
        OBVIOUS
      <3> QED
        BY <3>1, Zenon
    <2>2. \A k \in 1 .. m, v \in Nat : step[k][v] = v + c[k]
      OBVIOUS
    <2> HIDE DEF step
    <2>3. f[0] = 0 /\ \A k \in 1 .. m : f[k] = step[k][f[k - 1]]
      BY <1>3, Zenon DEF Follows
    <2> QED
      BY <2>1, <2>2, <2>3, Zenon
  <1> HIDE DEF step
  <1>5. ASSUME NEW n \in 0 .. m
        PROVE  DigitsValue(p, n) = f[n]
    <2> DEFINE Body(g) == [k \in 0 .. n |->
                             IF k = 0 THEN 0
                             ELSE g[k - 1] + (archive[p + k] % Base) * Weight[k - 1]]
               Sum(g) == [k \in 0 .. n |-> IF k = 0 THEN 0 ELSE g[k - 1] + c[k]]
               sum == CHOOSE g : g = Body(g)
    <2>1. \A g : Body(g) = Sum(g)
      OBVIOUS
    <2> PICK g : g = [k \in 0 .. n |-> f[k]]
      OBVIOUS
    <2>2. g = Sum(g)
      <3>1. \A k \in 0 .. n : k # 0 => k - 1 \in 0 .. n /\ k \in 1 .. m
        OBVIOUS
      <3>2. \A k \in 0 .. n : f[k] = IF k = 0 THEN 0 ELSE g[k - 1] + c[k]
        BY <1>4, <3>1
      <3> QED
        BY <3>2
    <2>3. DigitsValue(p, n) = sum[n]
      BY Zenon DEF DigitsValue
    <2> HIDE DEF Body, Sum
    <2>4. sum = Body(sum)
      BY <2>1, <2>2, Zenon
    <2> HIDE DEF sum
    <2>5. sum = Sum(sum)
      BY <2>1, <2>4, Zenon
    <2>6. sum[0] = 0 /\ \A k \in 1 .. n : sum[k] = sum[k - 1] + c[k]
      <3>1. \A k \in 0 .. n : sum[k] = IF k = 0 THEN 0 ELSE sum[k - 1] + c[k]
        BY <2>5, Zenon DEF Sum
      <3>2. 0 \in 0 .. n /\ \A k \in 1 .. n : k \in 0 .. n /\ k # 0
        OBVIOUS
      <3> QED
        BY <3>1, <3>2, Zenon
    <2> DEFINE S == {k \in Nat : k <= n => sum[k] = f[k]}
    <2>7. 0 \in S
      BY <1>4, <2>6
    <2>8. ASSUME NEW k \in Nat, k \in S
          PROVE  k + 1 \in S
      <3> SUFFICES ASSUME k + 1 <= n
                   PROVE  sum[k + 1] = f[k + 1]
        OBVIOUS
      <3>1. PICK i \in 1 .. n : i = k + 1 /\ i - 1 = k /\ i \in 1 .. m
        OBVIOUS
      <3>2. sum[i - 1] = f[i - 1]
        BY <2>8, <3>1
      <3>3. sum[i] = sum[i - 1] + c[i] /\ f[i] = f[i - 1] + c[i]
        BY <1>4, <2>6, <3>1
      <3> QED
        BY <3>1, <3>2, <3>3
    <2> HIDE DEF S
    <2>9. \A k \in Nat : k \in S
      BY <2>7, <2>8, NumbersIn
    <2>10. n \in S
      BY <2>9
    <2> QED
      BY <2>3, <2>10 DEF S
  <1>6. \A k \in 1 .. m : c[k] = (archive[p + k] % Base) * Weight[k - 1]
    OBVIOUS
  <1> QED
    BY <1>4, <1>5, <1>6, Zenon

\* The same as an equation: the last digit counts most.
LEMMA DigitsNext ==
    ASSUME archive \in Seq(Byte), NEW p \in Nat, NEW n \in Nat, p + n <= Len(archive)
    PROVE  /\ DigitsValue(p, n) \in Nat
           /\ n = 0 => DigitsValue(p, n) = 0
           /\ n # 0 => DigitsValue(p, n) = DigitsValue(p, n - 1)
                                             + (archive[p + n] % Base) * Weight[n - 1]
  <1>1. PICK f \in [0 .. n -> Nat] :
              /\ f[0] = 0
              /\ \A k \in 1 .. n : f[k] = f[k - 1] + (archive[p + k] % Base) * Weight[k - 1]
              /\ \A k \in 0 .. n : DigitsValue(p, k) = f[k]
    BY DigitsSum
  <1>2. n \in 0 .. n /\ (n # 0 => n \in 1 .. n /\ n - 1 \in 0 .. n)
    OBVIOUS
  <1>3. DigitsValue(p, n) = f[n] /\ (n # 0 => DigitsValue(p, n - 1) = f[n - 1])
    BY <1>1, <1>2, Zenon
  <1>4. f[n] \in Nat
    BY <1>2
  <1>5. n # 0 => f[n] = f[n - 1] + (archive[p + n] % Base) * Weight[n - 1]
    BY <1>1, <1>2, Zenon
  <1> QED
    BY <1>1, <1>3, <1>4, <1>5

\* n digits amount to less than a further one counts for.
LEMMA DigitsBound ==
    ASSUME archive \in Seq(Byte), NEW p \in Nat, NEW n \in Nat, p + n <= Len(archive)
    PROVE  DigitsValue(p, n) < Weight[n]
  <1> DEFINE S == {k \in Nat : k <= n => DigitsValue(p, k) < Weight[k]}
  <1>1. 0 \in S
    <2>1. DigitsValue(p, 0) = 0
      BY DigitsNext
    <2> QED
      BY <2>1, WeightDef
  <1>2. ASSUME NEW k \in Nat, k \in S
        PROVE  k + 1 \in S
    <2> SUFFICES ASSUME k + 1 <= n
                 PROVE  DigitsValue(p, k + 1) < Weight[k + 1]
      OBVIOUS
    <2>1. k + 1 # 0 /\ k + 1 \in Nat /\ p + (k + 1) \in 1 .. Len(archive) /\ (k + 1) - 1 = k
          /\ p + k <= Len(archive) /\ p + (k + 1) <= Len(archive)
      OBVIOUS
    <2>2. DigitsValue(p, k + 1) = DigitsValue(p, k) + (archive[p + (k + 1)] % Base) * Weight[k]
      BY <2>1, DigitsNext
    <2>3. DigitsValue(p, k) \in Nat /\ DigitsValue(p, k) < Weight[k]
      BY <1>2, <2>1, DigitsNext
    <2>4. archive[p + (k + 1)] % Base \in 0 .. Base - 1
      BY <2>1, DigitAt
    <2>5. Weight[k + 1] = Base * Weight[k] /\ Weight[k] \in Nat
      BY WeightNext
    <2>6. PICK b, w, v, d \in Nat :
             /\ b = Base /\ w = Weight[k] /\ v = DigitsValue(p, k)
             /\ d = archive[p + (k + 1)] % Base /\ v < w /\ d + 1 <= b
      <3>1. /\ Base \in Nat /\ Weight[k] \in Nat /\ archive[p + (k + 1)] % Base \in Nat
            /\ (archive[p + (k + 1)] % Base) + 1 <= Base
        BY <2>4, <2>5, VarintAssumption
      <3> QED
        BY <2>3, <3>1
    <2>7. w * d + w <= b * w
      <3>1. d + 1 \in Nat /\ d + 1 <= b
        BY <2>6
      <3>2. w * (d + 1) <= w * b
        BY <3>1, ProductMonotone
      <3>3. w * (d + 1) = w * d + w
        OBVIOUS
      <3> QED
        BY <3>2, <3>3
    <2>8. v + d * w < b * w
      BY <2>6, <2>7, SMTT(60)
    <2> QED
      BY <2>2, <2>5, <2>6, <2>8
  <1> HIDE DEF S
  <1>3. n \in S
    BY <1>1, <1>2, NumbersIn
  <1> QED
    BY <1>3 DEF S

\* The first digit is the last one of the number.
LEMMA DigitsFirst ==
    ASSUME archive \in Seq(Byte), NEW p \in Nat, NEW n \in Nat, p + n + 1 <= Len(archive)
    PROVE  DigitsValue(p, n + 1) = (archive[p + 1] % Base) + Base * DigitsValue(p + 1, n)
  <1> DEFINE S == {k \in Nat : k <= n =>
                     DigitsValue(p, k + 1) = (archive[p + 1] % Base) + Base * DigitsValue(p + 1, k)}
  <1>1. 0 \in S
    <2>1. /\ 0 + 1 \in Nat /\ 0 + 1 # 0 /\ (0 + 1) - 1 = 0 /\ p + (0 + 1) <= Len(archive)
          /\ p + (0 + 1) = p + 1 /\ p + 1 \in 1 .. Len(archive)
          /\ p + 1 \in Nat /\ (p + 1) + 0 <= Len(archive) /\ p + 0 <= Len(archive)
      OBVIOUS
    <2>2. DigitsValue(p, 0 + 1) = DigitsValue(p, 0) + (archive[p + 1] % Base) * Weight[0]
      BY <2>1, DigitsNext
    <2>3. DigitsValue(p, 0) = 0 /\ DigitsValue(p + 1, 0) = 0
      BY <2>1, DigitsNext
    <2>4. PICK d \in Nat : d = archive[p + 1] % Base
      BY <2>1, DigitAt, VarintAssumption
    <2> QED
      BY <2>2, <2>3, <2>4, WeightDef, VarintAssumption
  <1>2. ASSUME NEW k \in Nat, k \in S
        PROVE  k + 1 \in S
    <2> SUFFICES ASSUME k + 1 <= n
                 PROVE  DigitsValue(p, (k + 1) + 1)
                          = (archive[p + 1] % Base) + Base * DigitsValue(p + 1, k + 1)
      OBVIOUS
    <2>1. /\ (k + 1) + 1 \in Nat /\ (k + 1) + 1 # 0 /\ ((k + 1) + 1) - 1 = k + 1
          /\ p + ((k + 1) + 1) <= Len(archive) /\ p + 1 \in Nat
          /\ k + 1 \in Nat /\ k + 1 # 0 /\ (k + 1) - 1 = k /\ (p + 1) + (k + 1) <= Len(archive)
          /\ (p + 1) + (k + 1) = p + ((k + 1) + 1) /\ (p + 1) + k <= Len(archive)
          /\ p + 1 \in 1 .. Len(archive) /\ p + ((k + 1) + 1) \in 1 .. Len(archive)
      OBVIOUS
    <2> PICK i \in 1 .. Len(archive) : i = p + ((k + 1) + 1)
      BY <2>1
    <2>2. DigitsValue(p, (k + 1) + 1)
            = DigitsValue(p, k + 1) + (archive[i] % Base) * Weight[k + 1]
      BY <2>1, DigitsNext
    <2>3. DigitsValue(p + 1, k + 1) = DigitsValue(p + 1, k) + (archive[i] % Base) * Weight[k]
      BY <2>1, DigitsNext
    <2>4. DigitsValue(p, k + 1) = (archive[p + 1] % Base) + Base * DigitsValue(p + 1, k)
      BY <1>2
    <2>5. /\ DigitsValue(p + 1, k) \in Nat /\ archive[p + 1] % Base \in Nat
          /\ archive[i] % Base \in Nat
          /\ Weight[k + 1] = Base * Weight[k] /\ Weight[k] \in Nat
      <3>1. DigitsValue(p + 1, k) \in Nat
        BY <2>1, DigitsNext
      <3>2. archive[p + 1] % Base \in Nat /\ archive[i] % Base \in Nat
        BY <2>1, DigitAt, VarintAssumption
      <3> QED
        BY <3>1, <3>2, WeightNext
    <2>6. PICK b, v, d, e, w \in Nat :
             /\ b = Base /\ v = DigitsValue(p + 1, k) /\ d = archive[p + 1] % Base
             /\ e = archive[i] % Base /\ w = Weight[k]
      BY <2>5, VarintAssumption
    <2>7. (d + b * v) + e * (b * w) = d + b * (v + e * w)
      <3>1. e * (b * w) = b * (e * w)
        OBVIOUS
      <3>2. PICK x \in Nat : x = e * w
        OBVIOUS
      <3>3. b * (v + x) = b * v + b * x
        OBVIOUS
      <3> QED
        BY <3>1, <3>2, <3>3
    <2> QED
      BY <2>2, <2>3, <2>4, <2>5, <2>6, <2>7
  <1> HIDE DEF S
  <1>3. n \in S
    BY <1>1, <1>2, NumbersIn
  <1> QED
    BY <1>3 DEF S

-----------------------------------------------------------------------------
(* Varints as they are written.                                            *)

\* The recursion of writeVarint, which ends since a quotient is smaller.
Digitwise(f) ==
    [v \in Nat |-> IF v < Base THEN <<v>> ELSE <<Base + (v % Base)>> \o f[v \div Base]]

\* A digit that is not the last is a byte.
LEMMA GoesOn ==
    ASSUME NEW v \in Nat
    PROVE  Base + (v % Base) \in Byte /\ Base + (v % Base) >= Base
  <1>1. PICK b \in Nat : b = Base /\ b >= 4
    BY VarintAssumption
  <1>2. PICK r \in Nat : r = v % Base /\ r <= b - 1
    BY <1>1, LastDigit
  <1>3. b + r \in 0 .. 2 * b - 1 /\ b + r >= b
    BY <1>2
  <1> QED
    BY <1>1, <1>2, <1>3 DEF Byte

\* What that function yields is bytes.
LEMMA DigitwiseType ==
    ASSUME NEW f \in [Nat -> Seq(Byte)]
    PROVE  Digitwise(f) \in [Nat -> Seq(Byte)]
  <1> SUFFICES ASSUME NEW v \in Nat
               PROVE  (IF v < Base THEN <<v>> ELSE <<Base + (v % Base)>> \o f[v \div Base]) \in Seq(Byte)
    BY DEF Digitwise
  <1>1. v < Base => v \in Byte
    BY VarintAssumption DEF Byte
  <1>2. v % Base \in 0 .. Base - 1 /\ v \div Base \in Nat
    BY LastDigit
  <1>3. Base + (v % Base) \in Byte
    BY <1>2, VarintAssumption DEF Byte
  <1>4. PICK b \in Byte : b = Base + (v % Base)
    BY <1>3
  <1>5. PICK s \in Seq(Byte) : s = f[v \div Base]
    BY <1>2
  <1>6. <<b>> \o s \in Seq(Byte)
    OBVIOUS
  <1>7. v < Base => <<v>> \in Seq(Byte)
    BY <1>1
  <1> QED
    BY <1>4, <1>5, <1>6, <1>7

\* There is such a function: the numbers up to v determine its value at v.
LEMMA DigitwiseExists == \E f \in [Nat -> Seq(Byte)] : f = Digitwise(f)
  <1> DEFINE V == [Nat -> Seq(Byte)]
             first == [v \in Nat |-> <<>>]
             step == [k \in Nat |-> [g \in V |-> Digitwise(g)]]
  <1>1. first \in V /\ step \in [Nat -> [V -> V]]
    <2>1. \A g \in V : Digitwise(g) \in V
      BY DigitwiseType
    <2> QED
      BY <2>1
  <1>2. PICK F \in [Nat -> V] : Recursive(F, first, step)
    <2> HIDE DEF V, first, step
    <2> QED
      BY <1>1, Recursion
  <1>3. \A k \in Nat : F[k] \in V
    OBVIOUS
  <1>4. \A k \in Nat \ {0} : F[k] = Digitwise(F[k - 1])
    <2>1. \A k \in Nat \ {0} : k - 1 \in Nat /\ k \in Nat
      OBVIOUS
    <2>2. \A k \in Nat, g \in V : step[k][g] = Digitwise(g)
      OBVIOUS
    <2> HIDE DEF V, first, step
    <2>3. \A k \in Nat \ {0} : F[k] = step[k][F[k - 1]]
      BY <1>2, Zenon DEF Recursive
    <2> QED
      BY <1>3, <2>1, <2>2, <2>3, Zenon
  <1>5. ASSUME NEW k \in Nat \ {0}, NEW v \in Nat
        PROVE  /\ v < Base => F[k][v] = <<v>>
               /\ ~(v < Base) => F[k][v] = <<Base + (v % Base)>> \o F[k - 1][v \div Base]
    <2>1. F[k] = Digitwise(F[k - 1])
      BY <1>4
    <2> QED
      BY <2>1 DEF Digitwise
  <1> DEFINE S == {v \in Nat : \A k \in Nat : k > v => F[k][v] = F[v + 1][v]}
  <1>6. ASSUME NEW v \in Nat, \A m \in 0 .. v - 1 : m \in S
        PROVE  v \in S
    <2> SUFFICES ASSUME NEW k \in Nat, k > v
                 PROVE  F[k][v] = F[v + 1][v]
      OBVIOUS
    <2>1. k \in Nat \ {0} /\ v + 1 \in Nat \ {0} /\ (v + 1) - 1 = v /\ k - 1 \in Nat
      OBVIOUS
    <2>2. CASE v < Base
      BY <1>5, <2>1, <2>2
    <2>3. CASE ~(v < Base)
      <3>1. v >= Base
        BY <2>3, VarintAssumption
      <3>2. PICK q \in Nat : q = v \div Base /\ q < v
        BY <3>1, LastDigit
      <3>3. q \in S
        <4>1. q \in 0 .. v - 1
          BY <3>2
        <4> QED
          BY <1>6, <4>1
      <3>4. F[k - 1][q] = F[q + 1][q] /\ F[v][q] = F[q + 1][q]
        <4>1. k - 1 > q /\ v > q
          BY <2>1, <3>2
        <4> QED
          BY <2>1, <3>3, <4>1
      <3>5. /\ F[k][v] = <<Base + (v % Base)>> \o F[k - 1][v \div Base]
            /\ F[v + 1][v] = <<Base + (v % Base)>> \o F[(v + 1) - 1][v \div Base]
        BY <1>5, <2>1, <2>3, Zenon
      <3> QED
        BY <2>1, <3>2, <3>4, <3>5
    <2> QED
      BY <2>2, <2>3
  <1> HIDE DEF S
  <1>7. \A v \in Nat : v \in S
    BY <1>6, NumbersInFromSmaller
  <1>8. \A v \in Nat : \A k \in Nat : k > v => F[k][v] = F[v + 1][v]
    BY <1>7 DEF S
  <1> PICK W : W = [v \in Nat |-> F[v + 1][v]]
    OBVIOUS
  <1>9. W \in [Nat -> Seq(Byte)]
    <2>1. \A v \in Nat : v + 1 \in Nat
      OBVIOUS
    <2>2. \A v \in Nat : F[v + 1][v] \in Seq(Byte)
      BY <2>1
    <2> QED
      BY <2>2
  <1>10. ASSUME NEW v \in Nat
         PROVE  W[v] = IF v < Base THEN <<v>> ELSE <<Base + (v % Base)>> \o W[v \div Base]
    <2>1. v + 1 \in Nat \ {0} /\ (v + 1) - 1 = v
      OBVIOUS
    <2>2. W[v] = F[v + 1][v]
      OBVIOUS
    <2>3. CASE v < Base
      BY <1>5, <2>1, <2>2, <2>3
    <2>4. CASE ~(v < Base)
      <3>1. v >= Base
        BY <2>4, VarintAssumption
      <3>2. PICK q \in Nat : q = v \div Base /\ q < v
        BY <3>1, LastDigit
      <3>3. F[v][q] = F[q + 1][q]
        BY <1>8, <3>2
      <3>4. W[q] = F[q + 1][q]
        OBVIOUS
      <3>5. F[v + 1][v] = <<Base + (v % Base)>> \o F[(v + 1) - 1][v \div Base]
        BY <1>5, <2>1, <2>4, Zenon
      <3> QED
        BY <2>1, <2>2, <2>4, <3>2, <3>3, <3>4, <3>5
    <2> QED
      BY <2>3, <2>4
  <1>11. W = Digitwise(W)
    BY <1>9, <1>10 DEF Digitwise
  <1> QED
    BY <1>9, <1>11

\* WriteVarint is that function.
LEMMA WriteNext ==
    ASSUME NEW v \in Nat
    PROVE  /\ v < Base => WriteVarint[v] = <<v>>
           /\ v >= Base => WriteVarint[v] = <<Base + (v % Base)>> \o WriteVarint[v \div Base]
  <1>1. PICK f : f = Digitwise(f)
    BY DigitwiseExists
  <1> DEFINE W == CHOOSE g : g = Digitwise(g)
  <1>2. WriteVarint = W
    BY Zenon DEF WriteVarint, Digitwise
  <1>3. W = Digitwise(W)
    BY <1>1, Zenon
  <1> HIDE DEF W
  <1>4. WriteVarint = Digitwise(WriteVarint)
    BY <1>2, <1>3, Zenon
  <1>5. PICK w : w = WriteVarint /\ w = Digitwise(w)
    BY <1>4, Zenon
  <1>6. w[v] = IF v < Base THEN <<v>> ELSE <<Base + (v % Base)>> \o w[v \div Base]
    BY <1>5 DEF Digitwise
  <1> QED
    BY <1>5, <1>6, VarintAssumption

\* Every byte but the last goes on.
Shape(w) ==
    /\ w \in Seq(Byte) /\ Len(w) \in Nat \ {0}
    /\ w[Len(w)] < Base
    /\ \A k \in 1 .. Len(w) - 1 : w[k] >= Base

\* Another digit in front keeps that.
LEMMA ShapeGrows ==
    ASSUME NEW w, Shape(w), NEW b \in Byte, b >= Base
    PROVE  /\ Shape(<<b>> \o w) /\ Len(<<b>> \o w) = Len(w) + 1
           /\ (<<b>> \o w)[1] = b
           /\ \A k \in 1 .. Len(w) : (<<b>> \o w)[k + 1] = w[k]
  <1>1. PICK n \in Nat \ {0} : n = Len(w)
    BY DEF Shape
  <1>2. w \in Seq(Byte)
    BY DEF Shape
  <1> PICK x : x = <<b>> \o w
    OBVIOUS
  <1>3. /\ x \in Seq(Byte) /\ Len(x) = n + 1 /\ x[1] = b
        /\ \A k \in 1 .. n : x[k + 1] = w[k]
    <2>1. <<b>> \in Seq(Byte) /\ Len(<<b>>) = 1 /\ <<b>>[1] = b
      OBVIOUS
    <2>2. PICK s \in Seq(Byte) : s = <<b>> /\ Len(s) = 1 /\ s[1] = b
      BY <2>1
    <2>3. /\ s \o w \in Seq(Byte) /\ Len(s \o w) = 1 + n
          /\ \A i \in 1 .. 1 + n : (s \o w)[i] = IF i <= 1 THEN s[i] ELSE w[i - 1]
      <3>1. /\ s \o w \in Seq(Byte) /\ Len(s \o w) = Len(s) + Len(w)
            /\ \A i \in 1 .. Len(s) + Len(w) :
                  (s \o w)[i] = IF i <= Len(s) THEN s[i] ELSE w[i - Len(s)]
        BY <1>2, ConcatProperties, Zenon
      <3> QED
        BY <1>1, <2>2, <3>1
    <2>4. \A k \in 1 .. n : k + 1 \in 1 .. 1 + n /\ ~(k + 1 <= 1) /\ (k + 1) - 1 = k
      OBVIOUS
    <2>5. 1 \in 1 .. 1 + n
      OBVIOUS
    <2> QED
      BY <2>2, <2>3, <2>4, <2>5
  <1>4. Shape(x)
    <2>1. w[n] < Base /\ \A k \in 1 .. n - 1 : w[k] >= Base
      BY <1>1 DEF Shape
    <2>2. x[n + 1] < Base
      BY <1>3, <2>1
    <2>3. ASSUME NEW k \in 1 .. (n + 1) - 1
          PROVE  x[k] >= Base
      <3>1. CASE k = 1
        BY <1>3, <3>1
      <3>2. CASE k # 1
        <4>1. PICK j \in 1 .. n - 1 : k = j + 1
          <5>1. k - 1 \in 1 .. n - 1 /\ k = (k - 1) + 1
            BY <3>2
          <5> QED
            BY <5>1
        <4> QED
          BY <1>3, <2>1, <4>1
      <3> QED
        BY <3>1, <3>2
    <2> QED
      BY <1>3, <2>2, <2>3 DEF Shape
  <1> QED
    BY <1>1, <1>3, <1>4

\* Such is what is written of every number.
LEMMA WriteShape ==
    ASSUME NEW v \in Nat
    PROVE  Shape(WriteVarint[v])
  <1> DEFINE S == {n \in Nat : Shape(WriteVarint[n])}
  <1>1. ASSUME NEW n \in Nat, \A m \in 0 .. n - 1 : m \in S
        PROVE  n \in S
    <2>1. CASE n < Base
      <3>1. n \in Byte
        BY <2>1, VarintAssumption DEF Byte
      <3>2. Shape(<<n>>)
        BY <2>1, <3>1 DEF Shape
      <3>3. WriteVarint[n] = <<n>>
        BY <2>1, WriteNext
      <3> QED
        BY <3>2, <3>3
    <2>2. CASE n >= Base
      <3>1. PICK q \in 0 .. n - 1 : q = n \div Base
        BY <2>2, LastDigit
      <3>2. Shape(WriteVarint[q])
        BY <1>1, <3>1
      <3>3. PICK b \in Byte : b = Base + (n % Base) /\ b >= Base
        BY GoesOn
      <3>4. WriteVarint[n] = <<b>> \o WriteVarint[q]
        BY <2>2, <3>1, <3>3, WriteNext
      <3>5. Shape(<<b>> \o WriteVarint[q])
        BY <3>2, <3>3, ShapeGrows
      <3> QED
        BY <3>4, <3>5
    <2> QED
      BY <2>1, <2>2, VarintAssumption
  <1> HIDE DEF S
  <1>2. v \in S
    BY <1>1, NumbersInFromSmaller
  <1> QED
    BY <1>2 DEF S

\* WriteNext byte by byte.
LEMMA WriteBytes ==
    ASSUME NEW v \in Nat, v >= Base
    PROVE  /\ Len(WriteVarint[v]) = Len(WriteVarint[v \div Base]) + 1
           /\ WriteVarint[v][1] = Base + (v % Base)
           /\ \A k \in 1 .. Len(WriteVarint[v \div Base]) :
                 WriteVarint[v][k + 1] = WriteVarint[v \div Base][k]
  <1>1. v \div Base \in Nat
    BY LastDigit
  <1>2. PICK b \in Byte : b = Base + (v % Base) /\ b >= Base
    BY GoesOn
  <1>3. PICK w : w = WriteVarint[v \div Base] /\ Shape(w)
    BY <1>1, WriteShape
  <1>4. WriteVarint[v] = <<b>> \o w
    BY <1>2, <1>3, WriteNext
  <1>5. /\ Len(<<b>> \o w) = Len(w) + 1
        /\ (<<b>> \o w)[1] = b
        /\ \A k \in 1 .. Len(w) : (<<b>> \o w)[k + 1] = w[k]
    BY <1>2, <1>3, ShapeGrows
  <1> QED
    BY <1>2, <1>3, <1>4, <1>5

\* A number below what digit k counts for is written in k bytes at most.
LEMMA WriteShort ==
    ASSUME NEW v \in Nat, NEW k \in Nat \ {0}, v < Weight[k]
    PROVE  Len(WriteVarint[v]) <= k
  <1> DEFINE S == {n \in Nat : \A j \in Nat \ {0} : n < Weight[j] => Len(WriteVarint[n]) <= j}
  <1>1. ASSUME NEW n \in Nat, \A m \in 0 .. n - 1 : m \in S
        PROVE  n \in S
    <2> SUFFICES ASSUME NEW j \in Nat \ {0}, n < Weight[j]
                 PROVE  Len(WriteVarint[n]) <= j
      OBVIOUS
    <2>1. CASE n < Base
      <3>1. WriteVarint[n] = <<n>> /\ Len(<<n>>) = 1
        BY <2>1, WriteNext
      <3> QED
        BY <3>1
    <2>2. CASE n >= Base
      <3>1. /\ n \div Base \in 0 .. n - 1 /\ n % Base \in 0 .. Base - 1
            /\ n = (n % Base) + Base * (n \div Base)
        BY <2>2, LastDigit
      <3>2. PICK b, q, r \in Nat : /\ b = Base /\ q = n \div Base /\ r = n % Base
                                   /\ n = r + b * q /\ b >= 4 /\ q \in 0 .. n - 1
        <4>1. Base \in Nat /\ Base >= 4 /\ n \div Base \in Nat /\ n % Base \in Nat
          BY <3>1, VarintAssumption
        <4> QED
          BY <3>1, <4>1
      <3>3. PICK i, w \in Nat : i = j - 1 /\ w = Weight[i] /\ Weight[j] = b * w
        <4>1. j - 1 \in Nat /\ (j - 1) + 1 = j
          OBVIOUS
        <4>2. Weight[j - 1] \in Nat /\ Weight[(j - 1) + 1] = Base * Weight[j - 1]
          BY <4>1, WeightNext
        <4> QED
          BY <3>2, <4>1, <4>2
      <3>4. b * q < b * w
        BY <3>2, <3>3
      <3>5. q < w
        <4>1. w <= q => b * w <= b * q
          BY ProductMonotone
        <4> QED
          BY <3>4, <4>1
      <3>6. i # 0
        <4>1. i = 0 => w = 1
          BY <3>3, WeightDef
        <4>2. n >= b
          BY <2>2, <3>2
        <4>3. w = 1 => b * w = b
          BY <3>2
        <4> QED
          BY <3>3, <4>1, <4>2, <4>3
      <3>7. Len(WriteVarint[q]) <= i
        <4>1. q \in S
          BY <1>1, <3>2
        <4> QED
          BY <3>3, <3>5, <3>6, <4>1
      <3>8. Len(WriteVarint[n]) = Len(WriteVarint[q]) + 1 /\ Len(WriteVarint[q]) \in Nat
        BY <2>2, <3>2, WriteBytes, WriteShape DEF Shape
      <3> QED
        BY <3>3, <3>7, <3>8
    <2> QED
      BY <2>1, <2>2, VarintAssumption
  <1> HIDE DEF S
  <1>2. v \in S
    BY <1>1, NumbersInFromSmaller
  <1> QED
    BY <1>2 DEF S

-----------------------------------------------------------------------------
(* Varints as they are read.                                               *)

\* The bytes w are in the archive behind p.
Holds(p, w) ==
    /\ p + Len(w) <= Len(archive)
    /\ \A k \in 1 .. Len(w) : archive[p + k] = w[k]

\* The digits of what is written are those of the number.
LEMMA WrittenDigits ==
    ASSUME archive \in Seq(Byte), NEW p \in Nat, NEW v \in Nat, Holds(p, WriteVarint[v])
    PROVE  DigitsValue(p, Len(WriteVarint[v])) = v
  <1> DEFINE S == {n \in Nat : \A j \in Nat : Holds(j, WriteVarint[n]) =>
                                 DigitsValue(j, Len(WriteVarint[n])) = n}
  <1>1. ASSUME NEW n \in Nat, \A m \in 0 .. n - 1 : m \in S
        PROVE  n \in S
    <2> SUFFICES ASSUME NEW j \in Nat, Holds(j, WriteVarint[n])
                 PROVE  DigitsValue(j, Len(WriteVarint[n])) = n
      OBVIOUS
    <2>1. CASE n < Base
      <3>1. WriteVarint[n] = <<n>>
        BY <2>1, WriteNext
      <3>2. Len(<<n>>) = 1 /\ <<n>>[1] = n
        OBVIOUS
      <3>3. j + 1 \in 1 .. Len(archive) /\ archive[j + 1] = n
        BY <3>1, <3>2 DEF Holds
      <3>4. DigitsValue(j, 0 + 1) = (archive[j + 1] % Base) + Base * DigitsValue(j + 1, 0)
        <4>1. j + 0 + 1 <= Len(archive) /\ 0 \in Nat
          BY <3>3
        <4> QED
          BY <4>1, DigitsFirst
      <3>5. DigitsValue(j + 1, 0) = 0
        <4>1. j + 1 \in Nat /\ 0 \in Nat /\ (j + 1) + 0 <= Len(archive)
          BY <3>3
        <4> QED
          BY <4>1, DigitsNext
      <3>6. n % Base = n
        BY <2>1, LastDigit
      <3>7. DigitsValue(j, 1) = n
        BY <3>3, <3>4, <3>5, <3>6, VarintAssumption
      <3> QED
        BY <3>1, <3>2, <3>7, Zenon
    <2>2. CASE n >= Base
      <3>1. PICK q \in Nat : q = n \div Base /\ q \in 0 .. n - 1 /\ n = (n % Base) + Base * q
        <4>1. /\ n \div Base \in Nat /\ n \div Base < n
              /\ n = (n % Base) + Base * (n \div Base)
          BY <2>2, LastDigit
        <4> QED
          BY <4>1
      <3>2. PICK l \in Nat \ {0} : l = Len(WriteVarint[q])
        BY WriteShape DEF Shape
      <3>3. /\ Len(WriteVarint[n]) = l + 1
            /\ WriteVarint[n][1] = Base + (n % Base)
            /\ \A k \in 1 .. l : WriteVarint[n][k + 1] = WriteVarint[q][k]
        BY <2>2, <3>1, <3>2, WriteBytes
      <3>4. j + (l + 1) <= Len(archive) /\ \A k \in 1 .. l + 1 : archive[j + k] = WriteVarint[n][k]
        BY <3>3 DEF Holds
      <3>5. archive[j + 1] % Base = n % Base
        <4>1. 1 \in 1 .. l + 1 /\ j + 1 \in 1 .. Len(archive)
          BY <3>4
        <4>2. archive[j + 1] = Base + (n % Base)
          BY <3>3, <3>4, <4>1
        <4>3. PICK b, r \in Nat : b = Base /\ b >= 4 /\ r = n % Base
          <5>1. Base \in Nat /\ Base >= 4
            BY VarintAssumption
          <5>2. n % Base \in Nat
            BY <5>1, LastDigit
          <5> QED
            BY <5>1, <5>2
        <4>4. archive[j + 1] = Base + (archive[j + 1] % Base)
          BY <4>1, <4>2, <4>3, DigitAt
        <4>5. PICK s \in Nat : s = archive[j + 1] % Base
          BY <4>1, DigitAt, VarintAssumption
        <4> QED
          BY <4>2, <4>3, <4>4, <4>5
      <3>6. Holds(j + 1, WriteVarint[q])
        <4>1. (j + 1) + l <= Len(archive)
          BY <3>4
        <4>2. \A k \in 1 .. l : archive[(j + 1) + k] = WriteVarint[q][k]
          <5> TAKE k \in 1 .. l
          <5>1. k + 1 \in 1 .. l + 1 /\ j + (k + 1) = (j + 1) + k
            OBVIOUS
          <5> QED
            BY <3>3, <3>4, <5>1
        <4> QED
          BY <3>2, <4>1, <4>2 DEF Holds
      <3>7. DigitsValue(j + 1, l) = q
        <4>1. q \in S /\ j + 1 \in Nat
          BY <1>1, <3>1
        <4> QED
          BY <3>2, <3>6, <4>1
      <3>8. DigitsValue(j, l + 1) = (archive[j + 1] % Base) + Base * DigitsValue(j + 1, l)
        <4>1. l \in Nat /\ j + l + 1 <= Len(archive)
          BY <3>4
        <4> QED
          BY <4>1, DigitsFirst
      <3> QED
        BY <3>1, <3>3, <3>5, <3>7, <3>8
    <2> QED
      BY <2>1, <2>2, VarintAssumption
  <1> HIDE DEF S
  <1>2. v \in S
    BY <1>1, NumbersInFromSmaller
  <1> QED
    BY <1>2 DEF S

\* A varint of n bytes is behind p.
Encodes(p, n) ==
    /\ n \in Nat \ {0} /\ p + n <= Len(archive)
    /\ archive[p + n] < Base
    /\ \A k \in 1 .. n - 1 : archive[p + k] >= Base

\* VarintEnds is where varints that are not too long end.
LEMMA EndsEncode ==
    ASSUME NEW p \in Nat, NEW n
    PROVE  n \in VarintEnds(p) <=> Encodes(p, n) /\ n <= VarintLimit
  <1>1. n \in VarintEnds(p) <=>
           /\ n \in 1 .. VarintLimit /\ p + n <= Len(archive)
           /\ archive[p + n] < Base
           /\ \A k \in 1 .. n - 1 : archive[p + k] >= Base
    BY Zenon DEF VarintEnds
  <1>2. n \in 1 .. VarintLimit <=> n \in Nat \ {0} /\ n <= VarintLimit
    BY VarintAssumption
  <1> QED
    BY <1>1, <1>2, Zenon DEF Encodes

\* A varint has one end.
LEMMA OneEnd ==
    ASSUME archive \in Seq(Byte), NEW p \in Nat, NEW m, NEW n, Encodes(p, m), Encodes(p, n)
    PROVE  m = n
  <1>1. /\ m \in Nat \ {0} /\ archive[p + m] < Base
        /\ \A k \in 1 .. m - 1 : archive[p + k] >= Base
        /\ n \in Nat \ {0} /\ archive[p + n] < Base
        /\ \A k \in 1 .. n - 1 : archive[p + k] >= Base
    BY DEF Encodes
  <1>2. (m < n => m \in 1 .. n - 1) /\ (n < m => n \in 1 .. m - 1)
    BY <1>1
  <1>3. archive[p + m] \in Nat /\ archive[p + n] \in Nat
    <2>1. p + m \in 1 .. Len(archive) /\ p + n \in 1 .. Len(archive)
      BY DEF Encodes
    <2> QED
      BY <2>1, DigitAt
  <1>4. ~(archive[p + m] >= Base) /\ ~(archive[p + n] >= Base)
    BY <1>1, <1>3, VarintAssumption
  <1>5. ~(m < n) /\ ~(n < m)
    BY <1>1, <1>2, <1>4, Zenon
  <1> QED
    BY <1>1, <1>5

\* And if that is not too far, its value is read.
LEMMA VarintRead ==
    ASSUME archive \in Seq(Byte), NEW p \in Nat, NEW n, Encodes(p, n), n <= VarintLimit
    PROVE  ReadVarint(p) = Read(DigitsValue(p, n) % Word, p + n)
  <1>1. n \in VarintEnds(p)
    BY EndsEncode
  <1>2. \A m \in VarintEnds(p) : m = n
    BY EndsEncode, OneEnd
  <1>3. (CHOOSE m \in VarintEnds(p) : TRUE) = n
    BY <1>1, <1>2, Zenon
  <1> QED
    BY <1>1, <1>3, Zenon DEF ReadVarint

\* The shortest encoding is what is written.
LEMMA ShortestIsWritten ==
    ASSUME archive \in Seq(Byte), NEW p \in Nat, NEW n, Encodes(p, n)
    PROVE  /\ Len(WriteVarint[DigitsValue(p, n)]) <= n
           /\ Len(WriteVarint[DigitsValue(p, n)]) = n => Holds(p, WriteVarint[DigitsValue(p, n)])
  <1> DEFINE S == {m \in Nat : \A j \in Nat : Encodes(j, m + 1) =>
                     /\ Len(WriteVarint[DigitsValue(j, m + 1)]) <= m + 1
                     /\ Len(WriteVarint[DigitsValue(j, m + 1)]) = m + 1
                          => Holds(j, WriteVarint[DigitsValue(j, m + 1)])}
  <1>1. 0 \in S
    <2> SUFFICES ASSUME NEW j \in Nat, Encodes(j, 0 + 1)
                 PROVE  /\ Len(WriteVarint[DigitsValue(j, 0 + 1)]) <= 0 + 1
                        /\ Holds(j, WriteVarint[DigitsValue(j, 0 + 1)])
      OBVIOUS
    <2>1. j + 1 \in 1 .. Len(archive) /\ archive[j + 1] < Base
      BY DEF Encodes
    <2>2. DigitsValue(j, 0 + 1) = (archive[j + 1] % Base) + Base * DigitsValue(j + 1, 0)
      <3>1. j + 0 + 1 <= Len(archive) /\ 0 \in Nat
        BY <2>1
      <3> QED
        BY <3>1, DigitsFirst
    <2>3. DigitsValue(j + 1, 0) = 0
      <3>1. j + 1 \in Nat /\ 0 \in Nat /\ (j + 1) + 0 <= Len(archive)
        BY <2>1
      <3> QED
        BY <3>1, DigitsNext
    <2>4. PICK d \in Nat : d = archive[j + 1] /\ archive[j + 1] % Base = d /\ d < Base
      BY <2>1, DigitAt
    <2>5. DigitsValue(j, 0 + 1) = d
      BY <2>2, <2>3, <2>4, VarintAssumption
    <2>6. WriteVarint[d] = <<d>> /\ Len(<<d>>) = 1 /\ <<d>>[1] = d
      BY <2>4, WriteNext
    <2>7. Holds(j, <<d>>)
      BY <2>1, <2>4, <2>6 DEF Holds
    <2>8. WriteVarint[DigitsValue(j, 0 + 1)] = <<d>>
      BY <2>5, <2>6
    <2>9. Len(<<d>>) <= 0 + 1
      BY <2>6
    <2> QED
      BY <2>7, <2>8, <2>9, Zenon
  <1>2. ASSUME NEW m \in Nat, m \in S
        PROVE  m + 1 \in S
    <2> SUFFICES ASSUME NEW j \in Nat, Encodes(j, (m + 1) + 1)
                 PROVE  /\ Len(WriteVarint[DigitsValue(j, (m + 1) + 1)]) <= (m + 1) + 1
                        /\ Len(WriteVarint[DigitsValue(j, (m + 1) + 1)]) = (m + 1) + 1
                             => Holds(j, WriteVarint[DigitsValue(j, (m + 1) + 1)])
      OBVIOUS
    <2> PICK n1 \in Nat : n1 = m + 1 /\ n1 # 0
      OBVIOUS
    <2>1. /\ j + (n1 + 1) <= Len(archive) /\ j + 1 \in 1 .. Len(archive)
          /\ archive[j + (n1 + 1)] < Base
          /\ \A k \in 1 .. n1 : archive[j + k] >= Base
      BY DEF Encodes
    <2>2. Encodes(j + 1, n1)
      <3>1. (j + 1) + n1 = j + (n1 + 1) /\ (j + 1) + n1 <= Len(archive)
        BY <2>1
      <3>2. \A k \in 1 .. n1 - 1 : archive[(j + 1) + k] >= Base
        <4> TAKE k \in 1 .. n1 - 1
        <4>1. k + 1 \in 1 .. n1 /\ j + (k + 1) = (j + 1) + k
          OBVIOUS
        <4>2. archive[j + (k + 1)] >= Base
          BY <2>1, <4>1
        <4> QED
          BY <4>1, <4>2
      <3> QED
        BY <2>1, <3>1, <3>2 DEF Encodes
    <2>3. PICK q \in Nat : q = DigitsValue(j + 1, n1)
      <3>1. (j + 1) + n1 <= Len(archive) /\ j + 1 \in Nat
        BY <2>1
      <3> QED
        BY <3>1, DigitsNext
    <2>4. PICK l \in Nat \ {0} : l = Len(WriteVarint[q])
      BY WriteShape DEF Shape
    <2>5. l <= n1 /\ (l = n1 => Holds(j + 1, WriteVarint[q]))
      <3>1. j + 1 \in Nat
        OBVIOUS
      <3> QED
        BY <1>2, <2>2, <2>3, <2>4, <3>1
    <2>6. PICK d \in 0 .. Base - 1 : d = archive[j + 1] % Base /\ archive[j + 1] = Base + d
      <3>1. archive[j + 1] >= Base
        BY <2>1
      <3> QED
        BY <2>1, <3>1, DigitAt
    <2>7. PICK v \in Nat : v = d + Base * q /\ v % Base = d /\ v \div Base = q
      BY OneLastDigit
    <2>8. DigitsValue(j, n1 + 1) = v
      <3>1. j + n1 + 1 <= Len(archive)
        BY <2>1
      <3> QED
        BY <2>3, <2>6, <2>7, <3>1, DigitsFirst
    <2>9. CASE v < Base
      <3>1. WriteVarint[v] = <<v>> /\ Len(<<v>>) = 1
        BY <2>9, WriteNext
      <3>2. PICK w : w = WriteVarint[DigitsValue(j, (m + 1) + 1)] /\ Len(w) = 1
        BY <2>8, <3>1
      <3>3. Len(w) <= (m + 1) + 1 /\ Len(w) # (m + 1) + 1
        BY <3>2
      <3> QED
        BY <3>2, <3>3
    <2>10. CASE v >= Base
      <3>1. /\ Len(WriteVarint[v]) = l + 1 /\ WriteVarint[v][1] = Base + d
            /\ \A k \in 1 .. l : WriteVarint[v][k + 1] = WriteVarint[q][k]
        BY <2>4, <2>7, <2>10, WriteBytes
      <3>2. ASSUME l = n1
            PROVE  Holds(j, WriteVarint[v])
        <4>1. \A k \in 1 .. l : archive[(j + 1) + k] = WriteVarint[q][k]
          BY <2>4, <2>5, <3>2 DEF Holds
        <4>2. ASSUME NEW k \in 1 .. l + 1
              PROVE  archive[j + k] = WriteVarint[v][k]
          <5>1. CASE k = 1
            BY <2>6, <3>1, <5>1
          <5>2. CASE k # 1
            <6>1. PICK i \in 1 .. l : k = i + 1 /\ j + k = (j + 1) + i
              <7>1. k - 1 \in 1 .. l /\ k = (k - 1) + 1 /\ j + k = (j + 1) + (k - 1)
                BY <5>2
              <7> QED
                BY <7>1
            <6> QED
              BY <3>1, <4>1, <6>1
          <5> QED
            BY <5>1, <5>2
        <4>3. j + (l + 1) <= Len(archive)
          BY <2>1, <3>2
        <4> QED
          BY <3>1, <4>2, <4>3 DEF Holds
      <3> QED
        BY <2>5, <2>8, <3>1, <3>2
    <2> QED
      BY <2>9, <2>10, VarintAssumption
  <1> HIDE DEF S
  <1>3. n \in Nat \ {0}
    BY DEF Encodes
  <1>4. n - 1 \in Nat /\ (n - 1) + 1 = n
    BY <1>3
  <1>5. n - 1 \in S
    BY <1>1, <1>2, <1>4, NumbersIn
  <1> QED
    BY <1>4, <1>5 DEF S

-----------------------------------------------------------------------------
(* The two readers read varints alike.                                     *)

\* A digit more counts for more.
LEMMA WeightGrows ==
    ASSUME NEW k \in Nat, NEW l \in Nat, k <= l
    PROVE  Weight[k] <= Weight[l]
  <1> DEFINE S == {i \in Nat : Weight[k] <= Weight[k + i]}
  <1>1. 0 \in S
    BY WeightNext
  <1>2. ASSUME NEW i \in Nat, i \in S
        PROVE  i + 1 \in S
    <2>1. PICK j \in Nat : j = k + i /\ k + (i + 1) = j + 1
      OBVIOUS
    <2>2. PICK b, v, w \in Nat : /\ b = Base /\ b >= 4 /\ v = Weight[k] /\ w = Weight[j]
                                 /\ Weight[j + 1] = b * w /\ v <= w
      <3>1. Weight[k] \in Nat /\ Weight[j] \in Nat /\ Weight[j + 1] = Base * Weight[j]
        BY WeightNext
      <3> QED
        BY <1>2, <2>1, <3>1, VarintAssumption
    <2>3. w * 1 <= w * b
      BY <2>2, ProductMonotone
    <2> QED
      BY <2>1, <2>2, <2>3
  <1> HIDE DEF S
  <1>3. \A i \in Nat : i \in S
    BY <1>1, <1>2, NumbersIn
  <1>4. PICK i \in Nat : l = k + i
    <2>1. l - k \in Nat /\ l = k + (l - k)
      OBVIOUS
    <2> QED
      BY <2>1
  <1> QED
    BY <1>3, <1>4 DEF S

\* Bytes that the archive holds are a part of it.
LEMMA HoldsSubSeq ==
    ASSUME archive \in Seq(Byte), NEW p \in Nat, NEW w \in Seq(Byte)
    PROVE  Holds(p, w) <=> /\ p + Len(w) <= Len(archive)
                           /\ SubSeq(archive, p + 1, p + Len(w)) = w
  <1>1. PICK n \in Nat : n = Len(w)
    BY LenProperties
  <1> SUFFICES ASSUME p + n <= Len(archive)
               PROVE  (\A k \in 1 .. n : archive[p + k] = w[k])
                         <=> SubSeq(archive, p + 1, p + n) = w
    BY <1>1 DEF Holds
  <1> PICK s : s = SubSeq(archive, p + 1, p + n)
    OBVIOUS
  <1>2. s \in Seq(Byte) /\ Len(s) = n /\ \A k \in 1 .. n : s[k] = archive[p + k]
    OBVIOUS
  <1>3. w \in [1 .. n -> Byte] /\ s \in [1 .. n -> Byte]
    BY <1>1, <1>2, LenProperties
  <1> QED
    BY <1>2, <1>3

\* Where the loop of inspectVarint stops first.
LEMMA FirstStop ==
    ASSUME archive \in Seq(Byte), NEW p \in Nat, Stops(p) # {}
    PROVE  /\ Min(Stops(p)) \in Stops(p) /\ Min(Stops(p)) \in 0 .. VarintLimit - 1
           /\ \A j \in Stops(p) : Min(Stops(p)) <= j
  <1>1. Stops(p) \subseteq 0 .. VarintLimit - 1
    BY Zenon DEF Stops
  <1>2. Stops(p) \subseteq Nat
    <2>1. 0 .. VarintLimit - 1 \subseteq Nat
      BY VarintAssumption
    <2> QED
      BY <1>1, <2>1
  <1>3. \E m \in Stops(p) : \A j \in Stops(p) : m <= j
    BY <1>2, LeastMember
  <1>4. Min(Stops(p)) \in Stops(p) /\ \A j \in Stops(p) : Min(Stops(p)) <= j
    BY <1>3, Zenon DEF Min
  <1> QED
    BY <1>1, <1>4

\* And what is found there.
LEMMA StopsAt ==
    ASSUME NEW p \in Nat, NEW i \in 0 .. VarintLimit - 1
    PROVE  i \in Stops(p) <=>
              \/ p + i >= Len(archive)
              \/ i = VarintLimit - 1 /\ (archive[p + i + 1] % Base) * Weight[i] >= Word
              \/ archive[p + i + 1] < Base
  BY Zenon DEF Stops

\* Both readers see the end of a varint.
LEMMA EndStops ==
    ASSUME archive \in Seq(Byte), NEW p \in Nat, NEW n \in VarintEnds(p)
    PROVE  /\ Encodes(p, n) /\ n \in 1 .. VarintLimit
           /\ n - 1 \in 0 .. VarintLimit - 1 /\ n - 1 \in Stops(p)
  <1>1. Encodes(p, n) /\ n <= VarintLimit
    BY EndsEncode
  <1>2. n \in Nat \ {0} /\ p + n <= Len(archive) /\ archive[p + n] < Base
    BY <1>1 DEF Encodes
  <1>3. n - 1 \in 0 .. VarintLimit - 1 /\ p + (n - 1) + 1 = p + n
    BY <1>1, <1>2, VarintAssumption
  <1>4. n - 1 \in Stops(p)
    BY <1>2, <1>3, StopsAt
  <1> QED
    BY <1>1, <1>2, <1>3, <1>4, VarintAssumption

\* A value that CheckedReader accepts loses no bits.
LEMMA AcceptedFits ==
    ASSUME archive \in Seq(Byte), NEW p \in Nat, NEW i \in 0 .. VarintLimit - 1,
           p + i + 1 <= Len(archive),
           ~(i = VarintLimit - 1 /\ (archive[p + i + 1] % Base) * Weight[i] >= Word)
    PROVE  DigitsValue(p, i + 1) < Word
  <1>1. PICK l \in Nat : l = VarintLimit - 1 /\ i \in Nat /\ i <= l
    BY VarintAssumption
  <1>2. PICK m, w \in Nat : m # 0 /\ w # 0 /\ w = Weight[l] /\ Word = m * w
    <2>1. PICK m \in 1 .. Base : Word = m * Weight[l]
      BY <1>1, WordAssumption
    <2>2. Weight[l] \in Nat /\ Weight[l] # 0
      BY <1>1, WeightNext
    <2>3. m \in Nat /\ m # 0
      BY VarintAssumption
    <2> QED
      BY <2>1, <2>2, <2>3
  <1>3. CASE i < l
    <2>1. i + 1 \in Nat /\ p + (i + 1) <= Len(archive) /\ i + 1 <= l
      BY <1>1, <1>3
    <2>2. DigitsValue(p, i + 1) < Weight[i + 1] /\ DigitsValue(p, i + 1) \in Nat
      BY <2>1, DigitsBound, DigitsNext
    <2>3. Weight[i + 1] <= w /\ Weight[i + 1] \in Nat
      BY <1>2, <2>1, WeightGrows, WeightNext
    <2>4. w * 1 <= w * m
      BY <1>2, ProductMonotone
    <2> QED
      BY <1>2, <2>2, <2>3, <2>4
  <1>4. CASE i = l
    <2>1. l + 1 \in Nat /\ p + (l + 1) <= Len(archive) /\ (l + 1) - 1 = l
          /\ p + l + 1 = p + (l + 1) /\ p + (l + 1) \in 1 .. Len(archive) /\ p + l <= Len(archive)
      BY <1>1, <1>4
    <2>2. PICK d \in Nat : d = archive[p + (l + 1)] % Base
      BY <2>1, DigitAt, VarintAssumption
    <2>3. PICK v \in Nat : v = DigitsValue(p, l) /\ v < w
      BY <1>2, <2>1, DigitsBound, DigitsNext
    <2>4. DigitsValue(p, l + 1) = v + d * w
      <3>1. DigitsValue(p, l + 1) = DigitsValue(p, l) + (archive[p + (l + 1)] % Base) * Weight[l]
        BY <2>1, DigitsNext
      <3> QED
        BY <1>2, <2>2, <2>3, <3>1
    <2>5. d * w < m * w
      <3>1. ~(d * w >= Word)
        BY <1>1, <1>2, <1>4, <2>1, <2>2
      <3> QED
        BY <1>2, <3>1
    <2>6. d + 1 <= m
      <3>1. m <= d => w * m <= w * d
        BY ProductMonotone
      <3> QED
        BY <2>5, <3>1
    <2>7. w * (d + 1) <= w * m
      BY <2>6, ProductMonotone
    <2>8. w * (d + 1) = w * d + w
      OBVIOUS
    <2> QED
      BY <1>2, <1>4, <2>3, <2>4, <2>7, <2>8, SMTT(60)
  <1> QED
    BY <1>1, <1>3, <1>4

\* On all bytes, of either limit of the length.
LEMMA VarintsAgreeAt ==
    ASSUME archive \in Seq(Byte), NEW p \in Nat
    PROVE  /\ VarintsAgree(p)
           /\ InspectVarint(p).kind \in {"valid", "truncated", "overflow"}
           /\ InspectVarint(p).kind = "valid" =>
                 InspectVarint(p).size \in Nat /\ p + InspectVarint(p).size <= Len(archive)
  <1>1. CASE Stops(p) = {}
    <2>1. VarintEnds(p) = {}
      BY <1>1, EndStops
    <2>2. InspectVarint(p).kind = "overflow" /\ ~ReadVarint(p).ok
      BY <1>1, <2>1 DEF InspectVarint, ReadVarint, Failed
    <2> QED
      BY <2>2 DEF VarintsAgree
  <1>2. CASE Stops(p) # {}
    <2>1. PICK i \in 0 .. VarintLimit - 1 :
             i = Min(Stops(p)) /\ i \in Stops(p) /\ \A j \in Stops(p) : i <= j
      BY <1>2, FirstStop
    <2> DEFINE Over == i = VarintLimit - 1 /\ (archive[p + i + 1] % Base) * Weight[i] >= Word
    <2>2. CASE p + i >= Len(archive)
      <3>1. VarintEnds(p) = {}
        <4> SUFFICES ASSUME NEW n \in VarintEnds(p)
                     PROVE  FALSE
          OBVIOUS
        <4>1. n \in Nat /\ i <= n - 1 /\ p + n <= Len(archive)
          BY <2>1, EndStops, VarintAssumption DEF Encodes
        <4> QED
          BY <2>2, <4>1, VarintAssumption
      <3>2. InspectVarint(p).kind = "truncated"
        BY <1>2, <2>1, <2>2 DEF InspectVarint
      <3>3. ~ReadVarint(p).ok
        BY <3>1 DEF ReadVarint, Failed
      <3> QED
        BY <3>2, <3>3 DEF VarintsAgree
    <2>3. CASE ~(p + i >= Len(archive)) /\ Over
      <3>1. InspectVarint(p).kind = "overflow"
        BY <1>2, <2>1, <2>3 DEF InspectVarint
      <3>2. ASSUME ReadVarint(p).ok
            PROVE  ReadVarint(p).end = p + VarintLimit /\ DigitsValue(p, VarintLimit) >= Word
        <4>1. PICK n : n \in VarintEnds(p)
          BY <3>2 DEF ReadVarint, Failed
        <4>2. Encodes(p, n) /\ n \in 1 .. VarintLimit /\ i <= n - 1
          BY <2>1, <4>1, EndStops
        <4>3. n = VarintLimit
          BY <2>3, <4>2, VarintAssumption
        <4>4. ReadVarint(p) = Read(DigitsValue(p, n) % Word, p + n)
          BY <4>2, <4>3, VarintRead, VarintAssumption
        <4>5. /\ n \in Nat /\ n # 0 /\ p + n <= Len(archive) /\ p + (n - 1) <= Len(archive)
              /\ n - 1 = i /\ n - 1 \in Nat /\ p + i + 1 = p + n /\ p + n \in 1 .. Len(archive)
          BY <2>3, <4>2, <4>3, VarintAssumption DEF Encodes
        <4>6. DigitsValue(p, n) = DigitsValue(p, n - 1) + (archive[p + n] % Base) * Weight[n - 1]
          BY <4>5, DigitsNext
        <4>7. DigitsValue(p, n - 1) \in Nat /\ archive[p + n] % Base \in Nat /\ Weight[n - 1] \in Nat
          <5>1. DigitsValue(p, n - 1) \in Nat
            BY <4>5, DigitsNext
          <5>2. archive[p + n] % Base \in Nat
            BY <4>5, DigitAt, VarintAssumption
          <5>3. Weight[n - 1] \in Nat
            BY <4>5, WeightNext
          <5> QED
            BY <5>1, <5>2, <5>3
        <4>8. PICK x \in Nat : x = (archive[p + n] % Base) * Weight[n - 1] /\ x >= Word
          BY <2>3, <4>5, <4>7
        <4> QED
          BY <4>3, <4>4, <4>6, <4>7, <4>8, VarintAssumption DEF Read
      <3> QED
        BY <3>1, <3>2 DEF VarintsAgree
    <2>4. CASE ~(p + i >= Len(archive)) /\ ~Over
      <3>1. PICK n \in Nat : n = i + 1 /\ n # 0 /\ n - 1 = i /\ p + n = p + i + 1
                             /\ p + n <= Len(archive) /\ n <= VarintLimit
        BY <2>1, <2>4, VarintAssumption
      <3>2. Encodes(p, n)
        <4>1. archive[p + n] < Base
          BY <2>1, <2>4, <3>1, StopsAt
        <4>2. ASSUME NEW k \in 1 .. n - 1
              PROVE  archive[p + k] >= Base
          <5>1. PICK j \in 0 .. VarintLimit - 1 :
                   k = j + 1 /\ ~(i <= j) /\ p + k = p + j + 1 /\ p + k \in 1 .. Len(archive)
            <6>1. /\ k - 1 \in 0 .. VarintLimit - 1 /\ k = (k - 1) + 1 /\ ~(i <= k - 1)
                  /\ p + k = p + (k - 1) + 1 /\ p + k \in 1 .. Len(archive)
              BY <3>1, VarintAssumption
            <6> QED
              BY <6>1
          <5>2. ~(archive[p + k] < Base)
            BY <2>1, <5>1, StopsAt
          <5> QED
            BY <5>1, <5>2, DigitAt, VarintAssumption
        <4> QED
          BY <3>1, <4>1, <4>2 DEF Encodes
      <3>3. PICK v \in Nat : v = DigitsValue(p, n) /\ v < Word
        <4>1. DigitsValue(p, n) \in Nat
          BY <3>1, DigitsNext
        <4>2. DigitsValue(p, n) < Word
          BY <2>4, <3>1, AcceptedFits
        <4> QED
          BY <4>1, <4>2
      <3>4. v % Word = v
        <4>1. PICK w \in Nat \ {0} : w = Word
          BY VarintAssumption
        <4>2. v < w => v % w = v
          OBVIOUS
        <4> QED
          BY <3>3, <4>1, <4>2
      <3>5. InspectVarint(p) = [kind |-> "valid", value |-> v, size |-> n,
                                canonical |-> n = Len(WriteVarint[v])]
        BY <1>2, <2>1, <2>4, <3>1, <3>3, <3>4 DEF InspectVarint
      <3>6. ReadVarint(p) = Read(v, p + n)
        BY <3>1, <3>2, <3>3, <3>4, VarintRead
      <3>7. (n = Len(WriteVarint[v])) <=> SubSeq(archive, p + 1, p + n) = WriteVarint[v]
        <4>1. WriteVarint[v] \in Seq(Byte)
          BY WriteShape DEF Shape
        <4>2. n = Len(WriteVarint[v]) => Holds(p, WriteVarint[v])
          BY <3>2, <3>3, ShortestIsWritten
        <4>3. Len(SubSeq(archive, p + 1, p + n)) = n
          BY <3>1
        <4> QED
          BY <3>1, <4>1, <4>2, <4>3, HoldsSubSeq
      <3> QED
        <4>1. PICK info : info = InspectVarint(p)
          OBVIOUS
        <4>2. /\ info.kind = "valid" /\ info.value = v /\ info.size = n
              /\ info.canonical <=> n = Len(WriteVarint[v])
          <5>1. info = [kind |-> "valid", value |-> v, size |-> n,
                        canonical |-> n = Len(WriteVarint[v])]
            BY <3>5, <4>1, Zenon
          <5> QED
            BY <5>1
        <4>3. VarintsAgree(p) <=>
                 /\ ReadVarint(p) = Read(info.value, p + info.size)
                 /\ info.value = DigitsValue(p, info.size)
                 /\ info.canonical <=> SubSeq(archive, p + 1, p + info.size) = WriteVarint[info.value]
          BY <4>1, <4>2, Zenon DEF VarintsAgree
        <4> QED
          BY <3>1, <3>3, <3>6, <3>7, <4>1, <4>2, <4>3
    <2> QED
      BY <2>2, <2>3, <2>4
  <1> QED
    BY <1>1, <1>2

-----------------------------------------------------------------------------
(* The two readers.                                                        *)

\* CheckedReader is used on the archive.
Inspecting == IsForeign /\ Len(archive) <= CheckedLength

\* What pack() writes is never foreign, and foreign bytes stay as they are.
ForeignInv ==
    /\ inputs = <<>> => pc # "build"
    /\ IsForeign => pc # "read" /\ archive \in Seq(Byte)

\* The twin is a record.
TwinKept == twin = [ok |-> twin.ok, position |-> twin.position, answer |-> twin.answer]

\* GoodIsFaithful, and what it takes to keep it.
ReaderInv ==
    /\ ForeignInv
    /\ Inspecting => pos \in 0 .. Len(archive)
    /\ ~Inspecting => ReaderInit
    /\ TwinKept
    /\ GoodIsFaithful

\* Positions of what is inspected are sizes.
LEMMA InspectedSizes ==
    ASSUME ReaderInv, Inspecting
    PROVE  /\ archive \in Seq(Byte) /\ Len(archive) \in Position
           /\ pos \in Position /\ pos <= Len(archive) /\ pos \in Nat
           /\ Remaining = Len(archive) - pos
  <1>1. archive \in Seq(Byte) /\ Len(archive) <= CheckedLength /\ pos \in 0 .. Len(archive)
    BY DEF ReaderInv, ForeignInv, Inspecting
  <1>2. PICK m \in Nat : m = MaxSize /\ Position = 0 .. m
    BY ByteRangesAssumption DEF Position
  <1>3. CheckedLength \in 0 .. m
    BY <1>2, CheckedReaderAssumption
  <1> QED
    BY <1>1, <1>2, <1>3 DEF Remaining

\* The container's own steps leave alone what the readers read.
LEMMA NextForeign ==
    ASSUME ForeignInv, Next
    PROVE  /\ ForeignInv' /\ IsForeign' = IsForeign
           /\ IsForeign => archive' = archive
  <1> USE DEF ForeignInv, IsForeign
  <1>1. CASE ReadInput
    BY <1>1 DEF ReadInput, PackFails
  <1>2. CASE AddFile
    BY <1>2 DEF AddFile
  <1>3. CASE WriteArchive
    BY <1>3 DEF WriteArchive, PackFails
  <1>4. CASE Cut
    BY <1>4 DEF Cut, packVars
  <1>5. CASE ParseHeader
    BY <1>5 DEF ParseHeader, UnpackFails, ReaderUnchanged, packVars
  <1>6. CASE ParseCount
    BY <1>6 DEF ParseCount, UnpackFails, ReaderUnchanged, packVars
  <1>7. CASE ParseEntry
    BY <1>7 DEF ParseEntry, UnpackFails, ReaderUnchanged, packVars
  <1>8. CASE MakeViews
    BY <1>8 DEF MakeViews, ReaderUnchanged, packVars
  <1>9. CASE ScanChunk
    BY <1>9 DEF ScanChunk, UnpackFails, ReaderUnchanged, packVars
  <1>10. CASE ExtractEntry
    BY <1>10 DEF ExtractEntry, UnpackFails, packVars
  <1>11. CASE Done
    BY <1>11 DEF Done, vars, packVars
  <1> QED
    BY <1>1, <1>2, <1>3, <1>4, <1>5, <1>6, <1>7, <1>8, <1>9, <1>10, <1>11 DEF Next

\* What a call does to the twin.
LEMMA TwinSteps ==
    ASSUME TwinKept, NEW read, TwinCall(read)
    PROVE  /\ TwinKept'
           /\ ~twin.ok => twin' = twin
           /\ twin.ok /\ read.ok => twin' = [ok |-> TRUE, position |-> read.end, answer |-> read]
           /\ twin.ok /\ ~read.ok => ~twin'.ok /\ twin'.position = twin.position
  BY DEF TwinKept, TwinCall

\* After an error, nothing is promised of what Reader does.
LEMMA AfterError ==
    ASSUME TwinKept, GoodIsFaithful, error # NoError, error' = error, failed' \in {failed, TRUE},
           NEW read, TwinCall(read)
    PROVE  GoodIsFaithful' /\ TwinKept'
  <1>1. /\ TwinKept'
        /\ ~twin.ok => twin' = twin
        /\ twin'.ok => twin.ok
    BY TwinSteps DEF TwinKept, TwinCall
  <1> QED
    BY <1>1 DEF GoodIsFaithful, NoError

\* Before one, both succeed alike.
LEMMA BothSucceed ==
    ASSUME TwinKept, GoodIsFaithful, error = NoError,
           NEW value, NEW end, CallYields(value, end), TwinCall(Read(value, end))
    PROVE  GoodIsFaithful' /\ TwinKept'
  <1>1. twin' = [ok |-> TRUE, position |-> end, answer |-> Read(value, end)]
    BY DEF GoodIsFaithful, TwinCall, Read
  <1> QED
    BY <1>1 DEF GoodIsFaithful, NoError, CallYields, TwinKept

\* Or the first error is set.
LEMMA FirstError ==
    ASSUME TwinKept, GoodIsFaithful, error = NoError, NEW what, NEW at, NEW read,
           CallFails, ErrorSet(what, at), TwinCall(read), what # "none",
           read.ok => what = "overflow", at = pos \/ what \in {"overflow", "seek"}
    PROVE  GoodIsFaithful' /\ TwinKept'
  <1>1. /\ error' = [what |-> what, at |-> at] /\ failed' = TRUE
        /\ twin.ok /\ twin.position = pos
    BY DEF GoodIsFaithful, ErrorSet, CallFails
  <1>2. /\ TwinKept' /\ twin'.ok => read.ok
        /\ ~twin'.ok => twin'.position = pos
    BY <1>1, TwinSteps
  <1>3. error'.what = what /\ error'.at = at /\ error' # NoError
    BY <1>1 DEF NoError
  <1>4. NoError' = NoError
    BY DEF NoError
  <1>5. TwinKept'
    BY TwinSteps
  <1> QED
    BY <1>1, <1>2, <1>3, <1>4, <1>5 DEF GoodIsFaithful

\* readByte, readBytes and skip.
LEMMA TakeStep ==
    ASSUME ReaderInv, Inspecting, UNCHANGED vars, NEW n \in Nat, NEW value, NEW twinValue,
           Take(n, value), TwinTake(n, twinValue),
           pos + n <= Len(archive) /\ twin.position = pos => value = twinValue
    PROVE  ReaderInv'
  <1>1. /\ archive \in Seq(Byte) /\ pos \in Nat /\ pos <= Len(archive)
        /\ Remaining = Len(archive) - pos
    BY InspectedSizes
  <1>2. ForeignInv /\ TwinKept /\ GoodIsFaithful
    BY DEF ReaderInv
  <1>3. ForeignInv' /\ Inspecting'
    BY <1>2 DEF ForeignInv, Inspecting, IsForeign, vars, packVars
  <1>4. archive' = archive
    BY DEF vars
  <1>5. CASE error # NoError
    <2>1. error' = error /\ failed' = TRUE /\ pos' = pos
      BY <1>5 DEF Take, CallFails
    <2>2. GoodIsFaithful' /\ TwinKept'
      BY <1>2, <1>5, <2>1, AfterError, Zenon DEF TwinTake
    <2> QED
      BY <1>1, <1>3, <1>4, <2>1, <2>2 DEF ReaderInv
  <1>6. CASE error = NoError /\ Remaining >= n
    <2>1. CallYields(value, pos + n) /\ twin.position = pos
      BY <1>2, <1>6 DEF Take, GoodIsFaithful
    <2>2. pos + n <= Len(archive) /\ Len(archive) - pos >= n
      BY <1>1, <1>6
    <2>3. TwinCall(Read(value, pos + n))
      BY <2>1, <2>2, Zenon DEF TwinTake
    <2>4. GoodIsFaithful' /\ TwinKept'
      BY <1>2, <1>6, <2>1, <2>3, BothSucceed, Zenon
    <2>5. pos' \in 0 .. Len(archive)
      BY <1>1, <2>1, <2>2 DEF CallYields
    <2> QED
      BY <1>3, <1>4, <2>4, <2>5 DEF ReaderInv
  <1>7. CASE error = NoError /\ ~(Remaining >= n)
    <2>1. CallFails /\ ErrorSet("truncated", pos) /\ twin.position = pos
      BY <1>2, <1>7 DEF Take, GoodIsFaithful
    <2>2. TwinCall(Failed)
      BY <1>1, <1>7, <2>1, Zenon DEF TwinTake
    <2>3. ~Failed.ok
      BY DEF Failed
    <2>4. GoodIsFaithful' /\ TwinKept'
      BY <1>2, <1>7, <2>1, <2>2, <2>3, FirstError
    <2>5. pos' = pos
      BY <2>1 DEF CallFails
    <2> QED
      BY <1>1, <1>3, <1>4, <2>4, <2>5 DEF ReaderInv
  <1> QED
    BY <1>5, <1>6, <1>7

\* A view of bytes that are there is those bytes.
LEMMA SubviewIsSubSeq ==
    ASSUME ReaderInv, Inspecting, NEW n \in Position, pos + n <= Len(archive)
    PROVE  Subview(pos, n) = SubSeq(archive, pos + 1, pos + n)
  BY InspectedSizes, WithinExact DEF Subview

\* readVarint.
LEMMA VarintStep ==
    ASSUME ReaderInv, CheckedVarint
    PROVE  ReaderInv'
  <1>1. Inspecting /\ UNCHANGED vars
    BY DEF CheckedVarint, InUse, Inspecting
  <1>2. archive \in Seq(Byte) /\ pos \in Nat /\ pos <= Len(archive)
    BY <1>1, InspectedSizes
  <1>3. ForeignInv /\ TwinKept /\ GoodIsFaithful
    BY DEF ReaderInv
  <1>4. ForeignInv' /\ Inspecting' /\ archive' = archive
    BY <1>1, <1>3 DEF ForeignInv, Inspecting, IsForeign, vars, packVars
  <1> DEFINE read == ReadVarint(twin.position)
             call == IF read.ok THEN Read(<<read.value>>, read.end) ELSE Failed
  <1>5. PICK info : info = InspectVarint(pos)
    OBVIOUS
  <1>6. /\ info.kind \in {"valid", "truncated", "overflow"}
        /\ info.kind = "valid" => info.size \in Nat /\ pos + info.size <= Len(archive)
        /\ info.kind = "valid" => ReadVarint(pos) = Read(info.value, pos + info.size)
        /\ info.kind = "truncated" => ~ReadVarint(pos).ok
    <2>1. VarintsAgree(pos)
      BY <1>2, VarintsAgreeAt
    <2>2. /\ info.kind = "valid" => ReadVarint(pos) = Read(info.value, pos + info.size)
          /\ info.kind = "truncated" => ~ReadVarint(pos).ok
      BY <1>5, <2>1 DEF VarintsAgree
    <2> QED
      BY <1>2, <1>5, <2>2, VarintsAgreeAt
  <1>7. /\ TwinCall(call)
        /\ info.kind = "valid" => CallYields(<<info.value>>, pos + info.size)
        /\ info.kind # "valid" => CallFails /\ ErrorSet(info.kind, pos)
    BY <1>5, Zenon DEF CheckedVarint
  <1> HIDE DEF call
  <1>8. pos' \in 0 .. Len(archive)
    BY <1>2, <1>6, <1>7 DEF CallYields, CallFails
  <1>9. CASE error # NoError
    <2>1. error' = error /\ failed' \in {failed, TRUE}
      BY <1>7, <1>9 DEF CallYields, CallFails, ErrorSet
    <2>2. GoodIsFaithful' /\ TwinKept'
      BY <1>3, <1>7, <1>9, <2>1, AfterError, Zenon
    <2> QED
      BY <1>4, <1>8, <2>2 DEF ReaderInv
  <1>10. CASE error = NoError /\ info.kind = "valid"
    <2>1. twin.position = pos
      BY <1>3, <1>10 DEF GoodIsFaithful
    <2>2. read = Read(info.value, pos + info.size)
      BY <1>6, <1>10, <2>1
    <2>3. call = Read(<<info.value>>, pos + info.size)
      <3>1. ASSUME NEW v, NEW e
            PROVE  Read(v, e).ok /\ Read(v, e).value = v /\ Read(v, e).end = e
        BY DEF Read
      <3>2. read.ok /\ read.value = info.value /\ read.end = pos + info.size
        BY <2>2, <3>1
      <3> QED
        BY <3>2 DEF call
    <2>4. GoodIsFaithful' /\ TwinKept'
      BY <1>3, <1>7, <1>10, <2>3, BothSucceed, Zenon
    <2> QED
      BY <1>4, <1>8, <2>4 DEF ReaderInv
  <1>11. CASE error = NoError /\ info.kind # "valid"
    <2>1. twin.position = pos
      BY <1>3, <1>11 DEF GoodIsFaithful
    <2>2. info.kind = "truncated" => ~call.ok
      BY <1>6, <2>1 DEF call, Failed
    <2>3. GoodIsFaithful' /\ TwinKept'
      <3>1. info.kind # "none" /\ (call.ok => info.kind = "overflow")
        BY <1>6, <1>11, <2>2
      <3> QED
        BY <1>3, <1>7, <1>11, <3>1, FirstError, Zenon
    <2> QED
      BY <1>4, <1>8, <2>3 DEF ReaderInv
  <1> QED
    BY <1>9, <1>10, <1>11

\* seek.
LEMMA SeekStep ==
    ASSUME ReaderInv, CheckedSeek
    PROVE  ReaderInv'
  <1>1. Inspecting /\ UNCHANGED vars
    BY DEF CheckedSeek, InUse, Inspecting
  <1>2. archive \in Seq(Byte) /\ pos \in Nat /\ pos <= Len(archive)
    BY <1>1, InspectedSizes
  <1>3. ForeignInv /\ TwinKept /\ GoodIsFaithful
    BY DEF ReaderInv
  <1>4. ForeignInv' /\ Inspecting' /\ archive' = archive
    BY <1>1, <1>3 DEF ForeignInv, Inspecting, IsForeign, vars, packVars
  <1>5. PICK to \in 0 .. Len(archive) + 1 :
           /\ IF to <= Len(archive) THEN CallYields(<<>>, to)
                                    ELSE CallFails /\ ErrorSet("seek", 0)
           /\ TwinCall(IF to <= Len(archive) THEN Read(<<>>, to) ELSE Failed)
    BY DEF CheckedSeek
  <1>6. pos' \in 0 .. Len(archive)
    BY <1>2, <1>5 DEF CallYields, CallFails
  <1>7. CASE error # NoError
    <2>1. error' = error /\ failed' \in {failed, TRUE}
      BY <1>5, <1>7 DEF CallYields, CallFails, ErrorSet
    <2>2. GoodIsFaithful' /\ TwinKept'
      BY <1>3, <1>5, <1>7, <2>1, AfterError, Zenon
    <2> QED
      BY <1>4, <1>6, <2>2 DEF ReaderInv
  <1>8. CASE error = NoError /\ to <= Len(archive)
    <2>1. GoodIsFaithful' /\ TwinKept'
      BY <1>3, <1>5, <1>8, BothSucceed, Zenon
    <2> QED
      BY <1>4, <1>6, <2>1 DEF ReaderInv
  <1>9. CASE error = NoError /\ ~(to <= Len(archive))
    <2>1. ~Failed.ok
      BY DEF Failed
    <2>2. GoodIsFaithful' /\ TwinKept'
      <3>1. CallFails /\ ErrorSet("seek", 0) /\ TwinCall(Failed)
        BY <1>5, <1>9, Zenon
      <3> QED
        BY <1>3, <1>9, <2>1, <3>1, FirstError
    <2> QED
      BY <1>4, <1>6, <2>2 DEF ReaderInv
  <1> QED
    BY <1>7, <1>8, <1>9

\* Every step of either reader, and of the container below, keeps the invariant.
LEMMA ReaderInvStep ==
    ASSUME ReaderInv, ReaderNext
    PROVE  ReaderInv'
  <1>1. CASE CheckedByte
    <2>1. /\ Inspecting /\ UNCHANGED vars
          /\ Take(1, Subview(pos, 1))
          /\ TwinTake(1, SubSeq(archive, twin.position + 1, twin.position + 1))
      BY <1>1 DEF CheckedByte, InUse, Inspecting
    <2>2. pos + 1 <= Len(archive) /\ twin.position = pos =>
            Subview(pos, 1) = SubSeq(archive, twin.position + 1, twin.position + 1)
      <3>1. PICK m \in Nat : m = MaxSize /\ Position = 0 .. m
        BY ByteRangesAssumption DEF Position
      <3>2. pos + 1 <= Len(archive) => 1 \in Position
        BY <2>1, <3>1, InspectedSizes
      <3> QED
        BY <2>1, <3>2, SubviewIsSubSeq
    <2> QED
      BY <2>1, <2>2, TakeStep
  <1>2. CASE CheckedBytes
    <2>1. /\ Inspecting /\ UNCHANGED vars
      BY <1>2 DEF CheckedBytes, InUse, Inspecting
    <2>2. PICK n \in Counts :
             /\ Take(n, Subview(pos, n))
             /\ TwinTake(n, SubSeq(archive, twin.position + 1, twin.position + n))
      BY <1>2 DEF CheckedBytes
    <2>3. n \in Position /\ n \in Nat
      BY CheckedReaderAssumption, ByteRangesAssumption DEF Position
    <2>4. pos + n <= Len(archive) /\ twin.position = pos =>
            Subview(pos, n) = SubSeq(archive, twin.position + 1, twin.position + n)
      BY <2>1, <2>3, SubviewIsSubSeq
    <2> QED
      BY <2>1, <2>2, <2>3, <2>4, TakeStep
  <1>3. CASE CheckedSkip
    <2>1. /\ Inspecting /\ UNCHANGED vars
      BY <1>3 DEF CheckedSkip, InUse, Inspecting
    <2>2. PICK n \in Counts : Take(n, <<>>) /\ TwinTake(n, <<>>)
      BY <1>3 DEF CheckedSkip
    <2>3. n \in Position /\ n \in Nat
      BY CheckedReaderAssumption, ByteRangesAssumption DEF Position
    <2> QED
      BY <2>1, <2>2, <2>3, TakeStep
  <1>4. CASE CheckedVarint
    BY <1>4, VarintStep
  <1>5. CASE CheckedSeek
    BY <1>5, SeekStep
  <1>6. CASE Next /\ UNCHANGED readerVars
    <2>1. ForeignInv' /\ IsForeign' = IsForeign /\ (IsForeign => archive' = archive)
      BY <1>6, NextForeign DEF ReaderInv
    <2>2. Inspecting' = Inspecting /\ (Inspecting => archive' = archive)
      BY <2>1 DEF Inspecting
    <2> QED
      BY <1>6, <2>1, <2>2
      DEF ReaderInv, ReaderInit, TwinKept, GoodIsFaithful, NoError, readerVars, Failed
  <1> QED
    BY <1>1, <1>2, <1>3, <1>4, <1>5, <1>6 DEF ReaderNext

\* It holds before the first call.
LEMMA ReaderInvInit ==
    ASSUME ComposedInit
    PROVE  ReaderInv
  <1>1. ForeignInv
    BY ContainerAssumption DEF ComposedInit, Init, ForeignInv, IsForeign
  <1>2. TwinKept /\ GoodIsFaithful /\ ReaderInit
    BY DEF ComposedInit, ReaderInit, TwinKept, GoodIsFaithful, NoError
  <1>3. Inspecting => pos \in 0 .. Len(archive)
    BY <1>1, <1>2 DEF ReaderInit, Inspecting, ForeignInv
  <1> QED
    BY <1>1, <1>2, <1>3 DEF ReaderInv

\* It says what is promised of the readers.
LEMMA ReaderInvImplies ==
    ASSUME ReaderInv
    PROVE  ReadersAgree
  <1>1. GoodIsFaithful
    BY DEF ReaderInv
  <1>2. ~Overlaps(ConsumedRange, RemainingRange)
    <2>1. CASE ~Inspecting
      BY <2>1 DEF ReaderInv, ReaderInit, Overlaps, ConsumedRange
    <2>2. CASE Inspecting
      <3>1. pos \in Position
        BY <2>2, InspectedSizes
      <3>2. End(ConsumedRange) = pos
        BY <3>1, ByteRangesAssumption
        DEF End, ConsumedRange, CheckedAdd, NoSize, Sized, Position
      <3> QED
        BY <3>1, <3>2, ByteRangesAssumption DEF Overlaps, RemainingRange, Position
    <2> QED
      BY <2>1, <2>2
  <1>3. Inspecting => VarintsAgree(pos)
    BY InspectedSizes, VarintsAgreeAt
  <1> QED
    BY <1>1, <1>2, <1>3, Zenon DEF ReadersAgree, Inspecting

\* ReadersAgree of all bytes, after any calls: while good() says so, whatever
\* CheckedReader (byte_io.cc:147-216) answered is what Reader (header.cc:16-57) would
\* have, although its seek() and readVarint() succeed after an error; inspectVarint
\* (byte_io.cc:218) reads every varint as Reader does, but for a value that does not fit;
\* and what was read never overlaps what is left.
THEOREM ReadersTheorem == ReaderSpec => []ReadersAgree
  <1>1. ComposedInit => ReaderInv
    BY ReaderInvInit
  <1>2. ReaderInv /\ [ReaderNext]_<<vars, readerVars>> => ReaderInv'
    <2>1. ReaderInv /\ UNCHANGED <<vars, readerVars>> => ReaderInv'
      BY DEF ReaderInv, ReaderInit, TwinKept, GoodIsFaithful, NoError, readerVars, Failed,
             ForeignInv, Inspecting, IsForeign, vars, packVars
    <2> QED
      BY <2>1, ReaderInvStep
  <1>3. ReaderInv => ReadersAgree
    BY ReaderInvImplies
  <1> QED
    BY <1>1, <1>2, <1>3, PTL DEF ReaderSpec

-----------------------------------------------------------------------------
(* What is written into an archive.                                        *)

\* An index of these entries is one that can be written.
Entry == [offset : Nat, packed_size : Nat, original_size : Nat, flags : Byte, name : Seq(Byte)]

\* Bytes and bytes behind them.
LEMMA ConcatBytes ==
    ASSUME NEW a \in Seq(Byte), NEW b \in Seq(Byte)
    PROVE  /\ a \o b \in Seq(Byte) /\ Len(a \o b) = Len(a) + Len(b)
           /\ \A k \in 1 .. Len(a) : (a \o b)[k] = a[k]
           /\ \A k \in 1 .. Len(b) : (a \o b)[Len(a) + k] = b[k]
  <1>1. /\ a \o b \in Seq(Byte) /\ Len(a \o b) = Len(a) + Len(b)
        /\ \A i \in 1 .. Len(a) + Len(b) :
              (a \o b)[i] = IF i <= Len(a) THEN a[i] ELSE b[i - Len(a)]
    BY ConcatProperties, Zenon
  <1>2. PICK m, n \in Nat : m = Len(a) /\ n = Len(b)
    OBVIOUS
  <1>3. ASSUME NEW k \in 1 .. m
        PROVE  (a \o b)[k] = a[k]
    <2>1. k \in 1 .. m + n /\ k <= m
      OBVIOUS
    <2> QED
      BY <1>1, <1>2, <2>1
  <1>4. ASSUME NEW k \in 1 .. n
        PROVE  (a \o b)[m + k] = b[k]
    <2>1. m + k \in 1 .. m + n /\ ~(m + k <= m) /\ (m + k) - m = k
      OBVIOUS
    <2> QED
      BY <1>1, <1>2, <2>1
  <1> QED
    BY <1>1, <1>2, <1>3, <1>4

\* Writing is one after the other, however it is grouped.
LEMMA ConcatAssociates ==
    ASSUME NEW a \in Seq(Byte), NEW b \in Seq(Byte), NEW c \in Seq(Byte)
    PROVE  (a \o b) \o c = a \o (b \o c)
  BY ConcatAssociative

\* Of one byte,
LEMMA OneByte ==
    ASSUME NEW b \in Byte
    PROVE  <<b>> \in Seq(Byte) /\ Len(<<b>>) = 1 /\ <<b>>[1] = b
  OBVIOUS

\* of a varint,
LEMMA VarintBytes ==
    ASSUME NEW v \in Nat
    PROVE  WriteVarint[v] \in Seq(Byte) /\ Len(WriteVarint[v]) \in Nat \ {0}
  BY WriteShape DEF Shape

\* of flags, which are read as they were,
LEMMA CodedByte ==
    ASSUME NEW b \in Byte
    PROVE  Coded[b] \in Byte /\ Coded[Coded[b]] = b
  BY ContainerAssumption

\* and of an entry, what is written are bytes.
LEMMA EntryBytes ==
    ASSUME NEW e \in Entry
    PROVE  WriteEntry(e) \in Seq(Byte)
  <1>1. /\ e.offset \in Nat /\ e.packed_size \in Nat /\ e.original_size \in Nat
        /\ e.flags \in Byte /\ e.name \in Seq(Byte) /\ Len(e.name) \in Nat
    BY DEF Entry
  <1>2. <<Coded[e.flags]>> \in Seq(Byte)
    BY <1>1, CodedByte, OneByte
  <1>3. /\ WriteVarint[e.offset] \in Seq(Byte) /\ WriteVarint[e.packed_size] \in Seq(Byte)
        /\ WriteVarint[e.original_size] \in Seq(Byte) /\ WriteVarint[Len(e.name)] \in Seq(Byte)
    BY <1>1, VarintBytes, Zenon
  <1> QED
    BY <1>1, <1>2, <1>3, ConcatBytes, Zenon DEF WriteEntry

\* What the entries of a list amount to, f[i] for i of them; the same for every
\* list that begins with them.
LEMMA EntriesSum ==
    ASSUME NEW list \in Seq(Entry)
    PROVE  \E f \in [0 .. Len(list) -> Seq(Byte)] :
              /\ f[0] = <<>>
              /\ \A i \in 1 .. Len(list) : f[i] = f[i - 1] \o WriteEntry(list[i])
              /\ \A other \in Seq(Entry) :
                    /\ Len(other) <= Len(list)
                    /\ \A i \in 1 .. Len(other) : other[i] = list[i]
                    => WriteEntries(other) = f[Len(other)]
  <1> PICK m \in Nat : m = Len(list)
    OBVIOUS
  <1> PICK c : c = [i \in 1 .. m |-> WriteEntry(list[i])]
    OBVIOUS
  <1>1. \A i \in 1 .. m : c[i] \in Seq(Byte) /\ c[i] = WriteEntry(list[i])
    <2> TAKE i \in 1 .. m
    <2>1. list[i] \in Entry
      OBVIOUS
    <2>2. WriteEntry(list[i]) \in Seq(Byte)
      BY <2>1, EntryBytes
    <2> QED
      BY <2>2
  <1> DEFINE step == [i \in 1 .. m |-> [s \in Seq(Byte) |-> s \o c[i]]]
  <1>2. step \in [1 .. m -> [Seq(Byte) -> Seq(Byte)]]
    <2>1. \A i \in 1 .. m, s \in Seq(Byte) : s \o c[i] \in Seq(Byte)
      BY <1>1, ConcatBytes, Zenon
    <2> QED
      BY <2>1
  <1>3. <<>> \in Seq(Byte)
    OBVIOUS
  <1>4. PICK f \in [0 .. m -> Seq(Byte)] : Follows(f, <<>>, step, m)
    <2> HIDE DEF step
    <2> QED
      BY <1>2, <1>3, RecursionUpTo
  <1>5. f[0] = <<>> /\ \A i \in 1 .. m : f[i] = f[i - 1] \o c[i]
    <2>1. \A i \in 1 .. m : f[i - 1] \in Seq(Byte)
      <3>1. \A i \in 1 .. m : i - 1 \in 0 .. m
        OBVIOUS
      <3> QED
        BY <3>1, Zenon
    <2>2. \A i \in 1 .. m, s \in Seq(Byte) : step[i][s] = s \o c[i]
      BY Zenon
    <2> HIDE DEF step
    <2>3. f[0] = <<>> /\ \A i \in 1 .. m : f[i] = step[i][f[i - 1]]
      BY <1>4, Zenon DEF Follows
    <2> QED
      BY <2>1, <2>2, <2>3, Zenon
  <1> HIDE DEF step
  <1>6. ASSUME NEW other \in Seq(Entry), Len(other) <= m,
               \A i \in 1 .. Len(other) : other[i] = list[i]
        PROVE  WriteEntries(other) = f[Len(other)]
    <2> PICK n \in 0 .. m : n = Len(other)
      BY <1>6
    <2> DEFINE Body(g) == [i \in 0 .. n |->
                             IF i = 0 THEN <<>> ELSE g[i - 1] \o WriteEntry(other[i])]
               Sum(g) == [i \in 0 .. n |-> IF i = 0 THEN <<>> ELSE g[i - 1] \o c[i]]
               upto == CHOOSE g : g = Body(g)
    <2>1. \A g : Body(g) = Sum(g)
      <3>1. \A i \in 0 .. n : i # 0 => WriteEntry(other[i]) = c[i]
        <4> TAKE i \in 0 .. n
        <4>1. i # 0 => other[i] = list[i] /\ i \in 1 .. m
          BY <1>6
        <4> QED
          BY <1>1, <4>1, Zenon
      <3> QED
        BY <3>1, Zenon
    <2> PICK g : g = [i \in 0 .. n |-> f[i]]
      OBVIOUS
    <2>2. g = Sum(g)
      <3>1. \A i \in 0 .. n : i # 0 => i - 1 \in 0 .. n /\ i \in 1 .. m
        OBVIOUS
      <3>2. \A i \in 0 .. n : f[i] = IF i = 0 THEN <<>> ELSE g[i - 1] \o c[i]
        BY <1>5, <3>1, Zenon
      <3> QED
        BY <3>2, Zenon
    <2>3. WriteEntries(other) = upto[n]
      BY Zenon DEF WriteEntries
    <2> HIDE DEF Body, Sum
    <2>4. upto = Body(upto)
      BY <2>1, <2>2, Zenon
    <2> HIDE DEF upto
    <2>5. upto = Sum(upto)
      BY <2>1, <2>4, Zenon
    <2>6. upto[0] = <<>> /\ \A i \in 1 .. n : upto[i] = upto[i - 1] \o c[i]
      <3>1. \A i \in 0 .. n : upto[i] = IF i = 0 THEN <<>> ELSE upto[i - 1] \o c[i]
        BY <2>5, Zenon DEF Sum
      <3>2. 0 \in 0 .. n /\ \A i \in 1 .. n : i \in 0 .. n /\ i # 0
        OBVIOUS
      <3> QED
        BY <3>1, <3>2, Zenon
    <2> DEFINE S == {k \in Nat : k <= n => upto[k] = f[k]}
    <2>7. 0 \in S
      BY <1>5, <2>6
    <2>8. ASSUME NEW k \in Nat, k \in S
          PROVE  k + 1 \in S
      <3> SUFFICES ASSUME k + 1 <= n
                   PROVE  upto[k + 1] = f[k + 1]
        OBVIOUS
      <3>1. PICK i \in 1 .. n : i = k + 1 /\ i - 1 = k /\ i \in 1 .. m
        OBVIOUS
      <3>2. upto[i - 1] = f[i - 1]
        BY <2>8, <3>1
      <3>3. upto[i] = upto[i - 1] \o c[i] /\ f[i] = f[i - 1] \o c[i]
        BY <1>5, <2>6, <3>1, Zenon
      <3> QED
        BY <3>1, <3>2, <3>3
    <2> HIDE DEF S
    <2>9. \A k \in Nat : k \in S
      BY <2>7, <2>8, NumbersIn
    <2>10. n \in S
      BY <2>9
    <2> QED
      BY <2>3, <2>10 DEF S
  <1> QED
    BY <1>1, <1>5, <1>6, Zenon

\* An index grows entry by entry.
LEMMA EntriesNext ==
    ASSUME NEW list \in Seq(Entry), NEW i \in 1 .. Len(list)
    PROVE  /\ SubSeq(list, 1, i) \in Seq(Entry) /\ SubSeq(list, 1, i - 1) \in Seq(Entry)
           /\ WriteEntries(SubSeq(list, 1, i - 1)) \in Seq(Byte)
           /\ WriteEntries(SubSeq(list, 1, i))
                = WriteEntries(SubSeq(list, 1, i - 1)) \o WriteEntry(list[i])
  <1>1. PICK f \in [0 .. Len(list) -> Seq(Byte)] :
              /\ f[0] = <<>>
              /\ \A k \in 1 .. Len(list) : f[k] = f[k - 1] \o WriteEntry(list[k])
              /\ \A other \in Seq(Entry) :
                    /\ Len(other) <= Len(list)
                    /\ \A k \in 1 .. Len(other) : other[k] = list[k]
                    => WriteEntries(other) = f[Len(other)]
    BY EntriesSum
  <1>2. ASSUME NEW k \in 0 .. Len(list)
        PROVE  /\ SubSeq(list, 1, k) \in Seq(Entry)
               /\ WriteEntries(SubSeq(list, 1, k)) = f[k]
    <2>1. PICK s : s = SubSeq(list, 1, k)
      OBVIOUS
    <2>2. s \in Seq(Entry) /\ Len(s) = k /\ \A j \in 1 .. k : s[j] = list[j]
      BY <2>1
    <2>3. Len(s) <= Len(list) /\ \A j \in 1 .. Len(s) : s[j] = list[j]
      BY <2>2
    <2>4. WriteEntries(s) = f[Len(s)]
      BY <1>1, <2>2, <2>3, Zenon
    <2> QED
      BY <2>1, <2>2, <2>4, Zenon
  <1>3. i \in 0 .. Len(list) /\ i - 1 \in 0 .. Len(list)
    OBVIOUS
  <1> QED
    BY <1>1, <1>2, <1>3, Zenon

\* From no entries to all of them.
LEMMA EntriesOfNone ==
    ASSUME NEW list \in Seq(Entry)
    PROVE  /\ SubSeq(list, 1, 0) = <<>> /\ WriteEntries(<<>>) = <<>>
           /\ WriteEntries(list) \in Seq(Byte)
           /\ SubSeq(list, 1, Len(list)) = list
  <1>1. PICK f \in [0 .. Len(list) -> Seq(Byte)] :
              /\ f[0] = <<>>
              /\ \A other \in Seq(Entry) :
                    /\ Len(other) <= Len(list)
                    /\ \A k \in 1 .. Len(other) : other[k] = list[k]
                    => WriteEntries(other) = f[Len(other)]
    BY EntriesSum
  <1>2. <<>> \in Seq(Entry) /\ Len(<<>>) = 0 /\ Len(list) \in 0 .. Len(list)
    OBVIOUS
  <1>3. WriteEntries(<<>>) = <<>>
    BY <1>1, <1>2
  <1>4. WriteEntries(list) = f[Len(list)]
    BY <1>1
  <1> QED
    BY <1>1, <1>2, <1>3, <1>4

\* A list and one entry more.
LEMMA EntriesAppend ==
    ASSUME NEW list \in Seq(Entry), NEW e \in Entry
    PROVE  /\ Append(list, e) \in Seq(Entry)
           /\ WriteEntries(Append(list, e)) = WriteEntries(list) \o WriteEntry(e)
  <1>1. PICK longer, n : longer = Append(list, e) /\ n = Len(list)
    OBVIOUS
  <1>2. /\ longer \in Seq(Entry) /\ Len(longer) = n + 1 /\ n \in Nat
        /\ longer[n + 1] = e /\ n + 1 \in 1 .. Len(longer) /\ (n + 1) - 1 = n
    BY <1>1
  <1>3. SubSeq(longer, 1, n + 1) = longer /\ SubSeq(longer, 1, n) = list
    BY <1>1, <1>2
  <1>4. WriteEntries(SubSeq(longer, 1, n + 1))
          = WriteEntries(SubSeq(longer, 1, (n + 1) - 1)) \o WriteEntry(longer[n + 1])
    BY <1>2, EntriesNext
  <1> QED
    BY <1>1, <1>2, <1>3, <1>4

-----------------------------------------------------------------------------
(* What was written is read, as far as the archive goes.                   *)

\* The bytes w, or as many of them as are left, are in the archive behind p.
Lies(p, w) == \A k \in 1 .. Len(w) : p + k <= Len(archive) => archive[p + k] = w[k]

\* A read of n bytes behind p that yields value, or fails for want of them.
Yields(read, value, p, n) ==
    /\ p + n <= Len(archive) => read = Read(value, p + n)
    /\ ~(p + n <= Len(archive)) => ~read.ok

\* Of what lies somewhere, each part lies where it begins.
LEMMA LiesApart ==
    ASSUME NEW p \in Nat, NEW a \in Seq(Byte), NEW b \in Seq(Byte)
    PROVE  Lies(p, a \o b) => Lies(p, a) /\ Lies(p + Len(a), b)
  <1> PICK w, m, n : w = a \o b /\ m = Len(a) /\ n = Len(b)
    OBVIOUS
  <1>1. /\ m \in Nat /\ n \in Nat /\ Len(w) = m + n
        /\ \A k \in 1 .. m : w[k] = a[k]
        /\ \A k \in 1 .. n : w[m + k] = b[k]
    BY ConcatBytes
  <1> SUFFICES ASSUME \A k \in 1 .. m + n : p + k <= Len(archive) => archive[p + k] = w[k]
               PROVE  Lies(p, a) /\ Lies(p + m, b)
    BY <1>1 DEF Lies
  <1>2. ASSUME NEW k \in 1 .. m, p + k <= Len(archive)
        PROVE  archive[p + k] = a[k]
    <2>1. k \in 1 .. m + n
      BY <1>1
    <2> QED
      BY <1>1, <1>2, <2>1
  <1>3. ASSUME NEW k \in 1 .. n, (p + m) + k <= Len(archive)
        PROVE  archive[(p + m) + k] = b[k]
    <2>1. PICK j \in 1 .. m + n : j = m + k /\ p + j = (p + m) + k
      BY <1>1
    <2> QED
      BY <1>1, <1>3, <2>1
  <1> QED
    BY <1>2, <1>3, Zenon DEF Lies

\* Numbers below Word have no more digits than a varint may have.
LEMMA WordFits ==
    /\ Word \in Nat \ {0} /\ Word <= Weight[VarintLimit]
  <1>1. PICK l \in Nat : l = VarintLimit - 1 /\ VarintLimit = l + 1
    BY VarintAssumption
  <1>2. PICK b, w \in Nat : b = Base /\ w = Weight[l] /\ Weight[l + 1] = b * w
    BY <1>1, WeightNext, VarintAssumption
  <1>3. PICK m \in 1 .. b : Word = m * w
    BY <1>1, <1>2, WordAssumption
  <1>4. w * m <= w * b
    BY ProductMonotone
  <1> QED
    BY <1>1, <1>2, <1>3, <1>4, VarintAssumption

\* Sizes are numbers.
LEMMA SizeNumber ==
    ASSUME NEW v \in Size
    PROVE  v \in Nat /\ v < Word /\ v % Word = v
  <1>1. PICK w \in Nat \ {0} : w = Word
    BY VarintAssumption
  <1>2. v \in Nat /\ v < w
    BY <1>1 DEF Size
  <1>3. v % w = v
    BY <1>2
  <1> QED
    BY <1>1, <1>2, <1>3

\* A varint that lies behind p is read (header.cc:33), unless it was cut.
LEMMA ReadsVarint ==
    ASSUME archive \in Seq(Byte), NEW p \in Nat, NEW v \in Size, Lies(p, WriteVarint[v])
    PROVE  Yields(ReadVarint(p), v, p, Len(WriteVarint[v]))
  <1>1. v \in Nat /\ v < Word /\ v % Word = v
    BY SizeNumber
  <1>2. PICK w, n : w = WriteVarint[v] /\ n = Len(w)
    OBVIOUS
  <1>3. /\ n \in Nat \ {0} /\ w \in Seq(Byte) /\ w[n] < Base
        /\ \A k \in 1 .. n - 1 : w[k] >= Base
    BY <1>1, <1>2, WriteShape DEF Shape
  <1>4. n <= VarintLimit
    <2>1. v < Weight[VarintLimit]
      <3>1. VarintLimit \in Nat /\ Weight[VarintLimit] \in Nat
        BY VarintAssumption, WeightNext
      <3> QED
        BY <1>1, <3>1, WordFits
    <2> QED
      BY <1>1, <1>2, <2>1, WriteShort, VarintAssumption
  <1>5. \A k \in 1 .. n : p + k <= Len(archive) => archive[p + k] = w[k]
    BY <1>2 DEF Lies
  <1>6. CASE p + n <= Len(archive)
    <2>1. \A k \in 1 .. n : p + k <= Len(archive)
      BY <1>3, <1>6
    <2>2. Holds(p, w)
      BY <1>2, <1>5, <1>6, <2>1 DEF Holds
    <2>3. Encodes(p, n)
      <3>1. n \in 1 .. n /\ \A k \in 1 .. n - 1 : k \in 1 .. n
        BY <1>3
      <3> QED
        BY <1>3, <1>5, <1>6, <2>1, <3>1 DEF Encodes
    <2>4. DigitsValue(p, n) = v
      BY <1>1, <1>2, <2>2, WrittenDigits
    <2>5. ReadVarint(p) = Read(v, p + n)
      BY <1>1, <1>4, <2>3, <2>4, VarintRead
    <2> QED
      BY <1>2, <1>6, <2>5 DEF Yields
  <1>7. CASE ~(p + n <= Len(archive))
    <2>1. VarintEnds(p) = {}
      <3> SUFFICES ASSUME NEW m \in VarintEnds(p)
                   PROVE  FALSE
        OBVIOUS
      <3>1. m \in Nat \ {0} /\ p + m <= Len(archive) /\ archive[p + m] < Base
        BY EndsEncode DEF Encodes
      <3>2. m \in 1 .. n - 1 /\ m \in 1 .. n
        BY <1>3, <1>7, <3>1
      <3>3. archive[p + m] >= Base
        BY <1>3, <1>5, <3>1, <3>2
      <3>4. p + m \in 1 .. Len(archive)
        BY <3>1
      <3>5. archive[p + m] \in Nat
        BY <3>4, DigitAt
      <3> QED
        BY <3>1, <3>3, <3>5, VarintAssumption
    <2>2. ~ReadVarint(p).ok
      BY <2>1 DEF ReadVarint, Failed
    <2> QED
      BY <1>2, <1>7, <2>2 DEF Yields
  <1> QED
    BY <1>6, <1>7

\* So is a byte (header.cc:16).
LEMMA ReadsByte ==
    ASSUME archive \in Seq(Byte), NEW p \in Nat, NEW b \in Byte, Lies(p, <<b>>)
    PROVE  Yields(ReadByte(p), b, p, 1)
  <1>1. p + 1 <= Len(archive) => archive[p + 1] = b
    <2>1. 1 \in 1 .. Len(<<b>>) /\ <<b>>[1] = b
      OBVIOUS
    <2> QED
      BY <2>1 DEF Lies
  <1> QED
    BY <1>1 DEF Yields, ReadByte, Failed, Read

\* The next read begins where one ended, unless that failed.
LEMMA ThenVarint ==
    ASSUME archive \in Seq(Byte), NEW p \in Nat, NEW n \in Nat, NEW u, NEW read,
           Yields(read, u, p, n), NEW v \in Size, Lies(p + n, WriteVarint[v])
    PROVE  /\ Yields(VarintAfter(read), v, p, n + Len(WriteVarint[v]))
           /\ VarintAfter(read).ok => read = Read(u, p + n)
  <1>1. PICK l \in Nat : l = Len(WriteVarint[v])
    BY SizeNumber, VarintBytes
  <1>2. Yields(ReadVarint(p + n), v, p + n, l)
    BY <1>1, ReadsVarint
  <1>3. CASE p + n <= Len(archive)
    <2>1. read = Read(u, p + n)
      BY <1>3 DEF Yields
    <2>2. read.ok /\ read.end = p + n
      BY <2>1 DEF Read
    <2>3. VarintAfter(read) = ReadVarint(p + n)
      BY <2>2 DEF VarintAfter
    <2>4. p + (n + l) = (p + n) + l
      OBVIOUS
    <2>5. Yields(VarintAfter(read), v, p, n + l)
      BY <1>2, <2>3, <2>4, Zenon DEF Yields
    <2> QED
      BY <1>1, <2>1, <2>5
  <1>4. CASE ~(p + n <= Len(archive))
    <2>1. VarintAfter(read) = Failed
      BY <1>4 DEF Yields, VarintAfter
    <2>2. ~(p + (n + l) <= Len(archive))
      <3>1. PICK s : s = Len(archive) /\ s \in Nat
        OBVIOUS
      <3> QED
        BY <1>4, <3>1
    <2> QED
      BY <1>1, <2>1, <2>2 DEF Yields, Failed
  <1> QED
    BY <1>3, <1>4

\* The same of a byte.
LEMMA ThenByte ==
    ASSUME archive \in Seq(Byte), NEW p \in Nat, NEW n \in Nat, NEW u, NEW read,
           Yields(read, u, p, n), NEW b \in Byte, Lies(p + n, <<b>>)
    PROVE  /\ Yields(ByteAfter(read), b, p, n + 1)
           /\ ByteAfter(read).ok => read = Read(u, p + n)
  <1>1. Yields(ReadByte(p + n), b, p + n, 1)
    BY ReadsByte
  <1>2. CASE p + n <= Len(archive)
    <2>1. read = Read(u, p + n)
      BY <1>2 DEF Yields
    <2>2. read.ok /\ read.end = p + n
      BY <2>1 DEF Read
    <2>3. ByteAfter(read) = ReadByte(p + n)
      BY <2>2 DEF ByteAfter
    <2> QED
      BY <1>1, <2>1, <2>3 DEF Yields
  <1>3. CASE ~(p + n <= Len(archive))
    <2>1. ByteAfter(read) = Failed
      BY <1>3 DEF Yields, ByteAfter
    <2>2. ~(p + (n + 1) <= Len(archive))
      <3>1. PICK s : s = Len(archive) /\ s \in Nat
        OBVIOUS
      <3> QED
        BY <1>3, <3>1
    <2> QED
      BY <2>1, <2>2 DEF Yields, Failed
  <1> QED
    BY <1>2, <1>3

\* The numbers of an entry that can be written have sizes.
SizedEntry(e) ==
    /\ e \in Entry
    /\ e.offset \in Size /\ e.packed_size \in Size /\ e.original_size \in Size
    /\ Len(e.name) \in Size

\* The reads of ParseEntry before that of the name.
EntryReads(p, offset, packed_size, original_size, flags, length) ==
    /\ offset = ReadVarint(p) /\ packed_size = VarintAfter(offset)
    /\ original_size = VarintAfter(packed_size) /\ flags = ByteAfter(original_size)
    /\ length = VarintAfter(flags)

\* What ParseEntry reads of an entry before its name.
LEMMA ReadsEntry ==
    ASSUME archive \in Seq(Byte), NEW p \in Nat, NEW e, SizedEntry(e), Lies(p, WriteEntry(e)),
           NEW offset, NEW packed_size, NEW original_size, NEW flags, NEW length,
           EntryReads(p, offset, packed_size, original_size, flags, length)
    PROVE  \E n \in Nat :
              /\ Len(WriteEntry(e)) = n + Len(e.name)
              /\ Yields(length, Len(e.name), p, n)
              /\ Lies(p + n, e.name)
              /\ length.ok => /\ offset.value = e.offset
                              /\ packed_size.value = e.packed_size
                              /\ original_size.value = e.original_size
                              /\ Coded[flags.value] = e.flags
  <1>1. /\ offset = ReadVarint(p) /\ packed_size = VarintAfter(offset)
        /\ original_size = VarintAfter(packed_size) /\ flags = ByteAfter(original_size)
        /\ length = VarintAfter(flags)
    BY DEF EntryReads
  <1>2. /\ e.offset \in Size /\ e.packed_size \in Size /\ e.original_size \in Size
        /\ e.flags \in Byte /\ e.name \in Seq(Byte) /\ Len(e.name) \in Size
    BY DEF SizedEntry, Entry
  <1>3. PICK a, b, c, d, l \in Seq(Byte) :
           /\ a = WriteVarint[e.offset] /\ b = WriteVarint[e.packed_size]
           /\ c = WriteVarint[e.original_size] /\ d = <<Coded[e.flags]>>
           /\ l = WriteVarint[Len(e.name)]
    <2>1. /\ WriteVarint[e.offset] \in Seq(Byte) /\ WriteVarint[e.packed_size] \in Seq(Byte)
          /\ WriteVarint[e.original_size] \in Seq(Byte)
          /\ WriteVarint[Len(e.name)] \in Seq(Byte)
      BY <1>2, SizeNumber, VarintBytes, Zenon
    <2>2. <<Coded[e.flags]>> \in Seq(Byte)
      BY <1>2, CodedByte, OneByte
    <2> QED
      BY <2>1, <2>2, Zenon
  <1>4. WriteEntry(e) = (((((a \o b) \o c) \o d) \o l) \o e.name)
    BY <1>3, Zenon DEF WriteEntry
  <1>5. PICK m1, m2, m3, m4, m5 :
           /\ m1 = Len(a) /\ m2 = m1 + Len(b) /\ m3 = m2 + Len(c) /\ m4 = m3 + 1
           /\ m5 = m4 + Len(l)
    OBVIOUS
  <1> m1 \in Nat /\ m2 \in Nat /\ m3 \in Nat /\ m4 \in Nat /\ m5 \in Nat
    BY <1>5
  <1>6. Len(d) = 1
    BY <1>3
  <1>7. PICK ab, abc, abcd, abcdl \in Seq(Byte) :
           /\ ab = a \o b /\ abc = ab \o c /\ abcd = abc \o d /\ abcdl = abcd \o l
           /\ Len(ab) = m2 /\ Len(abc) = m3 /\ Len(abcd) = m4 /\ Len(abcdl) = m5
    <2>1. a \o b \in Seq(Byte) /\ Len(a \o b) = m2
      BY <1>5, ConcatBytes
    <2>2. (a \o b) \o c \in Seq(Byte) /\ Len((a \o b) \o c) = m3
      BY <1>5, <2>1, ConcatBytes
    <2>3. ((a \o b) \o c) \o d \in Seq(Byte) /\ Len(((a \o b) \o c) \o d) = m4
      <3>1. ASSUME NEW s \in Seq(Byte), Len(s) = m3
            PROVE  s \o d \in Seq(Byte) /\ Len(s \o d) = m4
        <4>1. s \o d \in Seq(Byte) /\ Len(s \o d) = Len(s) + Len(d)
          BY ConcatBytes, Zenon
        <4> QED
          BY <1>5, <1>6, <3>1, <4>1
      <3> QED
        BY <2>2, <3>1, Zenon
    <2>4. (((a \o b) \o c) \o d) \o l \in Seq(Byte) /\ Len((((a \o b) \o c) \o d) \o l) = m5
      BY <1>5, <2>3, ConcatBytes
    <2> QED
      BY <2>1, <2>2, <2>3, <2>4, Zenon
  <1>8. /\ WriteEntry(e) = abcdl \o e.name
        /\ Len(WriteEntry(e)) = m5 + Len(e.name)
    <2>1. WriteEntry(e) = abcdl \o e.name
      BY <1>4, <1>7, Zenon
    <2>2. Len(abcdl \o e.name) = Len(abcdl) + Len(e.name)
      BY <1>2, <1>7, ConcatBytes, Zenon
    <2> QED
      BY <1>7, <2>1, <2>2, Zenon
  <1>9. Lies(p, abcdl) /\ Lies(p + m5, e.name)
    <2>1. Lies(p, abcdl \o e.name)
      BY <1>8, Zenon
    <2>2. Lies(p, abcdl) /\ Lies(p + Len(abcdl), e.name)
      BY <1>2, <2>1, LiesApart, Zenon
    <2> QED
      BY <1>7, <2>2, Zenon
  <1>10. Lies(p, abcd) /\ Lies(p + m4, l)
    BY <1>7, <1>9, LiesApart, Zenon
  <1>11. Lies(p, abc) /\ Lies(p + m3, d)
    BY <1>7, <1>10, LiesApart, Zenon
  <1>12. Lies(p, ab) /\ Lies(p + m2, c)
    BY <1>7, <1>11, LiesApart, Zenon
  <1>13. Lies(p, a) /\ Lies(p + m1, b)
    BY <1>5, <1>7, <1>12, LiesApart, Zenon
  <1>14. Yields(offset, e.offset, p, m1)
    BY <1>1, <1>2, <1>3, <1>5, <1>13, ReadsVarint, Zenon
  <1>15. /\ Yields(packed_size, e.packed_size, p, m2)
         /\ packed_size.ok => offset = Read(e.offset, p + m1)
    BY <1>1, <1>2, <1>3, <1>5, <1>13, <1>14, ThenVarint, Zenon
  <1>16. /\ Yields(original_size, e.original_size, p, m3)
         /\ original_size.ok => packed_size = Read(e.packed_size, p + m2)
    <2>1. Lies(p + m2, WriteVarint[e.original_size]) /\ m3 = m2 + Len(WriteVarint[e.original_size])
      BY <1>3, <1>5, <1>12, Zenon
    <2> QED
      BY <1>1, <1>2, <1>15, <2>1, ThenVarint, Zenon
  <1>17. /\ Yields(flags, Coded[e.flags], p, m4)
         /\ flags.ok => original_size = Read(e.original_size, p + m3)
    <2>1. Coded[e.flags] \in Byte
      BY <1>2, CodedByte
    <2>2. Lies(p + m3, <<Coded[e.flags]>>) /\ m4 = m3 + 1
      BY <1>3, <1>5, <1>11, Zenon
    <2> QED
      BY <1>1, <1>16, <2>1, <2>2, ThenByte, Zenon
  <1>18. /\ Yields(length, Len(e.name), p, m5)
         /\ length.ok => flags = Read(Coded[e.flags], p + m4)
    <2>1. Lies(p + m4, WriteVarint[Len(e.name)]) /\ m5 = m4 + Len(WriteVarint[Len(e.name)])
      BY <1>3, <1>5, <1>10, Zenon
    <2> QED
      BY <1>1, <1>2, <1>17, <2>1, ThenVarint, Zenon
  <1>19. ASSUME length.ok
         PROVE  /\ offset.value = e.offset /\ packed_size.value = e.packed_size
                /\ original_size.value = e.original_size /\ Coded[flags.value] = e.flags
    <2>1. \A v, end : Read(v, end).ok /\ Read(v, end).value = v
      BY DEF Read
    <2>2. flags.ok /\ flags.value = Coded[e.flags]
      BY <1>18, <1>19, <2>1
    <2>3. original_size.ok /\ original_size.value = e.original_size
      BY <1>17, <2>1, <2>2
    <2>4. packed_size.ok /\ packed_size.value = e.packed_size
      BY <1>16, <2>1, <2>3
    <2>5. offset.value = e.offset
      BY <1>15, <2>1, <2>4
    <2> QED
      BY <1>2, <2>2, <2>3, <2>4, <2>5, CodedByte
  <1> QED
    BY <1>8, <1>9, <1>18, <1>19, Zenon

-----------------------------------------------------------------------------
(* How a packed archive is laid out.                                       *)

\* Entries and chunks as AddFile leaves them.
Stored ==
    /\ files \in Seq(Input) /\ \A i \in 1 .. Len(files) : Len(files[i].name) \in Size
    /\ entries \in Seq(Entry) /\ Len(entries) <= Len(files)
    /\ chunks \in Seq(Byte) /\ Len(entries) <= Len(chunks)
    /\ \A i \in 1 .. Len(entries) :
          /\ entries[i] = EntryOf(files[i], entries[i].offset)
          /\ ChunkEnd(entries[i]) <= Len(chunks)
          /\ \A k \in 1 .. Len(ChunkOf(files[i])) :
                chunks[entries[i].offset + k] = ChunkOf(files[i])[k]
    /\ Len(entries) = 0 => Len(chunks) = 0
    /\ Len(entries) # 0 => ChunkEnd(entries[Len(entries)]) = Len(chunks)

\* The flags of an entry and those of an archive are bytes.
LEMMA FlagBytes ==
    ASSUME NEW b, NEW c
    PROVE  EntryFlags(b, c) \in Byte /\ ArchiveFlags(b, c) \in Byte
  <1>1. EntryFlags(b, c) \in 0 .. 3 /\ ArchiveFlags(b, c) \in 0 .. 5
    BY DEF EntryFlags, ArchiveFlags
  <1> QED
    BY <1>1, VarintAssumption DEF Byte

\* What buildArchiveFromPayloads (nested.cc:132) says of a file.
LEMMA EntryOfFile ==
    ASSUME NEW f \in Input, NEW start \in Nat
    PROVE  /\ EntryOf(f, start) \in Entry /\ EntryOf(f, start).offset = start
           /\ EntryOf(f, start).packed_size = Len(f.payload)
           /\ EntryOf(f, start).original_size = f.size
           /\ EntryOf(f, start).name = IF f.name = <<>> THEN Unnamed ELSE f.name
           /\ ChunkOf(f) \in Seq(Byte)
           /\ ChunkEnd(EntryOf(f, start)) = start + Len(ChunkOf(f))
           /\ Len(ChunkOf(f)) = 1 + Len(WriteVarint[Len(f.payload)]) + Len(f.payload)
           /\ Len(ChunkOf(f)) \in Nat \ {0}
  <1>1. f.payload \in Seq(Byte) /\ Len(f.payload) \in Nat /\ f.size \in Nat /\ f.name \in Seq(Byte)
    BY SizeNumber DEF Input
  <1>2. PICK flags \in Byte : flags = EntryFlags(f.compressed, f.kind # "plain")
    BY FlagBytes
  <1>3. (IF f.name = <<>> THEN Unnamed ELSE f.name) \in Seq(Byte)
    BY <1>1, ContainerAssumption
  <1>4. EntryOf(f, start) = [offset |-> start, packed_size |-> Len(f.payload),
                             original_size |-> f.size, flags |-> flags,
                             name |-> IF f.name = <<>> THEN Unnamed ELSE f.name]
    BY <1>2, Zenon DEF EntryOf
  <1>5. PICK name \in Seq(Byte) : name = IF f.name = <<>> THEN Unnamed ELSE f.name
    BY <1>3
  <1>6. /\ EntryOf(f, start) \in Entry /\ EntryOf(f, start).offset = start
        /\ EntryOf(f, start).packed_size = Len(f.payload)
        /\ EntryOf(f, start).original_size = f.size
        /\ EntryOf(f, start).name = name
    <2>1. EntryOf(f, start) = [offset |-> start, packed_size |-> Len(f.payload),
                               original_size |-> f.size, flags |-> flags, name |-> name]
      BY <1>4, <1>5, Zenon
    <2> QED
      BY <1>1, <2>1 DEF Entry
  <1>7. PICK l \in Nat \ {0} : l = Len(WriteVarint[Len(f.payload)])
    BY <1>1, VarintBytes
  <1>8. ChunkOf(f) \in Seq(Byte) /\ Len(ChunkOf(f)) = 1 + l + Len(f.payload)
    <2>1. PICK a, b \in Seq(Byte) :
             a = <<Coded[flags]>> /\ Len(a) = 1 /\ b = WriteVarint[Len(f.payload)] /\ Len(b) = l
      BY <1>1, <1>7, CodedByte, OneByte, VarintBytes
    <2>2. ChunkOf(f) = (a \o b) \o f.payload
      BY <1>2, <2>1, Zenon DEF ChunkOf
    <2>3. a \o b \in Seq(Byte) /\ Len(a \o b) = Len(a) + Len(b)
      BY ConcatBytes, Zenon
    <2>4. /\ (a \o b) \o f.payload \in Seq(Byte)
          /\ Len((a \o b) \o f.payload) = Len(a \o b) + Len(f.payload)
      BY <1>1, <2>3, ConcatBytes, Zenon
    <2> QED
      BY <2>1, <2>2, <2>3, <2>4
  <1>9. ChunkEnd(EntryOf(f, start)) = start + 1 + l + Len(f.payload)
    BY <1>6, <1>7, Zenon DEF ChunkEnd
  <1>10. /\ ChunkEnd(EntryOf(f, start)) = start + Len(ChunkOf(f))
         /\ Len(ChunkOf(f)) \in Nat \ {0}
    <2>1. PICK p \in Nat : p = Len(f.payload)
      BY <1>1
    <2>2. /\ ChunkEnd(EntryOf(f, start)) = start + 1 + l + p
          /\ Len(ChunkOf(f)) = 1 + l + p
      BY <1>8, <1>9, <2>1, Zenon
    <2>3. /\ start + 1 + l + p = start + (1 + l + p)
          /\ 1 + l + p \in Nat \ {0}
      OBVIOUS
    <2> QED
      BY <2>2, <2>3, Zenon
  <1> QED
    BY <1>5, <1>6, <1>7, <1>8, <1>10, Zenon

\* An entry is as its file wants it, and its numbers can be written.
LEMMA StoredEntry ==
    ASSUME Stored, Len(chunks) \in Size, NEW i \in 1 .. Len(entries)
    PROVE  /\ entries[i].offset \in Nat /\ files[i] \in Input /\ i \in 1 .. Len(files)
           /\ SizedEntry(entries[i])
           /\ entries[i].packed_size = Len(files[i].payload)
           /\ entries[i].name = IF files[i].name = <<>> THEN Unnamed ELSE files[i].name
           /\ ChunkEnd(entries[i]) = entries[i].offset + Len(ChunkOf(files[i]))
           /\ ChunkEnd(entries[i]) <= Len(chunks)
  <1>1. PICK e, f, start :
           /\ e = entries[i] /\ f = files[i] /\ start = e.offset
           /\ e \in Entry /\ start \in Nat /\ f \in Input /\ i \in 1 .. Len(files)
           /\ Len(f.name) \in Size
           /\ e = EntryOf(f, start) /\ ChunkEnd(e) <= Len(chunks)
    <2>1. entries[i] \in Entry /\ i \in 1 .. Len(files)
      BY DEF Stored
    <2>2. files[i] \in Input /\ Len(files[i].name) \in Size /\ entries[i].offset \in Nat
      BY <2>1, SMTT(60) DEF Stored, Entry
    <2>3. entries[i] = EntryOf(files[i], entries[i].offset) /\ ChunkEnd(entries[i]) <= Len(chunks)
      BY DEF Stored
    <2> QED
      BY <2>1, <2>2, <2>3, Zenon
  <1>2. /\ e.packed_size = Len(f.payload) /\ e.original_size = f.size
        /\ e.name = IF f.name = <<>> THEN Unnamed ELSE f.name
        /\ ChunkEnd(e) = start + Len(ChunkOf(f))
        /\ Len(ChunkOf(f)) = 1 + Len(WriteVarint[Len(f.payload)]) + Len(f.payload)
    <2>1. EntryOf(f, start) = e
      BY <1>1
    <2>2. /\ EntryOf(f, start).packed_size = Len(f.payload)
          /\ EntryOf(f, start).original_size = f.size
          /\ EntryOf(f, start).name = IF f.name = <<>> THEN Unnamed ELSE f.name
          /\ ChunkEnd(EntryOf(f, start)) = start + Len(ChunkOf(f))
          /\ Len(ChunkOf(f)) = 1 + Len(WriteVarint[Len(f.payload)]) + Len(f.payload)
      BY <1>1, EntryOfFile, Zenon
    <2> QED
      BY <2>1, <2>2, Zenon
  <1>3. PICK w, c \in Nat : w = Word /\ c = Len(chunks) /\ c < w /\ Size = 0 .. w - 1
    BY SizeNumber, VarintAssumption DEF Size
  <1>4. f.payload \in Seq(Byte) /\ Len(f.payload) \in Nat /\ f.size \in Size
    BY <1>1 DEF Input
  <1>5. Len(WriteVarint[Len(f.payload)]) \in Nat
    BY <1>4, VarintBytes
  <1>6. start \in Size /\ Len(f.payload) \in Size
    <2>1. PICK l, p, s \in Nat : l = Len(WriteVarint[Len(f.payload)]) /\ p = Len(f.payload) /\ s = start
      BY <1>1, <1>4, <1>5
    <2>2. s + (1 + l + p) <= c
      <3>1. ChunkEnd(e) = s + (1 + l + p)
        BY <1>2, <2>1
      <3> QED
        BY <1>1, <1>3, <3>1
    <2>3. s \in 0 .. w - 1 /\ p \in 0 .. w - 1
      BY <1>3, <2>2
    <2> QED
      BY <1>3, <2>1, <2>3, Zenon
  <1>7. Len(e.name) \in Size
    <2>1. Len(Unnamed) \in Size
      BY <1>3, ContainerAssumption
    <2> QED
      BY <1>1, <1>2, <2>1
  <1> QED
    BY <1>1, <1>2, <1>4, <1>6, <1>7 DEF SizedEntry

\* Where the parts of an archive begin: its count, its entries and the chunks.
HeaderLength == Len(Magic) + 2
EntriesStart == HeaderLength + Len(WriteVarint[Len(entries)])
EntryStart(k) == EntriesStart + Len(WriteEntries(SubSeq(entries, 1, k)))

\* An entry begins where the one before it ends.
LEMMA EntryStarts ==
    ASSUME entries \in Seq(Entry)
    PROVE  /\ HeaderLength \in Nat /\ EntriesStart \in Nat
           /\ EntryStart(0) = EntriesStart
           /\ \A k \in 0 .. Len(entries) : EntryStart(k) \in Nat
           /\ \A k \in 1 .. Len(entries) :
                 EntryStart(k) = EntryStart(k - 1) + Len(WriteEntry(entries[k]))
           /\ \A k \in 0 .. Len(entries) : EntryStart(k) <= EntryStart(Len(entries))
  <1>1. HeaderLength \in Nat
    BY ContainerAssumption DEF HeaderLength
  <1>2. EntriesStart \in Nat
    <2>1. Len(entries) \in Nat
      OBVIOUS
    <2>2. Len(WriteVarint[Len(entries)]) \in Nat
      BY <2>1, VarintBytes
    <2> QED
      BY <1>1, <2>2 DEF EntriesStart
  <1>3. EntryStart(0) = EntriesStart
    <2>1. Len(WriteEntries(SubSeq(entries, 1, 0))) = 0
      <3>1. WriteEntries(SubSeq(entries, 1, 0)) = <<>>
        BY EntriesOfNone, Zenon
      <3> QED
        BY <3>1
    <2> QED
      BY <1>2, <2>1 DEF EntryStart
  <1>4. ASSUME NEW k \in 1 .. Len(entries)
        PROVE  /\ EntryStart(k) = EntryStart(k - 1) + Len(WriteEntry(entries[k]))
               /\ EntryStart(k) \in Nat /\ EntryStart(k - 1) \in Nat
               /\ EntryStart(k - 1) <= EntryStart(k)
    <2>1. entries[k] \in Entry
      OBVIOUS
    <2>2. PICK a, b \in Seq(Byte) :
             /\ a = WriteEntries(SubSeq(entries, 1, k - 1)) /\ b = WriteEntry(entries[k])
             /\ WriteEntries(SubSeq(entries, 1, k)) = a \o b
      BY <2>1, EntriesNext, EntryBytes
    <2>3. Len(a \o b) = Len(a) + Len(b)
      BY ConcatBytes
    <2>4. EntryStart(k) = EntriesStart + Len(a \o b) /\ EntryStart(k - 1) = EntriesStart + Len(a)
      BY <2>2, Zenon DEF EntryStart
    <2> QED
      BY <1>2, <2>2, <2>3, <2>4
  <1>5. \A k \in 0 .. Len(entries) : EntryStart(k) \in Nat
    BY <1>2, <1>3, <1>4
  <1> DEFINE S == {i \in Nat : i <= Len(entries) =>
                      EntryStart(Len(entries) - i) <= EntryStart(Len(entries))}
  <1>6. 0 \in S
    BY <1>5
  <1>7. ASSUME NEW i \in Nat, i \in S
        PROVE  i + 1 \in S
    <2> SUFFICES ASSUME i + 1 <= Len(entries)
                 PROVE  EntryStart(Len(entries) - (i + 1)) <= EntryStart(Len(entries))
      OBVIOUS
    <2>1. PICK k \in 1 .. Len(entries) : k = Len(entries) - i /\ k - 1 = Len(entries) - (i + 1)
      OBVIOUS
    <2>2. EntryStart(k) <= EntryStart(Len(entries))
      BY <1>7, <2>1
    <2>3. EntryStart(k - 1) <= EntryStart(k) /\ EntryStart(k) \in Nat /\ EntryStart(k - 1) \in Nat
      BY <1>4
    <2>4. EntryStart(Len(entries)) \in Nat
      BY <1>5
    <2> QED
      BY <2>1, <2>2, <2>3, <2>4
  <1> HIDE DEF S
  <1>8. \A i \in Nat : i \in S
    BY <1>6, <1>7, NumbersIn
  <1>9. ASSUME NEW k \in 0 .. Len(entries)
        PROVE  EntryStart(k) <= EntryStart(Len(entries))
    <2>1. PICK i \in Nat : k = Len(entries) - i /\ i <= Len(entries)
      <3>1. Len(entries) - k \in Nat /\ k = Len(entries) - (Len(entries) - k)
            /\ Len(entries) - k <= Len(entries)
        OBVIOUS
      <3> QED
        BY <3>1
    <2>2. i \in S
      BY <1>8
    <2> QED
      BY <2>1, <2>2 DEF S
  <1> QED
    BY <1>1, <1>2, <1>3, <1>4, <1>5, <1>9

\* The entries are where they were written.
LEMMA EntriesLie ==
    ASSUME entries \in Seq(Entry), Lies(EntriesStart, WriteEntries(entries))
    PROVE  \A k \in 1 .. Len(entries) : Lies(EntryStart(k - 1), WriteEntry(entries[k]))
  <1> DEFINE Behind(k) == Lies(EntriesStart, WriteEntries(SubSeq(entries, 1, k)))
             S == {i \in Nat : i <= Len(entries) => Behind(Len(entries) - i)}
  <1>1. 0 \in S
    <2>1. Len(entries) - 0 = Len(entries)
      OBVIOUS
    <2>2. Behind(Len(entries) - 0)
      BY <2>1, EntriesOfNone, Zenon
    <2> QED
      BY <2>2
  <1>2. ASSUME NEW k \in 1 .. Len(entries), Behind(k)
        PROVE  Behind(k - 1) /\ Lies(EntryStart(k - 1), WriteEntry(entries[k]))
    <2>1. entries[k] \in Entry /\ EntriesStart \in Nat
      BY EntryStarts
    <2>2. PICK a, b \in Seq(Byte) :
             /\ a = WriteEntries(SubSeq(entries, 1, k - 1)) /\ b = WriteEntry(entries[k])
             /\ WriteEntries(SubSeq(entries, 1, k)) = a \o b
      BY <2>1, EntriesNext, EntryBytes
    <2>3. Lies(EntriesStart, a) /\ Lies(EntriesStart + Len(a), b)
      <3>1. Lies(EntriesStart, a \o b)
        BY <1>2, <2>2, Zenon
      <3> QED
        BY <2>1, <3>1, LiesApart, Zenon
    <2> QED
      BY <2>2, <2>3, Zenon DEF EntryStart
  <1>3. ASSUME NEW i \in Nat, i \in S
        PROVE  i + 1 \in S
    <2> SUFFICES ASSUME i + 1 <= Len(entries)
                 PROVE  Behind(Len(entries) - (i + 1))
      OBVIOUS
    <2>1. PICK k \in 1 .. Len(entries) : k = Len(entries) - i /\ k - 1 = Len(entries) - (i + 1)
      OBVIOUS
    <2>2. Behind(k)
      BY <1>3, <2>1
    <2> HIDE DEF Behind
    <2> QED
      BY <1>2, <2>1, <2>2
  <1> HIDE DEF S
  <1>4. \A i \in Nat : i \in S
    BY <1>1, <1>3, NumbersIn
  <1>5. ASSUME NEW k \in 1 .. Len(entries)
        PROVE  Behind(k)
    <2>1. PICK i \in Nat : k = Len(entries) - i /\ i <= Len(entries)
      <3>1. Len(entries) - k \in Nat /\ k = Len(entries) - (Len(entries) - k)
            /\ Len(entries) - k <= Len(entries)
        OBVIOUS
      <3> QED
        BY <3>1
    <2>2. i \in S
      BY <1>4
    <2> HIDE DEF Behind
    <2> QED
      BY <2>1, <2>2 DEF S
  <1> HIDE DEF Behind
  <1> QED
    BY <1>2, <1>5

\* All parts of an archive that pack() writes lie in it in their order.
LEMMA PackedLies ==
    ASSUME Stored
    PROVE  /\ Packed \in Seq(Byte)
           /\ Len(Packed) = EntryStart(Len(entries)) + Len(chunks)
           /\ HeaderLength <= Len(Packed) /\ EntriesStart <= Len(Packed)
           /\ Lies(0, Packed) =>
                 /\ HeaderLength <= Len(archive) =>
                       \A k \in 1 .. Len(Magic) + 1 : archive[k] = (Magic \o <<Version>>)[k]
                 /\ Lies(HeaderLength, WriteVarint[Len(entries)])
                 /\ \A k \in 1 .. Len(entries) : Lies(EntryStart(k - 1), WriteEntry(entries[k]))
                 /\ Lies(EntryStart(Len(entries)), chunks)
  <1>1. entries \in Seq(Entry) /\ chunks \in Seq(Byte) /\ Len(entries) \in Nat
    BY DEF Stored
  <1>2. PICK flags \in Byte :
           flags = ArchiveFlags(\E i \in DOMAIN files : files[i].compressed,
                                \E i \in DOMAIN files : files[i].kind # "plain")
    BY FlagBytes
  <1>3. PICK last \in Seq(Byte) : last = <<Version, Coded[flags]>>
                                  /\ Len(last) = 2 /\ last[1] = Version
    <2>1. PICK x, y \in Byte : x = Version /\ y = Coded[flags]
      BY ContainerAssumption, CodedByte
    <2>2. <<x, y>> \in Seq(Byte) /\ Len(<<x, y>>) = 2 /\ <<x, y>>[1] = x
      OBVIOUS
    <2> QED
      BY <2>1, <2>2, Zenon
  <1>4. PICK m, h, c, es, hi \in Seq(Byte) :
           /\ m = Magic /\ h = m \o last /\ c = WriteVarint[Len(entries)]
           /\ es = WriteEntries(entries) /\ hi = h \o (c \o es)
           /\ c \o es \in Seq(Byte)
    <2>1. /\ Magic \in Seq(Byte) /\ WriteVarint[Len(entries)] \in Seq(Byte)
          /\ WriteEntries(entries) \in Seq(Byte)
      BY <1>1, VarintBytes, EntriesOfNone, ContainerAssumption
    <2>2. Magic \o last \in Seq(Byte)
      BY <2>1, ConcatBytes, Zenon
    <2>3. WriteVarint[Len(entries)] \o WriteEntries(entries) \in Seq(Byte)
      BY <2>1, ConcatBytes, Zenon
    <2>4. (Magic \o last) \o (WriteVarint[Len(entries)] \o WriteEntries(entries)) \in Seq(Byte)
      BY <2>2, <2>3, ConcatBytes, Zenon
    <2> QED
      BY <2>1, <2>2, <2>3, <2>4, Zenon
  <1>5. Packed = hi \o chunks
    BY <1>2, <1>3, <1>4, Zenon DEF Packed, WriteHeader, WriteIndex
  <1>6. /\ Len(h) = Len(m) + Len(last) /\ Len(c \o es) = Len(c) + Len(es)
        /\ Len(hi) = Len(h) + Len(c \o es)
        /\ hi \o chunks \in Seq(Byte) /\ Len(hi \o chunks) = Len(hi) + Len(chunks)
    BY <1>1, <1>4, ConcatBytes, ZenonT(60)
  <1>7. /\ HeaderLength = Len(h) /\ EntriesStart = Len(h) + Len(c)
        /\ EntryStart(Len(entries)) = Len(hi)
    <2>1. HeaderLength = Len(h)
      BY <1>3, <1>4, <1>6 DEF HeaderLength
    <2>2. EntriesStart = Len(h) + Len(c)
      BY <1>4, <2>1, Zenon DEF EntriesStart
    <2>3. SubSeq(entries, 1, Len(entries)) = entries
      BY <1>1, EntriesOfNone
    <2>4. EntryStart(Len(entries)) = EntriesStart + Len(es)
      BY <1>4, <2>3, Zenon DEF EntryStart
    <2> QED
      BY <1>6, <2>1, <2>2, <2>4
  <1>8. ASSUME Lies(0, Packed)
        PROVE  /\ Lies(0, h) /\ Lies(HeaderLength, c) /\ Lies(EntriesStart, es)
               /\ Lies(EntryStart(Len(entries)), chunks)
    <2>1. Lies(0, hi) /\ Lies(0 + Len(hi), chunks)
      BY <1>1, <1>5, <1>8, LiesApart
    <2>2. Lies(0, h) /\ Lies(0 + Len(h), c \o es)
      BY <1>4, <2>1, LiesApart
    <2>3. 0 + Len(h) = HeaderLength /\ HeaderLength \in Nat /\ 0 + Len(hi) = EntryStart(Len(entries))
          /\ HeaderLength + Len(c) = EntriesStart
      BY <1>7
    <2>4. Lies(HeaderLength, c) /\ Lies(HeaderLength + Len(c), es)
      BY <2>2, <2>3, LiesApart, Zenon
    <2> QED
      BY <2>1, <2>2, <2>3, <2>4, Zenon
  <1>9. ASSUME Lies(0, Packed), HeaderLength <= Len(archive), NEW k \in 1 .. Len(Magic) + 1
        PROVE  archive[k] = (Magic \o <<Version>>)[k]
    <2>1. PICK n \in Nat : n = Len(m) /\ n = Len(Magic) /\ k \in 1 .. n + 1
      BY <1>4
    <2>2. k \in 1 .. Len(h) /\ 0 + k <= Len(archive) /\ 0 + k = k
      BY <1>3, <1>6, <1>7, <1>9, <2>1
    <2>3. archive[k] = h[k]
      BY <1>8, <1>9, <2>2 DEF Lies
    <2>4. PICK v \in Seq(Byte) : v = <<Version>> /\ Len(v) = 1 /\ v[1] = Version
      BY ContainerAssumption, OneByte
    <2>5. /\ \A j \in 1 .. n : h[j] = m[j] /\ (m \o v)[j] = m[j]
          /\ h[n + 1] = Version /\ (m \o v)[n + 1] = Version
      <3>1. /\ \A j \in 1 .. Len(m) : (m \o last)[j] = m[j] /\ (m \o v)[j] = m[j]
            /\ \A j \in 1 .. Len(last) : (m \o last)[Len(m) + j] = last[j]
            /\ \A j \in 1 .. Len(v) : (m \o v)[Len(m) + j] = v[j]
        <4>1. /\ \A j \in 1 .. Len(m) : (m \o last)[j] = m[j]
              /\ \A j \in 1 .. Len(last) : (m \o last)[Len(m) + j] = last[j]
          BY ConcatBytes, Zenon
        <4>2. /\ \A j \in 1 .. Len(m) : (m \o v)[j] = m[j]
              /\ \A j \in 1 .. Len(v) : (m \o v)[Len(m) + j] = v[j]
          BY ConcatBytes, Zenon
        <4> QED
          BY <4>1, <4>2, Zenon
      <3>2. 1 \in 1 .. Len(last) /\ 1 \in 1 .. Len(v)
        BY <1>3, <2>4
      <3>3. h[n + 1] = last[1] /\ (m \o v)[n + 1] = v[1]
        BY <1>4, <2>1, <3>1, <3>2, Zenon
      <3>4. \A j \in 1 .. n : h[j] = m[j] /\ (m \o v)[j] = m[j]
        BY <1>4, <2>1, <3>1, Zenon
      <3> QED
        BY <1>3, <2>4, <3>3, <3>4, Zenon
    <2>6. h[k] = (m \o v)[k]
      <3>1. k \in 1 .. n \/ k = n + 1
        BY <2>1
      <3> QED
        BY <2>5, <3>1, Zenon
    <2> QED
      BY <1>4, <2>3, <2>4, <2>6
  <1>10. Lies(0, Packed) =>
            \A k \in 1 .. Len(entries) : Lies(EntryStart(k - 1), WriteEntry(entries[k]))
    BY <1>1, <1>4, <1>8, EntriesLie, Zenon
  <1>11. /\ Packed \in Seq(Byte) /\ Len(Packed) = EntryStart(Len(entries)) + Len(chunks)
         /\ HeaderLength <= Len(Packed) /\ EntriesStart <= Len(Packed)
    <2>1. PICK x, y, z, t \in Nat : x = Len(h) /\ y = Len(c) /\ z = Len(es) /\ t = Len(chunks)
      BY <1>1
    <2>2. Len(hi) = x + (y + z) /\ Len(hi \o chunks) = x + (y + z) + t
      BY <1>6, <2>1
    <2>3. HeaderLength = x /\ EntriesStart = x + y
      BY <1>7, <2>1
    <2> QED
      BY <1>5, <1>6, <1>7, <2>1, <2>2, <2>3
  <1> QED
    BY <1>4, <1>8, <1>9, <1>10, <1>11, Zenon

-----------------------------------------------------------------------------
(* Reading a packed archive back.                                          *)

\* The archive is what pack() wrote, or a part of it.
ArchiveWritten ==
    /\ Stored /\ Len(entries) = Len(files) /\ Len(chunks) \in Size
    /\ archive \in Seq(Byte) /\ Lies(0, Packed)
    /\ cut => Len(archive) < Len(Packed)
    /\ ~cut => Len(archive) = Len(Packed)

\* Nothing has been read of it.
Unread ==
    /\ index = <<>> /\ pending = <<>> /\ name_storage = <<>> /\ disk = <<>>
    /\ chunk_end = 0

\* A pending entry, and what it says of entry e.
Row ==
    [offset : Nat, packed_size : Nat, original_size : Nat, flags : Byte,
     start : Nat, length : Nat]

RowReads(r, e) ==
    /\ r.offset = e.offset /\ r.packed_size = e.packed_size
    /\ r.original_size = e.original_size /\ r.flags = e.flags
    /\ r.start + r.length <= Len(name_storage) /\ NameOf(r) = e.name
    /\ Len(e.name) \in 1 .. MaxNameLength

\* The first k entries have been read.
RowsRead(rows, k) ==
    /\ name_storage \in Seq(Byte)
    /\ rows \in Seq(Row) /\ Len(rows) = k
    /\ \A i \in 1 .. k : RowReads(rows[i], entries[i])

\* What is known before each action that reads.
AtCount == position = HeaderLength /\ Unread

AtEntries ==
    /\ count = Len(entries) /\ count <= MaxEntries
    /\ next \in 1 .. Len(entries) + 1
    /\ position = EntryStart(next - 1)
    /\ RowsRead(pending, next - 1)
    /\ disk = <<>> /\ chunk_end = 0

IndexRead ==
    /\ Len(entries) <= MaxEntries
    /\ next \in 1 .. Len(entries) + 1
    /\ position = EntryStart(Len(entries))
    /\ RowsRead(index, Len(entries))

AtScan ==
    /\ IndexRead /\ disk = <<>>
    /\ chunk_end \in 0 .. Len(chunks)
    /\ next = Len(entries) + 1 => chunk_end = Len(chunks)

\* Of the files to be written, those in front of the m-th of entry k.
Reached(k, m) == {w \in Due : Before(w, <<k, m>>)}

\* They are on disk, of each path the last one, and none is in the way of another.
OnDisk(done) ==
    /\ \A v, w \in done : ~IsAbove(PathDue(v), PathDue(w))
    /\ DOMAIN disk = {PathDue(w) : w \in done}
    /\ disk = [path \in DOMAIN disk |-> disk[path]]
    /\ \A path \in DOMAIN disk :
          \E w \in done :
             /\ PathDue(w) = path /\ disk[path] = Content(w[1], w[2])
             /\ \A v \in done : PathDue(v) = path => v = w \/ Before(v, w)

Extracted(k, m) ==
    /\ k \in DOMAIN files => m \in 1 .. Len(Members(files[k])) + 1
    /\ k \notin DOMAIN files => m = 1
    /\ \A i \in 1 .. k - 1 : Extracts(files[i])
    /\ OnDisk(Reached(k, m))

AtExtract == IndexRead /\ ~cut /\ chunk_end = Len(chunks) /\ Extracted(next, member)

\* What PackedComesBack says of the end.
Outcome ==
    /\ unpacked = "ok" =>
          /\ Extractable
          /\ disk = [path \in {PathDue(w) : w \in Due} |->
                       Content(LastOf(path)[1], LastOf(path)[2])]
    /\ Extractable /\ (\A i \in DOMAIN files : files[i].kind # "overrun") => unpacked = "ok"

\* Or before the first file.
Refused == (cut \/ ~WithinLimits) /\ disk = <<>>

AtDone == Refused \/ (~cut /\ WithinLimits /\ Outcome)

Phase ==
    /\ pc \in {"header", "count", "entries", "scan", "extract", "done"}
    /\ pc = "header" => Unread
    /\ pc = "count" => AtCount
    /\ pc = "entries" => AtEntries
    /\ pc = "scan" => AtScan
    /\ pc = "extract" => AtExtract
    /\ pc = "done" => AtDone

\* Bytes that agree one by one are the same.
LEMMA SameBytes ==
    ASSUME NEW a \in Seq(Byte), NEW b \in Seq(Byte), Len(a) = Len(b),
           \A k \in 1 .. Len(a) : a[k] = b[k]
    PROVE  a = b
  BY SeqEqual

\* A part of the bytes.
LEMMA PartIs ==
    ASSUME NEW s \in Seq(Byte), NEW i \in Nat, NEW l \in Nat, i + l <= Len(s)
    PROVE  /\ SubSeq(s, i + 1, i + l) \in Seq(Byte) /\ Len(SubSeq(s, i + 1, i + l)) = l
           /\ \A k \in 1 .. l : SubSeq(s, i + 1, i + l)[k] = s[i + k]
  OBVIOUS

\* A part of the first of two, or all of the second.
LEMMA PartOfConcat ==
    ASSUME NEW s \in Seq(Byte), NEW t \in Seq(Byte), NEW i \in Nat, NEW l \in Nat
    PROVE  /\ i + l <= Len(s) => SubSeq(s \o t, i + 1, i + l) = SubSeq(s, i + 1, i + l)
           /\ SubSeq(s \o t, Len(s) + 1, Len(s) + Len(t)) = t
  <1>1. PICK u, m, n : u = s \o t /\ m = Len(s) /\ n = Len(t)
    OBVIOUS
  <1>2. /\ u \in Seq(Byte) /\ Len(u) = m + n /\ m \in Nat /\ n \in Nat
        /\ \A k \in 1 .. m : u[k] = s[k]
        /\ \A k \in 1 .. n : u[m + k] = t[k]
    BY <1>1, ConcatBytes
  <1>3. ASSUME i + l <= m
        PROVE  SubSeq(u, i + 1, i + l) = SubSeq(s, i + 1, i + l)
    <2>1. PICK a, b : a = SubSeq(u, i + 1, i + l) /\ b = SubSeq(s, i + 1, i + l)
      OBVIOUS
    <2>2. a \in Seq(Byte) /\ Len(a) = l /\ \A k \in 1 .. l : a[k] = u[i + k]
      BY <1>2, <1>3, <2>1, PartIs
    <2>3. b \in Seq(Byte) /\ Len(b) = l /\ \A k \in 1 .. l : b[k] = s[i + k]
      BY <1>1, <1>3, <2>1, PartIs
    <2>4. \A k \in 1 .. l : i + k \in 1 .. m
      BY <1>2, <1>3
    <2>5. \A k \in 1 .. l : a[k] = b[k]
      BY <1>2, <2>2, <2>3, <2>4
    <2>6. a = b
      BY <2>2, <2>3, <2>5, SameBytes
    <2> QED
      BY <2>1, <2>6
  <1>4. SubSeq(u, m + 1, m + n) = t
    <2>1. PICK a : a = SubSeq(u, m + 1, m + n)
      OBVIOUS
    <2>2. a \in Seq(Byte) /\ Len(a) = n /\ \A k \in 1 .. n : a[k] = u[m + k]
      BY <1>2, <2>1
    <2>3. a = t
      BY <1>1, <1>2, <2>2, SameBytes
    <2> QED
      BY <2>1, <2>3
  <1> QED
    BY <1>1, <1>3, <1>4

\* The bytes w behind p are all there.
LEMMA WholePart ==
    ASSUME archive \in Seq(Byte), NEW p \in Nat, NEW w \in Seq(Byte), Lies(p, w),
           p + Len(w) <= Len(archive)
    PROVE  SubSeq(archive, p + 1, p + Len(w)) = w
  <1>1. PICK n \in Nat : n = Len(w)
    OBVIOUS
  <1>2. \A k \in 1 .. n : p + k <= Len(archive)
    BY <1>1
  <1>3. Holds(p, w)
    BY <1>1, <1>2 DEF Holds, Lies
  <1> QED
    BY <1>3, HoldsSubSeq

\* What is written and was not cut is all there.
LEMMA NotCut ==
    ASSUME ArchiveWritten
    PROVE  /\ HeaderLength \in Nat /\ EntriesStart \in Nat
           /\ \A k \in 0 .. Len(entries) : EntryStart(k) \in Nat
           /\ ~cut => /\ HeaderLength <= Len(archive) /\ EntriesStart <= Len(archive)
                      /\ \A k \in 0 .. Len(entries) : EntryStart(k) <= Len(archive)
           /\ EntryStart(Len(entries)) + Len(chunks) <= Len(archive) => ~cut
  <1>1. entries \in Seq(Entry) /\ Len(entries) \in Nat /\ Len(chunks) \in Nat /\ Len(archive) \in Nat
    BY DEF ArchiveWritten, Stored
  <1>2. /\ HeaderLength \in Nat /\ EntriesStart \in Nat
        /\ \A k \in 0 .. Len(entries) : EntryStart(k) \in Nat
        /\ \A k \in 0 .. Len(entries) : EntryStart(k) <= EntryStart(Len(entries))
    BY <1>1, EntryStarts
  <1>3. /\ Len(Packed) = EntryStart(Len(entries)) + Len(chunks)
        /\ HeaderLength <= Len(Packed) /\ EntriesStart <= Len(Packed)
    BY PackedLies DEF ArchiveWritten
  <1>4. /\ cut => Len(archive) < Len(Packed)
        /\ ~cut => Len(archive) = Len(Packed)
    BY DEF ArchiveWritten
  <1>5. ASSUME NEW k \in 0 .. Len(entries), ~cut
        PROVE  EntryStart(k) <= Len(archive)
    <2>1. PICK x, y, z \in Nat : x = EntryStart(k) /\ y = EntryStart(Len(entries)) /\ z = Len(chunks)
                                 /\ x <= y /\ Len(archive) = y + z
      <3>1. Len(entries) \in 0 .. Len(entries)
        BY <1>1
      <3> QED
        BY <1>1, <1>2, <1>3, <1>4, <1>5, <3>1
    <2> QED
      BY <2>1
  <1>6. ASSUME cut
        PROVE  ~(EntryStart(Len(entries)) + Len(chunks) <= Len(archive))
    <2>1. PICK y, z \in Nat : y = EntryStart(Len(entries)) /\ z = Len(chunks)
      <3>1. Len(entries) \in 0 .. Len(entries)
        BY <1>1
      <3> QED
        BY <1>1, <1>2, <3>1
    <2>2. Len(archive) < y + z
      BY <1>3, <1>4, <1>6, <2>1
    <2> QED
      BY <1>1, <2>1, <2>2
  <1> QED
    BY <1>2, <1>3, <1>4, <1>5, <1>6, Zenon

\* The header that was written is read, and what is cut in it is refused.
LEMMA HeaderStep ==
    ASSUME ArchiveWritten, Unread, ParseHeader
    PROVE  \/ pc' = "count" /\ AtCount'
           \/ pc' = "done" /\ Refused'
  <1>1. archive \in Seq(Byte) /\ Len(archive) \in Nat
    BY DEF ArchiveWritten
  <1>2. CASE HeaderLength <= Len(archive)
    <2>1. PICK w : w = Magic \o <<Version>>
      OBVIOUS
    <2>2. w \in Seq(Byte) /\ Len(w) = Len(Magic) + 1
      <3>1. <<Version>> \in Seq(Byte) /\ Len(<<Version>>) = 1 /\ Magic \in Seq(Byte)
        BY ContainerAssumption, OneByte
      <3> QED
        BY <2>1, <3>1, ConcatBytes
    <2>3. \A k \in 1 .. Len(w) : archive[k] = w[k]
      BY <1>2, <2>1, <2>2, PackedLies DEF ArchiveWritten
    <2>4. Lies(0, w) /\ 0 + Len(w) <= Len(archive)
      BY <1>1, <1>2, <2>2, <2>3, ContainerAssumption DEF Lies, HeaderLength
    <2>5. SubSeq(archive, 0 + 1, 0 + Len(w)) = w
      BY <1>1, <2>2, <2>4, WholePart
    <2>6. SubSeq(archive, 1, Len(Magic) + 1) = Magic \o <<Version>>
      BY <2>1, <2>2, <2>5
    <2>7. pc' = "count" /\ position' = HeaderLength /\ UNCHANGED <<chunk_end, indexVars, disk>>
      BY <1>2, <2>6 DEF ParseHeader, HeaderLength, ReaderUnchanged
    <2>8. AtCount'
      BY <2>7 DEF AtCount, HeaderLength, Unread, indexVars
    <2> QED
      BY <2>7, <2>8
  <1>3. CASE ~(HeaderLength <= Len(archive))
    <2>1. UnpackFails /\ ReaderUnchanged
      BY <1>3 DEF ParseHeader, HeaderLength
    <2>2. cut
      BY <1>3, NotCut
    <2> QED
      BY <2>1, <2>2 DEF UnpackFails, ReaderUnchanged, Refused, Unread
  <1> QED
    BY <1>2, <1>3

\* The number of entries is read as it was written (index.cc:14).
LEMMA CountStep ==
    ASSUME ArchiveWritten, AtCount, ParseCount
    PROVE  \/ pc' = "entries" /\ AtEntries'
           \/ pc' = "done" /\ Refused'
  <1>1. archive \in Seq(Byte) /\ Len(archive) \in Nat /\ entries \in Seq(Entry)
        /\ Len(entries) \in Nat /\ Len(entries) \in Size
    <2>1. /\ archive \in Seq(Byte) /\ Len(archive) \in Nat /\ entries \in Seq(Entry)
          /\ Len(entries) \in Nat /\ Len(entries) <= Len(chunks) /\ Len(chunks) \in Size
      BY DEF ArchiveWritten, Stored
    <2> QED
      BY <2>1, SizeNumber, VarintAssumption DEF Size
  <1>2. HeaderLength \in Nat /\ EntriesStart = HeaderLength + Len(WriteVarint[Len(entries)])
    BY NotCut DEF EntriesStart
  <1>3. Yields(ReadVarint(HeaderLength), Len(entries), HeaderLength, Len(WriteVarint[Len(entries)]))
    <2>1. Lies(HeaderLength, WriteVarint[Len(entries)])
      BY PackedLies DEF ArchiveWritten
    <2> QED
      BY <1>1, <1>2, <2>1, ReadsVarint
  <1> PICK read : read = ReadVarint(HeaderLength)
    OBVIOUS
  <1>4. /\ EntriesStart <= Len(archive) => read = Read(Len(entries), EntriesStart)
        /\ ~(EntriesStart <= Len(archive)) => ~read.ok
    BY <1>2, <1>3 DEF Yields
  <1>5. position = HeaderLength /\ Unread
    BY DEF AtCount
  <1>6. CASE CountAccepted(read)
    <2>1. read = Read(Len(entries), EntriesStart)
      BY <1>4, <1>6 DEF CountAccepted
    <2>2. read.value = Len(entries) /\ read.end = EntriesStart
      BY <2>1 DEF Read
    <2>3. /\ pc' = "entries" /\ count' = Len(entries) /\ position' = EntriesStart /\ next' = 1
          /\ UNCHANGED <<chunk_end, pending, name_storage>> /\ ReaderUnchanged
      BY <1>5, <1>6, <2>2 DEF ParseCount
    <2>4. Len(entries) <= MaxEntries
      BY <1>6, <2>2 DEF CountAccepted
    <2>5. entries' = entries /\ disk' = disk
      BY <2>3 DEF ReaderUnchanged, packVars
    <2>6. EntryStart(0)' = EntriesStart
      BY <1>1, <2>5, EntryStarts DEF EntryStart, EntriesStart, HeaderLength
    <2>7. RowsRead(pending, 0)'
      <3>1. pending' = <<>> /\ name_storage' = <<>>
        BY <1>5, <2>3 DEF Unread
      <3> QED
        BY <3>1 DEF RowsRead
    <2>8. next' - 1 = 0 /\ next' \in 1 .. Len(entries) + 1
      BY <1>1, <2>3
    <2>9. disk' = <<>> /\ chunk_end' = 0
      BY <1>5, <2>3, <2>5 DEF Unread
    <2>10. EntryStart(next - 1)' = EntriesStart /\ RowsRead(pending, next - 1)'
      <3>1. (next - 1)' = 0
        BY <2>8
      <3> QED
        BY <2>6, <2>7, <3>1 DEF EntryStart, RowsRead
    <2> QED
      BY <2>3, <2>4, <2>5, <2>8, <2>9, <2>10 DEF AtEntries
  <1>7. CASE ~CountAccepted(read)
    <2>1. UnpackFails /\ ReaderUnchanged
      BY <1>5, <1>7 DEF ParseCount
    <2>2. cut \/ ~WithinLimits
      <3> SUFFICES ASSUME ~cut
                   PROVE  ~WithinLimits
        OBVIOUS
      <3>1. read.ok /\ read.value = Len(entries)
        BY <1>4, NotCut DEF Read
      <3>2. ~(Len(entries) <= MaxEntries)
        BY <1>7, <3>1 DEF CountAccepted
      <3> QED
        BY <3>2 DEF WithinLimits, ArchiveWritten
    <2>3. UNCHANGED <<cut, files, disk>>
      BY <2>1 DEF ReaderUnchanged, packVars
    <2>4. Refused'
      BY <1>5, <2>2, <2>3 DEF Refused, Unread, WithinLimits
    <2> QED
      BY <2>1, <2>4 DEF UnpackFails
  <1> QED
    BY <1>6, <1>7

\* Every entry is read as it was written (index.cc:39), or the archive was cut.
LEMMA EntryStep ==
    ASSUME ArchiveWritten, AtEntries, ParseEntry
    PROVE  \/ pc' = "entries" /\ AtEntries'
           \/ pc' = "done" /\ Refused'
  <1>1. archive \in Seq(Byte) /\ Stored /\ entries \in Seq(Entry) /\ Len(chunks) \in Size
    BY DEF ArchiveWritten, Stored
  <1>2. PICK k \in 1 .. Len(entries) :
           k = next /\ position = EntryStart(k - 1) /\ RowsRead(pending, k - 1)
    BY <1>1 DEF AtEntries, ParseEntry
  <1>3. PICK e : e = entries[k] /\ SizedEntry(e) /\ e \in Entry /\ e.name \in Seq(Byte)
                 /\ Len(e.name) \in Nat
    <2>1. SizedEntry(entries[k])
      BY <1>1, StoredEntry, Zenon
    <2> QED
      BY <2>1 DEF SizedEntry, Entry
  <1>4. PICK p \in Nat : p = position
    <2>1. k - 1 \in 0 .. Len(entries)
      OBVIOUS
    <2> QED
      BY <1>2, <2>1, NotCut
  <1>5. EntryStart(k) = p + Len(WriteEntry(e)) /\ EntryStart(k) \in Nat
    BY <1>1, <1>2, <1>3, <1>4, EntryStarts
  <1>6. Lies(p, WriteEntry(e))
    BY <1>1, <1>2, <1>3, <1>4, PackedLies DEF ArchiveWritten
  <1> PICK offset, packed_size, original_size, flags, length :
         /\ offset = ReadVarint(position) /\ packed_size = VarintAfter(offset)
         /\ original_size = VarintAfter(packed_size) /\ flags = ByteAfter(original_size)
         /\ length = VarintAfter(flags)
    OBVIOUS
  <1>7. PICK n \in Nat :
           /\ Len(WriteEntry(e)) = n + Len(e.name)
           /\ Yields(length, Len(e.name), p, n)
           /\ Lies(p + n, e.name)
           /\ length.ok => /\ offset.value = e.offset
                           /\ packed_size.value = e.packed_size
                           /\ original_size.value = e.original_size
                           /\ Coded[flags.value] = e.flags
    <2>1. EntryReads(p, offset, packed_size, original_size, flags, length)
      BY <1>4 DEF EntryReads
    <2>2. SizedEntry(e)
      BY <1>3
    <2>3. archive \in Seq(Byte)
      BY <1>1
    <2> QED
      BY <1>6, <2>1, <2>2, <2>3, ReadsEntry
  <1> DEFINE accepted == LengthAccepted(length) /\ length.end + length.value <= Len(archive)
  <1>8. /\ p + n <= Len(archive) => length = Read(Len(e.name), p + n)
        /\ ~(p + n <= Len(archive)) => ~length.ok
    BY <1>7 DEF Yields
  <1>9. EntryStart(k) = (p + n) + Len(e.name)
    <2>1. PICK l \in Nat : l = Len(e.name)
      BY <1>3
    <2>2. EntryStart(k) = p + (n + l) /\ p \in Nat /\ n \in Nat
      BY <1>5, <1>7, <2>1
    <2>3. EntryStart(k) = (p + n) + l
      BY <2>2
    <2> QED
      BY <2>1, <2>3
  <1>10. CASE accepted
    <2>1. length.ok /\ length = Read(Len(e.name), p + n)
      BY <1>8, <1>10 DEF LengthAccepted
    <2>2. length.value = Len(e.name) /\ length.end = p + n
      BY <2>1 DEF Read
    <2>3. Len(e.name) \in 1 .. MaxNameLength /\ (p + n) + Len(e.name) <= Len(archive)
      BY <1>10, <2>2 DEF LengthAccepted
    <2>4. SubSeq(archive, (p + n) + 1, (p + n) + Len(e.name)) = e.name
      BY <1>1, <1>3, <1>7, <2>3, WholePart
    <2> PICK row : row = [offset |-> e.offset, packed_size |-> e.packed_size,
                          original_size |-> e.original_size, flags |-> e.flags,
                          start |-> Len(name_storage), length |-> Len(e.name)]
      OBVIOUS
    <2>5. /\ pending' = Append(pending, row) /\ name_storage' = name_storage \o e.name
          /\ position' = (p + n) + Len(e.name) /\ next' = k + 1 /\ pc' = "entries"
          /\ UNCHANGED <<count, chunk_end>> /\ ReaderUnchanged
      <3>1. /\ pending' = Append(pending,
                   [offset |-> offset.value, packed_size |-> packed_size.value,
                    original_size |-> original_size.value, flags |-> Coded[flags.value],
                    start |-> Len(name_storage), length |-> length.value])
            /\ name_storage' = name_storage
                   \o SubSeq(archive, length.end + 1, length.end + length.value)
            /\ position' = length.end + length.value
            /\ next' = next + 1 /\ pc' = pc
            /\ UNCHANGED <<count, chunk_end>> /\ ReaderUnchanged
        BY <1>10, Zenon DEF ParseEntry
      <3>2. pc = "entries"
        BY DEF ParseEntry
      <3> QED
        BY <1>2, <1>7, <2>1, <2>2, <2>4, <3>1, <3>2
    <2>6. UNCHANGED <<entries, disk>>
      BY <2>5 DEF ReaderUnchanged, packVars
    <2>7. /\ name_storage \in Seq(Byte) /\ pending \in Seq(Row) /\ Len(pending) = k - 1
          /\ \A i \in 1 .. k - 1 : RowReads(pending[i], entries[i])
      BY <1>2 DEF RowsRead
    <2>8. /\ name_storage' \in Seq(Byte)
          /\ Len(name_storage') = Len(name_storage) + Len(e.name)
      BY <1>3, <2>5, <2>7, ConcatBytes
    <2>9. row \in Row
      <3>1. Len(name_storage) \in Nat
        BY <2>7
      <3> QED
        BY <1>3, <3>1 DEF Row, Entry
    <2>10. pending' \in Seq(Row) /\ Len(pending') = k /\ pending'[k] = row
           /\ \A i \in 1 .. k - 1 : pending'[i] = pending[i]
      BY <2>5, <2>7, <2>9
    <2>11. ASSUME NEW i \in 1 .. k - 1
           PROVE  RowReads(pending[i], entries[i])'
      <3>1. RowReads(pending[i], entries[i])
        BY <2>7
      <3>2. PICK r \in Row : r = pending[i] /\ r = pending'[i]
        BY <2>7, <2>10
      <3>3. r.start \in Nat /\ r.length \in Nat /\ r.start + r.length <= Len(name_storage)
        BY <3>1, <3>2 DEF RowReads, Row
      <3>4. SubSeq(name_storage \o e.name, r.start + 1, r.start + r.length)
              = SubSeq(name_storage, r.start + 1, r.start + r.length)
        <4>1. PICK i0, l0 \in Nat : i0 = r.start /\ l0 = r.length /\ i0 + l0 <= Len(name_storage)
          BY <3>3
        <4>2. PICK a, b \in Seq(Byte) : a = name_storage /\ b = e.name
          BY <1>3, <2>7
        <4>3. SubSeq(a \o b, i0 + 1, i0 + l0) = SubSeq(a, i0 + 1, i0 + l0)
          <5>1. i0 + l0 <= Len(a)
            BY <4>1, <4>2
          <5> QED
            BY <5>1, PartOfConcat, SMTT(60)
        <4> QED
          BY <4>1, <4>2, <4>3
      <3>5. r.start + r.length <= Len(name_storage')
        BY <1>3, <2>7, <2>8, <3>3
      <3>6. NameOf(r)' = NameOf(r)
        BY <2>5, <3>4 DEF NameOf
      <3> QED
        BY <2>6, <3>1, <3>2, <3>5, <3>6 DEF RowReads, NameOf
    <2>12. RowReads(row, e)'
      <3>1. SubSeq(name_storage \o e.name, Len(name_storage) + 1,
                   Len(name_storage) + Len(e.name)) = e.name
        <4>1. 0 \in Nat
          OBVIOUS
        <4> QED
          BY <1>3, <2>7, <4>1, PartOfConcat
      <3>2. row.start = Len(name_storage) /\ row.length = Len(e.name)
        OBVIOUS
      <3>3. NameOf(row)' = e.name
        BY <2>5, <3>1, <3>2 DEF NameOf
      <3>4. Len(name_storage) + Len(e.name) <= Len(name_storage')
        BY <1>3, <2>7, <2>8
      <3> QED
        BY <2>3, <3>2, <3>3, <3>4 DEF RowReads, NameOf
    <2>13. RowsRead(pending, k)'
      <3>1. ASSUME NEW i \in 1 .. k
            PROVE  RowReads(pending[i], entries[i])'
        <4>1. CASE i = k
          BY <1>3, <2>6, <2>10, <2>12, <4>1 DEF RowReads, NameOf
        <4>2. CASE i # k
          <5>1. i \in 1 .. k - 1
            BY <4>2
          <5> QED
            BY <2>11, <5>1
        <4> QED
          BY <4>1, <4>2
      <3> QED
        BY <2>8, <2>10, <3>1 DEF RowsRead
    <2>14. (p + n) + Len(e.name) = EntryStart(k) /\ (k + 1) - 1 = k
           /\ k + 1 \in 1 .. Len(entries) + 1
      <3>1. (k + 1) - 1 = k /\ k + 1 \in 1 .. Len(entries) + 1
        OBVIOUS
      <3> QED
        BY <1>9, <3>1
    <2>15. AtEntries'
      <3>1. (next - 1)' = k /\ position' = EntryStart(k) /\ next' \in 1 .. Len(entries) + 1
        BY <2>5, <2>14
      <3>2. EntryStart(next - 1)' = EntryStart(k) /\ RowsRead(pending, next - 1)'
        BY <2>6, <2>13, <3>1 DEF EntryStart, EntriesStart, HeaderLength, RowsRead
      <3> QED
        BY <2>5, <2>6, <3>1, <3>2 DEF AtEntries
    <2> QED
      BY <2>5, <2>15
  <1>11. CASE ~accepted
    <2>1. UnpackFails /\ ReaderUnchanged
      BY <1>11, Zenon DEF ParseEntry
    <2>2. cut \/ ~WithinLimits
      <3> SUFFICES ASSUME ~cut
                   PROVE  ~WithinLimits
        OBVIOUS
      <3>1. p + n + Len(e.name) <= Len(archive) /\ p + n <= Len(archive)
        <4>1. k \in 0 .. Len(entries)
          OBVIOUS
        <4>2. EntryStart(k) <= Len(archive)
          BY <4>1, NotCut
        <4> QED
          <5>1. PICK l, m \in Nat : l = Len(e.name) /\ m = Len(archive)
            BY <1>1, <1>3
          <5>2. (p + n) + l <= m
            BY <1>9, <4>2, <5>1
          <5>3. p + n + l <= m /\ p + n <= m
            BY <5>2
          <5> QED
            BY <5>1, <5>3
      <3>2. length = Read(Len(e.name), p + n)
        BY <1>8, <3>1
      <3>3. ~(Len(e.name) \in 1 .. MaxNameLength)
        <4>1. length.ok /\ length.value = Len(e.name) /\ length.end = p + n
          BY <3>2 DEF Read
        <4> QED
          BY <1>11, <3>1, <4>1 DEF LengthAccepted
      <3>4. PICK f \in Input : f = files[k] /\ k \in 1 .. Len(files)
                               /\ e.name = IF f.name = <<>> THEN Unnamed ELSE f.name
        BY <1>1, <1>3, StoredEntry
      <3>5. f.name # <<>> /\ e.name = f.name
        BY <3>3, <3>4, ContainerAssumption
      <3>6. f.name \in Seq(Byte) /\ Len(f.name) # 0 /\ Len(f.name) \in Nat
        BY <3>4, <3>5 DEF Input
      <3>7. MaxNameLength \in Nat
        BY SizeNumber, ContainerAssumption
      <3>8. ~(Len(files[k].name) <= MaxNameLength)
        BY <3>3, <3>4, <3>5, <3>6, <3>7
      <3>9. k \in DOMAIN files
        BY <1>1, <3>4 DEF Stored
      <3> QED
        BY <3>8, <3>9 DEF WithinLimits
    <2>3. UNCHANGED <<cut, files, disk>> /\ disk = <<>>
      BY <2>1 DEF ReaderUnchanged, packVars, AtEntries
    <2>4. Refused'
      BY <2>2, <2>3 DEF Refused, WithinLimits
    <2> QED
      BY <2>1, <2>4 DEF UnpackFails
  <1> QED
    BY <1>10, <1>11

\* The entries that parseIndex returns (index.cc:76) are those that were written.
LEMMA ViewsStep ==
    ASSUME ArchiveWritten, AtEntries, MakeViews
    PROVE  pc' = "scan" /\ AtScan'
  <1>1. Len(entries) \in Nat /\ next = Len(entries) + 1 /\ next - 1 = Len(entries)
    <2>1. Len(entries) \in Nat
      BY DEF ArchiveWritten, Stored
    <2> QED
      BY <2>1 DEF AtEntries, MakeViews
  <1>2. /\ index' = pending /\ pc' = "scan" /\ next' = 1
        /\ UNCHANGED <<name_storage, position, chunk_end, entries, chunks, disk>>
    BY DEF MakeViews, ReaderUnchanged, packVars
  <1>3. RowsRead(pending, Len(entries)) /\ position = EntryStart(Len(entries))
        /\ Len(entries) <= MaxEntries /\ disk = <<>> /\ chunk_end = 0
    BY <1>1 DEF AtEntries
  <1>4. RowsRead(index, Len(entries))'
    BY <1>2, <1>3 DEF RowsRead, RowReads, NameOf
  <1>5. EntryStart(Len(entries))' = EntryStart(Len(entries))
    BY <1>2 DEF EntryStart, EntriesStart, HeaderLength
  <1>6. IndexRead'
    <2>1. next' \in 1 .. Len(entries) + 1
      BY <1>1, <1>2
    <2> QED
      BY <1>2, <1>3, <1>4, <1>5, <2>1 DEF IndexRead
  <1>7. chunk_end' \in 0 .. Len(chunks)
        /\ (next' = Len(entries) + 1 => chunk_end' = Len(chunks))
    BY <1>1, <1>2, <1>3 DEF ArchiveWritten, Stored
  <1> QED
    BY <1>2, <1>3, <1>6, <1>7 DEF AtScan

\* The same behind a part of what lies there.
LEMMA LiesWithin ==
    ASSUME NEW p \in Nat, NEW w \in Seq(Byte), Lies(p, w), NEW i \in Nat, NEW c \in Seq(Byte),
           i + Len(c) <= Len(w), \A k \in 1 .. Len(c) : w[i + k] = c[k]
    PROVE  Lies(p + i, c)
  <1>1. PICK m, n \in Nat : m = Len(w) /\ n = Len(c)
    OBVIOUS
  <1>2. ASSUME NEW k \in 1 .. n, (p + i) + k <= Len(archive)
        PROVE  archive[(p + i) + k] = c[k]
    <2>1. (p + i) + k = p + (i + k) /\ i + k \in 1 .. m
      BY <1>1
    <2>2. archive[p + (i + k)] = w[i + k]
      BY <1>1, <1>2, <2>1 DEF Lies
    <2> QED
      BY <1>1, <2>1, <2>2
  <1> QED
    BY <1>1, <1>2, Zenon DEF Lies

\* The length of a chunk is read as it was written.
LEMMA ChunkLies ==
    ASSUME archive \in Seq(Byte), NEW p \in Nat, NEW f \in Input, Lies(p, ChunkOf(f)),
           p + Len(ChunkOf(f)) <= Len(archive), Len(f.payload) \in Size
    PROVE  VarintAfter(ByteAfter(Read(0, p)))
             = Read(Len(f.payload), p + (1 + Len(WriteVarint[Len(f.payload)])))
  <1>1. f.payload \in Seq(Byte) /\ Len(f.payload) \in Size /\ Len(f.payload) \in Nat
    BY SizeNumber DEF Input
  <1>2. PICK a, l \in Seq(Byte), b \in Byte :
           /\ b = Coded[EntryFlags(f.compressed, f.kind # "plain")] /\ a = <<b>>
           /\ l = WriteVarint[Len(f.payload)]
    <2>1. EntryFlags(f.compressed, f.kind # "plain") \in Byte
      BY FlagBytes
    <2>2. Coded[EntryFlags(f.compressed, f.kind # "plain")] \in Byte
      BY <2>1, CodedByte
    <2>3. WriteVarint[Len(f.payload)] \in Seq(Byte)
      BY <1>1, VarintBytes
    <2> QED
      BY <2>2, <2>3, OneByte, Zenon
  <1>3. ChunkOf(f) = (a \o l) \o f.payload
    BY <1>2, Zenon DEF ChunkOf
  <1>4. Len(a) = 1 /\ Len(l) \in Nat
    BY <1>2, OneByte
  <1>5. a \o l \in Seq(Byte) /\ Len(a \o l) = 1 + Len(l)
    <2>1. a \o l \in Seq(Byte) /\ Len(a \o l) = Len(a) + Len(l)
      BY ConcatBytes, Zenon
    <2> QED
      BY <1>4, <2>1
  <1>6. Len(ChunkOf(f)) = (1 + Len(l)) + Len(f.payload)
    <2>1. Len((a \o l) \o f.payload) = Len(a \o l) + Len(f.payload)
      BY <1>1, <1>5, ConcatBytes, Zenon
    <2> QED
      BY <1>3, <1>5, <2>1
  <1>7. Lies(p, a \o l)
    <2>1. PICK front \in Seq(Byte), payload \in Seq(Byte) : front = a \o l /\ payload = f.payload
      BY <1>1, <1>5
    <2>2. Lies(p, front \o payload)
      BY <1>3, <2>1
    <2>3. Lies(p, front)
      BY <2>2, LiesApart, Zenon
    <2> QED
      BY <2>1, <2>3
  <1>8. Lies(p, a) /\ Lies(p + 1, l)
    <2>1. Lies(p, a) /\ Lies(p + Len(a), l)
      BY <1>7, LiesApart, Zenon
    <2> QED
      BY <1>4, <2>1
  <1>9. ByteAfter(Read(0, p)) = ReadByte(p)
    BY DEF ByteAfter, Read
  <1>10. Yields(ReadByte(p), b, p, 1)
    BY <1>2, <1>8, ReadsByte, Zenon
  <1>11. Yields(VarintAfter(ReadByte(p)), Len(f.payload), p, 1 + Len(l))
    <2>1. Lies(p + 1, WriteVarint[Len(f.payload)])
      BY <1>2, <1>8
    <2>2. 1 \in Nat
      OBVIOUS
    <2> QED
      BY <1>1, <1>2, <1>10, <2>1, <2>2, ThenVarint, Zenon
  <1>12. p + (1 + Len(l)) <= Len(archive)
    <2>1. PICK x, y, z \in Nat : x = Len(l) /\ y = Len(f.payload) /\ z = Len(ChunkOf(f))
      <3>1. PICK x, y \in Nat : x = Len(l) /\ y = Len(f.payload)
        BY <1>1, <1>4
      <3>2. Len(ChunkOf(f)) = (1 + x) + y
        BY <1>6, <3>1, Zenon
      <3>3. (1 + x) + y \in Nat
        OBVIOUS
      <3> QED
        BY <3>1, <3>2, <3>3
    <2>2. PICK n \in Nat : n = Len(archive)
      OBVIOUS
    <2>3. z = (1 + x) + y /\ p + z <= n
      BY <1>6, <2>1, <2>2
    <2>4. p + (1 + x) <= n
      BY <2>3
    <2> QED
      BY <2>1, <2>2, <2>4
  <1> QED
    BY <1>2, <1>9, <1>11, <1>12 DEF Yields

\* A chunk is found to end where it ends (nested.cc:100), or the archive was cut.
LEMMA ChunkRead ==
    ASSUME ArchiveWritten, NEW i \in 1 .. Len(entries), NEW r,
           r.offset = entries[i].offset, r.packed_size = entries[i].packed_size,
           position = EntryStart(Len(entries))
    PROVE  /\ ChunkEnd(r) = ChunkEnd(entries[i])
           /\ ChunkEnd(r) \in 0 .. Len(chunks)
           /\ ~cut => ChunkAccepted(r)
  <1>1. /\ archive \in Seq(Byte) /\ Stored /\ Len(chunks) \in Size /\ chunks \in Seq(Byte)
        /\ Len(entries) \in Nat /\ Len(chunks) \in Nat /\ Len(archive) \in Nat
    BY DEF ArchiveWritten, Stored
  <1>2. PICK e \in Entry, f \in Input, start \in Nat :
           /\ e = entries[i] /\ f = files[i] /\ start = e.offset
           /\ e.packed_size = Len(f.payload)
           /\ ChunkEnd(e) = start + Len(ChunkOf(f)) /\ ChunkEnd(e) <= Len(chunks)
           /\ \A k \in 1 .. Len(ChunkOf(f)) : chunks[start + k] = ChunkOf(f)[k]
           /\ Len(f.payload) \in Size
    <2>1. /\ entries[i].offset \in Nat /\ files[i] \in Input
          /\ SizedEntry(entries[i])
          /\ entries[i].packed_size = Len(files[i].payload)
          /\ ChunkEnd(entries[i]) = entries[i].offset + Len(ChunkOf(files[i]))
          /\ ChunkEnd(entries[i]) <= Len(chunks)
      BY <1>1, StoredEntry, Zenon
    <2>2. \A k \in 1 .. Len(ChunkOf(files[i])) :
             chunks[entries[i].offset + k] = ChunkOf(files[i])[k]
      BY <1>1 DEF Stored
    <2>3. entries[i].packed_size \in Size /\ entries[i] \in Entry
      BY <2>1 DEF SizedEntry
    <2>4. PICK e \in Entry, f \in Input, start \in Nat :
             e = entries[i] /\ f = files[i] /\ start = entries[i].offset
      BY <2>1, <2>3
    <2>5. /\ start = e.offset /\ e.packed_size = Len(f.payload)
          /\ ChunkEnd(e) = start + Len(ChunkOf(f)) /\ ChunkEnd(e) <= Len(chunks)
          /\ Len(f.payload) \in Size
      BY <2>1, <2>3, <2>4
    <2>6. \A k \in 1 .. Len(ChunkOf(f)) : chunks[start + k] = ChunkOf(f)[k]
      BY <2>2, <2>4
    <2> QED
      BY <2>4, <2>5, <2>6
  <1>3. /\ ChunkOf(f) \in Seq(Byte) /\ Len(ChunkOf(f)) \in Nat
        /\ Len(ChunkOf(f)) = 1 + Len(WriteVarint[Len(f.payload)]) + Len(f.payload)
    BY <1>2, EntryOfFile
  <1>4. ChunkEnd(r) = ChunkEnd(e)
    BY <1>2 DEF ChunkEnd
  <1>5. ChunkEnd(r) \in 0 .. Len(chunks)
    <2>1. PICK c, m \in Nat : c = Len(ChunkOf(f)) /\ m = Len(chunks)
      BY <1>1, <1>3
    <2>2. start + c <= m /\ ChunkEnd(r) = start + c
      BY <1>2, <1>4, <2>1
    <2> QED
      BY <2>1, <2>2
  <1>6. PICK p \in Nat : p = position
    BY <1>1, NotCut
  <1>7. ASSUME ~cut
        PROVE  ChunkAccepted(r)
    <2>1. p + Len(chunks) <= Len(archive)
      <3>1. Len(archive) = Len(Packed)
        BY <1>7 DEF ArchiveWritten
      <3>2. Len(Packed) = EntryStart(Len(entries)) + Len(chunks)
        BY <1>1, PackedLies
      <3> QED
        BY <1>1, <1>6, <3>1, <3>2
    <2>2. Lies(p, chunks)
      BY <1>1, <1>6, PackedLies DEF ArchiveWritten
    <2>3. Lies(p + start, ChunkOf(f))
      <3>1. start + Len(ChunkOf(f)) <= Len(chunks)
        BY <1>2
      <3> QED
        BY <1>1, <1>2, <1>3, <2>2, <3>1, LiesWithin, Zenon
    <2>4. PICK c, l, m, n \in Nat :
             /\ c = Len(ChunkOf(f)) /\ l = Len(WriteVarint[Len(f.payload)])
             /\ m = Len(f.payload) /\ n = Len(archive) /\ c = 1 + l + m
             /\ (p + start) + c <= n
      <3>1. Len(f.payload) \in Nat
        BY DEF Input
      <3>2. Len(WriteVarint[Len(f.payload)]) \in Nat
        BY <3>1, VarintBytes
      <3>3. (p + start) + Len(ChunkOf(f)) <= Len(archive)
        <4>1. PICK c, h, n \in Nat : c = Len(ChunkOf(f)) /\ h = Len(chunks) /\ n = Len(archive)
          BY <1>1, <1>3
        <4>2. start + c <= h /\ p + h <= n
          BY <1>2, <2>1, <4>1
        <4>3. (p + start) + c <= n
          BY <4>2
        <4> QED
          BY <4>1, <4>3
      <3> QED
        BY <1>1, <1>3, <3>1, <3>2, <3>3
    <2>5. VarintAfter(ByteAfter(Read(0, p + start))) = Read(m, (p + start) + (1 + l))
      <3>1. (p + start) + Len(ChunkOf(f)) <= Len(archive) /\ p + start \in Nat
        <4>1. p + start \in Nat
          OBVIOUS
        <4> QED
          BY <2>4, <4>1
      <3>2. VarintAfter(ByteAfter(Read(0, p + start)))
              = Read(Len(f.payload), (p + start) + (1 + Len(WriteVarint[Len(f.payload)])))
        BY <1>1, <1>2, <2>3, <3>1, ChunkLies, Zenon
      <3> QED
        BY <2>4, <3>2, Zenon
    <2>6. ((p + start) + (1 + l)) + m <= n
      <3>1. c = 1 + l + m /\ (p + start) + c <= n
        BY <2>4
      <3> QED
        BY <3>1
    <2>7. r.offset = start /\ r.packed_size = m
      BY <1>2, <2>4
    <2>8. VarintAfter(ByteAfter(Read(0, position + r.offset))) = Read(m, (p + start) + (1 + l))
      BY <1>6, <2>5, <2>7
    <2>9. /\ Read(m, (p + start) + (1 + l)).ok
          /\ Read(m, (p + start) + (1 + l)).value = m
          /\ Read(m, (p + start) + (1 + l)).end = (p + start) + (1 + l)
      BY DEF Read
    <2> QED
      BY <2>4, <2>6, <2>7, <2>8, <2>9 DEF ChunkAccepted
  <1> QED
    BY <1>2, <1>4, <1>5, <1>7

\* What is to be written, and where, follows from the files and their entries.
LEMMA DueKept ==
    ASSUME UNCHANGED <<files, entries>>
    PROVE  /\ Due' = Due /\ (Extractable' <=> Extractable)
           /\ \A w : PathDue(w)' = PathDue(w)
           /\ \A k, m : Content(k, m)' = Content(k, m)
           /\ \A path : LastOf(path)' = LastOf(path)
           /\ \A i : Extracts(files[i])' <=> Extracts(files[i])
  <1>1. \A w : PathDue(w)' = PathDue(w)
    BY DEF PathDue, PathOf, Members, NestedDir, ExtensionStarts
  <1>2. Due' = Due
    BY DEF Due, Members
  <1>3. \A i : Extracts(files[i])' <=> Extracts(files[i])
    BY DEF Extracts
  <1>4. Extractable' <=> Extractable
    BY <1>1, <1>2, <1>3 DEF Extractable, PathsClash, IsAbove
  <1>5. \A path : LastOf(path)' = LastOf(path)
    BY <1>1, <1>2 DEF LastOf, Before
  <1> QED
    BY <1>1, <1>2, <1>3, <1>4, <1>5 DEF Content

\* A file to be written is one of those of an entry.
LEMMA DueIs ==
    ASSUME files \in Seq(Input)
    PROVE  /\ \A k \in DOMAIN files : Len(Members(files[k])) \in Nat
           /\ \A k \in DOMAIN files : \A m \in 1 .. Len(Members(files[k])) + 1 : <<k, m>> \in Due
           /\ \A w \in Due :
                 /\ w = <<w[1], w[2]>> /\ w[1] \in DOMAIN files /\ w[1] \in Nat
                 /\ w[2] \in 1 .. Len(Members(files[w[1]])) + 1 /\ w[2] \in Nat
  <1>1. ASSUME NEW k \in DOMAIN files
        PROVE  Members(files[k]) \in Seq(Seq(Byte)) /\ k \in Nat
    <2>1. files[k] \in Input /\ k \in Nat
      OBVIOUS
    <2>2. files[k].members \in Seq(Seq(Byte))
      BY <2>1 DEF Input
    <2> QED
      BY <2>1, <2>2 DEF Members
  <1>2. \A k \in DOMAIN files : Len(Members(files[k])) \in Nat
    BY <1>1
  <1>3. \A k \in DOMAIN files : \A m \in 1 .. Len(Members(files[k])) + 1 : <<k, m>> \in Due
    BY DEF Due
  <1>4. ASSUME NEW w \in Due
        PROVE  /\ w = <<w[1], w[2]>> /\ w[1] \in DOMAIN files /\ w[1] \in Nat
               /\ w[2] \in 1 .. Len(Members(files[w[1]])) + 1 /\ w[2] \in Nat
    <2>1. PICK k \in DOMAIN files : w \in {k} \X (1 .. Len(Members(files[k])) + 1)
      BY DEF Due
    <2>2. PICK m \in 1 .. Len(Members(files[k])) + 1 : w = <<k, m>>
      BY <2>1
    <2>3. k \in Nat /\ m \in Nat
      BY <1>1, <1>2
    <2> QED
      BY <2>2, <2>3
  <1> QED
    BY <1>2, <1>3, <1>4

\* The path of a file is made of bytes.
LEMMA PathBytes ==
    ASSUME NEW name \in Seq(Byte), NEW f \in Input, NEW m \in 1 .. Len(Members(f)) + 1
    PROVE  PathOf(name, f, m) \in Seq(Byte)
  <1>1. Members(f) \in Seq(Seq(Byte))
    BY DEF Members, Input
  <1>2. CASE m <= Len(Members(f))
    <2>1. Members(f)[m] \in Seq(Byte)
      BY <1>1, <1>2
    <2>2. <<Separator>> \in Seq(Byte)
      BY ContainerAssumption, OneByte
    <2>3. PICK stem \in Seq(Byte) : NestedDir(name) = stem \o DirExtension
      <3>1. CASE ExtensionStarts(name) = {}
        BY <3>1 DEF NestedDir
      <3>2. CASE ExtensionStarts(name) # {}
        <4>1. PICK c : c = CHOOSE i \in ExtensionStarts(name) : TRUE
          OBVIOUS
        <4>2. c \in 2 .. Len(name)
          <5>1. c \in ExtensionStarts(name)
            BY <3>2, <4>1
          <5> QED
            BY <5>1 DEF ExtensionStarts
        <4>3. SubSeq(name, 1, c - 1) \in Seq(Byte)
          BY <4>2
        <4> QED
          BY <3>2, <4>1, <4>3 DEF NestedDir
      <3> QED
        BY <3>1, <3>2
    <2>4. NestedDir(name) \in Seq(Byte)
      BY <2>3, ContainerAssumption, ConcatBytes
    <2>5. NestedDir(name) \o <<Separator>> \in Seq(Byte)
      BY <2>2, <2>4, ConcatBytes
    <2>6. NestedDir(name) \o <<Separator>> \o Members(f)[m] \in Seq(Byte)
      BY <2>1, <2>5, ConcatBytes
    <2> QED
      BY <1>2, <2>6 DEF PathOf
  <1>3. CASE ~(m <= Len(Members(f)))
    BY <1>3 DEF PathOf
  <1> QED
    BY <1>2, <1>3

\* Of the files written to one path there is a last one.
LEMMA LastIs ==
    ASSUME NEW path, NEW w \in Due, files \in Seq(Input), PathDue(w) = path,
           \A v \in Due : PathDue(v) = path => v = w \/ Before(v, w)
    PROVE  LastOf(path) = w
  <1> DEFINE IsLast(x) ==
        PathDue(x) = path /\ \A v \in Due : PathDue(v) = path => v = x \/ Before(v, x)
  <1>1. IsLast(w)
    OBVIOUS
  <1>2. ASSUME NEW x \in Due, IsLast(x)
        PROVE  x = w
    <2>1. (x = w \/ Before(x, w)) /\ (w = x \/ Before(w, x))
      BY <1>2
    <2>2. x[1] \in Nat /\ x[2] \in Nat /\ w[1] \in Nat /\ w[2] \in Nat
      BY DueIs
    <2>3. ~(Before(x, w) /\ Before(w, x))
      BY <2>2 DEF Before
    <2> QED
      BY <2>1, <2>3
  <1>3. LastOf(path) = CHOOSE x \in Due : IsLast(x)
    BY DEF LastOf
  <1> HIDE DEF IsLast
  <1>4. (CHOOSE x \in Due : IsLast(x)) \in Due /\ IsLast(CHOOSE x \in Due : IsLast(x))
    BY <1>1
  <1> QED
    BY <1>2, <1>3, <1>4

\* Before the first entry nothing is to be written, behind the last one no more.
LEMMA ReachedEnds ==
    ASSUME files \in Seq(Input)
    PROVE  Reached(1, 1) = {} /\ Reached(Len(files) + 1, 1) = Due
  <1>1. ASSUME NEW w \in Due
        PROVE  ~Before(w, <<1, 1>>) /\ Before(w, <<Len(files) + 1, 1>>)
    <2>1. w[1] \in 1 .. Len(files) /\ w[1] \in Nat /\ w[2] \in Nat /\ w[2] >= 1
      BY DueIs
    <2>2. PICK a, b, n \in Nat : a = w[1] /\ b = w[2] /\ n = Len(files)
      BY <2>1
    <2> QED
      BY <2>1, <2>2 DEF Before
  <1> QED
    BY <1>1 DEF Reached

\* One more file is reached with each that is written.
LEMMA ReachedNext ==
    ASSUME files \in Seq(Input), NEW k \in DOMAIN files,
           NEW m \in 1 .. Len(Members(files[k])) + 1
    PROVE  /\ m <= Len(Members(files[k])) =>
                 Reached(k, m + 1) = Reached(k, m) \cup {<<k, m>>}
           /\ m > Len(Members(files[k])) =>
                 Reached(k + 1, 1) = Reached(k, m) \cup {<<k, m>>}
           /\ \A v \in Reached(k, m) : Before(v, <<k, m>>)
           /\ <<k, m>> \in Due /\ Reached(k, m) \subseteq Due
  <1>1. <<k, m>> \in Due /\ k \in Nat /\ m \in Nat /\ Len(Members(files[k])) \in Nat
    BY DueIs
  <1>2. ASSUME NEW w \in Due
        PROVE  /\ Before(w, <<k, m + 1>>) <=> Before(w, <<k, m>>) \/ w = <<k, m>>
               /\ m > Len(Members(files[k])) =>
                     (Before(w, <<k + 1, 1>>) <=> Before(w, <<k, m>>) \/ w = <<k, m>>)
    <2>1. PICK a, b \in Nat :
             /\ w = <<a, b>> /\ a = w[1] /\ b = w[2] /\ b >= 1
             /\ a = k => b <= Len(Members(files[k])) + 1
      BY DueIs
    <2>2. PICK l \in Nat : l = Len(Members(files[k]))
      BY <1>1
    <2>3. w = <<k, m>> <=> a = k /\ b = m
      BY <2>1
    <2>4. Before(w, <<k, m + 1>>) <=> Before(w, <<k, m>>) \/ (a = k /\ b = m)
      BY <1>1, <2>1 DEF Before
    <2>5. ASSUME m > l
          PROVE  Before(w, <<k + 1, 1>>) <=> Before(w, <<k, m>>) \/ (a = k /\ b = m)
      BY <1>1, <2>1, <2>2, <2>5 DEF Before
    <2> QED
      BY <2>2, <2>3, <2>4, <2>5
  <1> QED
    BY <1>1, <1>2 DEF Reached

\* Before extraction begins, nothing is on disk, and nothing is due to be.
LEMMA NoneReached ==
    ASSUME files \in Seq(Input), UNCHANGED <<files, entries, disk>>, disk = <<>>
    PROVE  Extracted(1, 1)'
  <1>1. Reached(1, 1)' = {}
    BY ReachedEnds, DueKept DEF Reached
  <1>2. 1 \in DOMAIN files => (1 \in 1 .. Len(Members(files[1])) + 1)'
    <2>1. 1 \in DOMAIN files => Len(Members(files[1])) \in Nat
      BY DueIs
    <2> QED
      BY <2>1 DEF Members
  <1>3. DOMAIN disk' = {} /\ disk' = [path \in DOMAIN disk' |-> disk'[path]]
    OBVIOUS
  <1>4. OnDisk({})'
    BY <1>3 DEF OnDisk
  <1>5. OnDisk(Reached(1, 1))'
    BY <1>1, <1>4 DEF OnDisk
  <1>6. \A i \in 1 .. 1 - 1 : FALSE
    OBVIOUS
  <1> QED
    BY <1>2, <1>5, <1>6 DEF Extracted

\* One more file is on disk, unless it is in the way of another.
LEMMA OneMoreOnDisk ==
    ASSUME NEW done, NEW w, OnDisk(done), \A v \in done : Before(v, w),
           PathDue(w) \in Seq(Byte), Writable(PathDue(w)),
           disk' = Written(PathDue(w), Content(w[1], w[2])), UNCHANGED <<files, entries>>
    PROVE  OnDisk(done \cup {w})'
  <1>1. PICK p, c : p = PathDue(w) /\ c = Content(w[1], w[2])
    OBVIOUS
  <1>2. disk' = [q \in DOMAIN disk \cup {p} |-> IF q = p THEN c ELSE disk[q]]
    BY <1>1 DEF Written
  <1>3. /\ \A v : PathDue(v)' = PathDue(v)
        /\ \A k, m : Content(k, m)' = Content(k, m)
    BY DueKept
  <1>4. ASSUME NEW u \in done \cup {w}, NEW v \in done \cup {w}
        PROVE  ~IsAbove(PathDue(u), PathDue(v))
    <2>1. CASE u = w /\ v = w
      BY <2>1 DEF IsAbove
    <2>2. CASE u \in done /\ v = w
      <3>1. PathDue(u) \in DOMAIN disk
        BY <2>2 DEF OnDisk
      <3> QED
        BY <2>2, <3>1 DEF Writable
    <2>3. CASE u = w /\ v \in done
      <3>1. PathDue(v) \in DOMAIN disk
        BY <2>3 DEF OnDisk
      <3> QED
        BY <2>3, <3>1 DEF Writable
    <2>4. CASE u \in done /\ v \in done
      BY <2>4 DEF OnDisk
    <2> QED
      BY <2>1, <2>2, <2>3, <2>4
  <1>5. DOMAIN disk' = {PathDue(v) : v \in done \cup {w}}
    <2>1. DOMAIN disk' = DOMAIN disk \cup {p}
      BY <1>2
    <2>2. DOMAIN disk = {PathDue(v) : v \in done}
      BY DEF OnDisk
    <2> QED
      BY <1>1, <2>1, <2>2, Zenon
  <1>6. disk' = [q \in DOMAIN disk' |-> disk'[q]]
    BY <1>2
  <1>7. ASSUME NEW q \in DOMAIN disk'
        PROVE  \E x \in done \cup {w} :
                  /\ PathDue(x) = q /\ disk'[q] = Content(x[1], x[2])
                  /\ \A v \in done \cup {w} : PathDue(v) = q => v = x \/ Before(v, x)
    <2>1. CASE q = p
      <3>1. disk'[q] = c
        BY <1>2, <2>1
      <3> WITNESS w \in done \cup {w}
      <3> QED
        BY <1>1, <2>1, <3>1
    <2>2. CASE q # p
      <3>1. q \in DOMAIN disk /\ disk'[q] = disk[q]
        BY <1>2, <2>2
      <3>2. PICK x \in done :
               /\ PathDue(x) = q /\ disk[q] = Content(x[1], x[2])
               /\ \A v \in done : PathDue(v) = q => v = x \/ Before(v, x)
        BY <3>1 DEF OnDisk
      <3> WITNESS x \in done \cup {w}
      <3> QED
        BY <1>1, <2>2, <3>1, <3>2
    <2> QED
      BY <2>1, <2>2
  <1> QED
    BY <1>3, <1>4, <1>5, <1>6, <1>7 DEF OnDisk, IsAbove, Before

\* The first pass (nested.cc:224) finds every chunk; after the last it is certain
\* that nothing was cut.
LEMMA ScanStep ==
    ASSUME ArchiveWritten, AtScan, ScanChunk
    PROVE  \/ pc' = "scan" /\ AtScan'
           \/ pc' = "extract" /\ AtExtract'
           \/ pc' = "done" /\ Refused'
  <1>1. /\ Len(entries) \in Nat /\ Len(chunks) \in Nat /\ Len(archive) \in Nat
        /\ DOMAIN index = 1 .. Len(entries)
        /\ position = EntryStart(Len(entries)) /\ IndexRead /\ disk = <<>>
        /\ next \in 1 .. Len(entries) + 1 /\ chunk_end \in 0 .. Len(chunks)
        /\ next = Len(entries) + 1 => chunk_end = Len(chunks)
    BY DEF ArchiveWritten, Stored, AtScan, IndexRead, RowsRead
  <1>2. position \in Nat
    <2>1. Len(entries) \in 0 .. Len(entries)
      BY <1>1
    <2> QED
      BY <1>1, <2>1, NotCut
  <1>3. UNCHANGED <<packVars, archive, cut, disk>>
    BY DEF ScanChunk, ReaderUnchanged
  <1>4. UNCHANGED <<files, entries, chunks, archive, cut, disk>>
    BY <1>3 DEF packVars
  <1>5. ASSUME UnpackFails, cut
        PROVE  pc' = "done" /\ Refused'
    BY <1>1, <1>4, <1>5 DEF UnpackFails, Refused
  <1>6. ASSUME UNCHANGED indexVars, UNCHANGED position, next' \in 1 .. Len(entries) + 1
        PROVE  IndexRead'
    <2>1. UNCHANGED <<name_storage, index, entries>>
      BY <1>4, <1>6 DEF indexVars
    <2>2. RowsRead(index, Len(entries))'
      BY <1>1, <2>1 DEF IndexRead, RowsRead, RowReads, NameOf
    <2>3. EntryStart(Len(entries))' = EntryStart(Len(entries))
      BY <2>1 DEF EntryStart, EntriesStart, HeaderLength
    <2>4. Len(entries) <= MaxEntries
      BY <1>1 DEF IndexRead
    <2> QED
      BY <1>1, <1>6, <2>1, <2>2, <2>3, <2>4 DEF IndexRead
  <1>7. CASE next \notin DOMAIN index
    <2>1. chunk_end = Len(chunks)
      BY <1>1, <1>7
    <2>2. CASE chunk_end <= Len(archive) - position
      <3>1. ~cut
        <4>1. EntryStart(Len(entries)) + Len(chunks) <= Len(archive)
          BY <1>1, <1>2, <2>1, <2>2
        <4> QED
          BY <4>1, NotCut
      <3>2. /\ pc' = "extract" /\ next' = 1 /\ member' = 1
            /\ UNCHANGED <<position, chunk_end, indexVars>>
        BY <1>7, <2>2 DEF ScanChunk
      <3>3. IndexRead'
        BY <1>1, <1>6, <3>2
      <3>4. Extracted(1, 1)'
        <4>1. files \in Seq(Input)
          BY DEF ArchiveWritten, Stored
        <4>2. disk = <<>> /\ UNCHANGED <<files, entries, disk>>
          BY <1>1, <1>4
        <4> QED
          BY <4>1, <4>2, NoneReached
      <3>5. Extracted(next, member)'
        BY <3>2, <3>4 DEF Extracted, Reached
      <3> QED
        BY <1>4, <2>1, <3>1, <3>2, <3>3, <3>5 DEF AtExtract
    <2>3. CASE ~(chunk_end <= Len(archive) - position)
      <3>1. UnpackFails
        BY <1>7, <2>3 DEF ScanChunk
      <3>2. cut
        <4> SUFFICES ASSUME ~cut
                     PROVE  FALSE
          OBVIOUS
        <4>1. Len(archive) = Len(Packed)
          BY DEF ArchiveWritten
        <4>2. Len(Packed) = EntryStart(Len(entries)) + Len(chunks)
          BY PackedLies DEF ArchiveWritten
        <4>3. Len(archive) = position + chunk_end
          BY <1>1, <2>1, <4>1, <4>2
        <4> QED
          BY <1>1, <1>2, <2>3, <4>3
      <3> QED
        BY <1>5, <3>1, <3>2
    <2> QED
      BY <2>2, <2>3
  <1>8. CASE next \in DOMAIN index
    <2>1. PICK i \in 1 .. Len(entries) : i = next
      BY <1>1, <1>8
    <2>2. RowReads(index[i], entries[i])
      BY <1>1 DEF IndexRead, RowsRead
    <2>3. /\ ChunkEnd(index[i]) = ChunkEnd(entries[i])
          /\ ChunkEnd(index[i]) \in 0 .. Len(chunks)
          /\ ~cut => ChunkAccepted(index[i])
      <3>1. /\ index[i].offset = entries[i].offset
            /\ index[i].packed_size = entries[i].packed_size
        BY <2>2 DEF RowReads
      <3> QED
        BY <1>1, <3>1, ChunkRead
    <2>4. CASE ChunkAccepted(index[i])
      <3>1. /\ chunk_end' = IF ChunkEnd(index[i]) > chunk_end THEN ChunkEnd(index[i]) ELSE chunk_end
            /\ next' = i + 1
            /\ UNCHANGED <<pc, position, indexVars>>
        BY <1>8, <2>1, <2>4 DEF ScanChunk
      <3>2. next' \in 1 .. Len(entries) + 1
        BY <1>1, <3>1
      <3>3. IndexRead'
        BY <1>6, <3>1, <3>2
      <3>4. chunk_end' \in 0 .. Len(chunks)
        BY <1>1, <2>3, <3>1
      <3>5. ASSUME next' = Len(entries) + 1
            PROVE  chunk_end' = Len(chunks)
        <4>1. i = Len(entries) /\ Len(entries) # 0
          BY <1>1, <3>1, <3>5
        <4>2. ChunkEnd(entries[Len(entries)]) = Len(chunks)
          BY <4>1 DEF ArchiveWritten, Stored
        <4>3. ChunkEnd(index[i]) = Len(chunks)
          BY <2>3, <4>1, <4>2
        <4> QED
          BY <1>1, <3>1, <4>3
      <3>6. pc' = "scan"
        BY <3>1 DEF ScanChunk
      <3> QED
        BY <1>1, <1>4, <3>3, <3>4, <3>5, <3>6 DEF AtScan
    <2>5. CASE ~ChunkAccepted(index[i])
      <3>1. UnpackFails
        BY <1>8, <2>1, <2>5 DEF ScanChunk
      <3> QED
        BY <1>5, <2>3, <2>5, <3>1
    <2> QED
      BY <2>4, <2>5
  <1> QED
    BY <1>7, <1>8

\* An index that has been read keeps to the limits.
LEMMA ReadWithinLimits ==
    ASSUME ArchiveWritten, IndexRead
    PROVE  WithinLimits
  <1>1. /\ Stored /\ Len(chunks) \in Size /\ Len(entries) = Len(files)
        /\ files \in Seq(Input) /\ DOMAIN files = 1 .. Len(entries) /\ Len(entries) <= MaxEntries
    BY DEF ArchiveWritten, Stored, IndexRead
  <1>2. ASSUME NEW i \in 1 .. Len(entries)
        PROVE  Len(files[i].name) <= MaxNameLength
    <2>1. entries[i].name = IF files[i].name = <<>> THEN Unnamed ELSE files[i].name
      BY <1>1, StoredEntry
    <2>2. Len(entries[i].name) \in 1 .. MaxNameLength /\ MaxNameLength \in Nat
      BY SizeNumber, ContainerAssumption DEF IndexRead, RowsRead, RowReads
    <2>3. CASE files[i].name = <<>>
      BY <2>2, <2>3
    <2>4. CASE files[i].name # <<>>
      BY <2>1, <2>2, <2>4
    <2> QED
      BY <2>3, <2>4
  <1> QED
    BY <1>1, <1>2 DEF WithinLimits

\* A cut spoils nothing that has been shown so far.
LEMMA CutStep ==
    ASSUME ArchiveWritten, Unread, Cut
    PROVE  ArchiveWritten' /\ Unread'
  <1>1. /\ archive \in Seq(Byte) /\ Len(archive) \in Nat /\ Lies(0, Packed) /\ ~cut
        /\ Len(archive) = Len(Packed)
    BY DEF ArchiveWritten, Cut
  <1>2. /\ UNCHANGED <<packVars, indexVars, chunk_end, disk>> /\ cut' = TRUE
        /\ \E left \in 0 .. Len(archive) - 1 : archive' = SubSeq(archive, 1, left)
    BY DEF Cut
  <1>3. PICK left \in 0 .. Len(archive) - 1 : archive' = SubSeq(archive, 1, left)
    BY <1>2
  <1>4. /\ archive' \in Seq(Byte) /\ Len(archive') = left
        /\ \A k \in 1 .. left : archive'[k] = archive[k]
    BY <1>1, <1>3
  <1>5. UNCHANGED <<files, entries, chunks>>
    BY <1>2 DEF packVars
  <1>6. Packed' = Packed
    BY <1>2 DEF Packed, packVars
  <1>7. Stored'
    BY <1>5 DEF ArchiveWritten, Stored
  <1>8. PICK w : w = Packed
    OBVIOUS
  <1>9. \A k \in 1 .. Len(w) : 0 + k <= Len(archive') => archive'[0 + k] = w[k]
    <2>1. Len(w) \in Nat
      BY <1>1, <1>8
    <2> TAKE k \in 1 .. Len(w)
    <2> HAVE 0 + k <= Len(archive')
    <2>2. k \in 1 .. left /\ 0 + k = k
      BY <1>4, <2>1
    <2>3. archive[0 + k] = w[k]
      BY <1>1, <1>4, <1>8, <2>2 DEF Lies
    <2> QED
      BY <1>4, <2>2, <2>3
  <1>10. Lies(0, Packed)'
    BY <1>6, <1>8, <1>9, Zenon DEF Lies
  <1>11. Len(archive') < Len(Packed')
    BY <1>1, <1>4, <1>6
  <1>12. ArchiveWritten'
    BY <1>2, <1>4, <1>5, <1>7, <1>10, <1>11 DEF ArchiveWritten
  <1> QED
    BY <1>2, <1>12 DEF Unread, indexVars

\* Extraction (nested.cc:240) puts the files on disk in their order, or refuses one.
LEMMA ExtractStep ==
    ASSUME ArchiveWritten, AtExtract, ExtractEntry
    PROVE  \/ pc' = "extract" /\ AtExtract'
           \/ pc' = "done" /\ AtDone'
  <1>1. /\ Stored /\ Len(chunks) \in Size /\ Len(entries) \in Nat /\ Len(entries) = Len(files)
        /\ entries \in Seq(Entry) /\ files \in Seq(Input)
        /\ DOMAIN entries = 1 .. Len(entries) /\ DOMAIN files = 1 .. Len(entries)
        /\ DOMAIN index = 1 .. Len(entries)
        /\ IndexRead /\ ~cut /\ chunk_end = Len(chunks) /\ Extracted(next, member)
        /\ next \in 1 .. Len(entries) + 1 /\ Len(entries) <= MaxEntries
    BY DEF ArchiveWritten, Stored, AtExtract, IndexRead, RowsRead
  <1>2. UNCHANGED <<packVars, archive, cut>>
    BY DEF ExtractEntry
  <1>3. UNCHANGED <<files, entries, chunks, archive, cut>>
    BY <1>2 DEF packVars
  <1>4. ASSUME NEW i \in 1 .. Len(entries)
        PROVE  /\ RowReads(index[i], entries[i]) /\ files[i] \in Input /\ entries[i] \in Entry
               /\ entries[i].packed_size = Len(files[i].payload)
    BY <1>1, StoredEntry DEF IndexRead, RowsRead
  <1>5. WithinLimits'
    BY <1>1, <1>3, ReadWithinLimits DEF WithinLimits
  <1>6. CASE next \notin DOMAIN index
    <2>1. next = Len(files) + 1 /\ next - 1 = Len(files) /\ member = 1
      BY <1>1, <1>6 DEF Extracted
    <2>2. pc' = "done" /\ unpacked' = "ok" /\ disk' = disk
      BY <1>6 DEF ExtractEntry
    <2>3. \A i \in DOMAIN files : Extracts(files[i])
      BY <1>1, <2>1 DEF Extracted
    <2>4. OnDisk(Due)
      BY <1>1, <2>1, ReachedEnds DEF Extracted
    <2>5. Extractable
      BY <2>3, <2>4 DEF Extractable, PathsClash, OnDisk
    <2>6. disk = [path \in {PathDue(w) : w \in Due} |-> Content(LastOf(path)[1], LastOf(path)[2])]
      <3>1. ASSUME NEW path \in DOMAIN disk
            PROVE  disk[path] = Content(LastOf(path)[1], LastOf(path)[2])
        <4>1. PICK w \in Due :
                 /\ PathDue(w) = path /\ disk[path] = Content(w[1], w[2])
                 /\ \A v \in Due : PathDue(v) = path => v = w \/ Before(v, w)
          BY <2>4 DEF OnDisk
        <4>2. LastOf(path) = w
          BY <1>1, <4>1, LastIs
        <4> QED
          BY <4>1, <4>2
      <3>2. /\ DOMAIN disk = {PathDue(w) : w \in Due}
            /\ disk = [path \in DOMAIN disk |-> disk[path]]
        BY <2>4 DEF OnDisk
      <3> QED
        BY <3>1, <3>2, Zenon
    <2>7. Outcome'
      BY <1>3, <2>2, <2>5, <2>6, DueKept DEF Outcome
    <2> QED
      BY <1>1, <1>3, <1>5, <2>2, <2>7 DEF AtDone
  <1>7. CASE next \in DOMAIN index
    <2>1. PICK i, m : i \in 1 .. Len(entries) /\ i = next /\ m = member
      BY <1>1, <1>7
    <2>2. PICK f : f = files[i]
      OBVIOUS
    <2>3. /\ index[i].packed_size = Len(f.payload) /\ NameOf(index[i]) = entries[i].name
          /\ f \in Input /\ entries[i].name \in Seq(Byte)
      BY <1>4, <2>1, <2>2 DEF RowReads, Entry
    <2>4. /\ m \in 1 .. Len(Members(f)) + 1 /\ OnDisk(Reached(i, m))
          /\ \A j \in 1 .. i - 1 : Extracts(files[j])
      BY <1>1, <2>1, <2>2 DEF Extracted
    <2>5. PICK path : path = PathOf(entries[i].name, f, m)
      OBVIOUS
    <2>6. /\ PathDue(<<i, m>>) = path /\ path \in Seq(Byte)
          /\ <<i, m>> \in Due /\ Reached(i, m) \subseteq Due
      BY <1>1, <2>1, <2>2, <2>3, <2>4, <2>5, PathBytes, ReachedNext DEF PathDue
    <2>7. Len(Members(f)) \in Nat /\ m \in Nat
      BY <1>1, <2>1, <2>2, <2>4, DueIs
    <2>8. CASE /\ Len(f.payload) <= MaxChunkSize /\ ~(m > Len(Members(f)) /\ f.kind = "damaged")
               /\ Writable(path) /\ disk' = Written(path, Content(i, m))
               /\ next' = IF m > Len(Members(f)) THEN i + 1 ELSE i
               /\ member' = IF m > Len(Members(f)) THEN 1 ELSE m + 1
               /\ UNCHANGED <<pc, position, chunk_end, indexVars>>
      <3>1. PICK k, n : k = next' /\ n = member'
        OBVIOUS
      <3>2. k \in 1 .. Len(entries) + 1
        BY <1>1, <2>1, <2>8, <3>1
      <3>3. IndexRead'
        <4>1. UNCHANGED <<name_storage, index, position>>
          BY <2>8 DEF indexVars
        <4>2. RowsRead(index, Len(entries))'
          BY <1>1, <1>3, <4>1 DEF IndexRead, RowsRead, RowReads, NameOf
        <4>3. EntryStart(Len(entries))' = EntryStart(Len(entries))
          BY <1>3 DEF EntryStart, EntriesStart, HeaderLength
        <4> QED
          BY <1>1, <1>3, <3>1, <3>2, <4>1, <4>2, <4>3 DEF IndexRead
      <3>4. Reached(k, n) = Reached(i, m) \cup {<<i, m>>}
        <4>1. /\ m <= Len(Members(f)) => Reached(i, m + 1) = Reached(i, m) \cup {<<i, m>>}
              /\ m > Len(Members(f)) => Reached(i + 1, 1) = Reached(i, m) \cup {<<i, m>>}
          BY <1>1, <2>1, <2>2, <2>4, ReachedNext
        <4>2. CASE m > Len(Members(f))
          BY <2>8, <3>1, <4>1, <4>2
        <4>3. CASE ~(m > Len(Members(f)))
          <5>1. k = i /\ n = m + 1
            BY <2>8, <3>1, <4>3
          <5>2. m <= Len(Members(f))
            BY <2>7, <4>3
          <5> QED
            BY <4>1, <5>1, <5>2
        <4> QED
          BY <4>2, <4>3
      <3>5. OnDisk(Reached(k, n))'
        <4>1. PICK done : done = Reached(i, m)
          OBVIOUS
        <4>2. \A v \in done : Before(v, <<i, m>>)
          BY <1>1, <2>1, <2>2, <2>4, <4>1, ReachedNext
        <4>3. disk' = Written(path, Content(<<i, m>>[1], <<i, m>>[2]))
          BY <2>8
        <4>4. OnDisk(done \cup {<<i, m>>})'
          BY <1>3, <2>4, <2>6, <2>8, <4>1, <4>2, <4>3, OneMoreOnDisk
        <4>5. Reached(k, n)' = done \cup {<<i, m>>}
          BY <1>3, <3>4, <4>1, DueKept DEF Reached, Before
        <4> QED
          BY <4>4, <4>5
      <3>6. /\ k \in DOMAIN files => n \in 1 .. Len(Members(files[k])) + 1
            /\ k \notin DOMAIN files => n = 1
            /\ \A j \in 1 .. k - 1 : Extracts(files[j])
        <4>1. CASE m > Len(Members(f))
          <5>1. k = i + 1 /\ n = 1
            BY <2>8, <3>1, <4>1
          <5>2. k \in DOMAIN files => Len(Members(files[k])) \in Nat
            BY <1>1, DueIs
          <5>3. Extracts(files[i])
            BY <2>2, <2>8, <4>1 DEF Extracts
          <5>4. \A j \in 1 .. k - 1 : j \in 1 .. i - 1 \/ j = i
            BY <2>1, <5>1
          <5> QED
            BY <2>4, <5>1, <5>2, <5>3, <5>4
        <4>2. CASE ~(m > Len(Members(f)))
          <5>1. k = i /\ n = m + 1
            BY <2>8, <3>1, <4>2
          <5> QED
            BY <1>1, <2>1, <2>2, <2>4, <2>7, <4>2, <5>1
        <4> QED
          BY <4>1, <4>2
      <3>7. Extracted(k, n)'
        BY <1>3, <3>5, <3>6, DueKept DEF Extracted, Members
      <3>8. Extracted(next, member)'
        BY <3>1, <3>7 DEF Extracted, Reached
      <3>9. pc' = "extract" /\ chunk_end' = chunk_end
        BY <2>8 DEF ExtractEntry
      <3> QED
        BY <1>1, <1>3, <3>3, <3>8, <3>9 DEF AtExtract
    <2>9. CASE /\ \/ Len(f.payload) > MaxChunkSize
                  \/ m > Len(Members(f)) /\ f.kind = "damaged"
                  \/ f.kind = "overrun"
                  \/ ~Writable(path)
               /\ UnpackFails /\ disk' = disk
      <3>1. i \in DOMAIN files /\ Len(f.payload) \in Nat
        BY <1>1, <2>1, <2>3 DEF Input
      <3>2. ASSUME ~Writable(path)
            PROVE  PathsClash
        <4>1. PICK other \in DOMAIN disk : IsAbove(path, other) \/ IsAbove(other, path)
          BY <3>2 DEF Writable
        <4>2. PICK v \in Reached(i, m) : other = PathDue(v)
          BY <2>4 DEF OnDisk
        <4> QED
          BY <2>6, <4>1, <4>2 DEF PathsClash
      <3>3. ~(Extractable /\ \A j \in DOMAIN files : files[j].kind # "overrun")
        BY <2>2, <2>9, <3>1, <3>2, ContainerAssumption DEF Extractable, Extracts
      <3>4. unpacked' = "error" /\ pc' = "done"
        BY <2>9 DEF UnpackFails
      <3>5. Outcome'
        BY <1>3, <3>3, <3>4, DueKept DEF Outcome
      <3> QED
        BY <1>1, <1>3, <1>5, <3>4, <3>5 DEF AtDone
    <2>10. \/ /\ Len(f.payload) <= MaxChunkSize /\ ~(m > Len(Members(f)) /\ f.kind = "damaged")
              /\ Writable(path) /\ disk' = Written(path, Content(i, m))
              /\ next' = IF m > Len(Members(f)) THEN i + 1 ELSE i
              /\ member' = IF m > Len(Members(f)) THEN 1 ELSE m + 1
              /\ UNCHANGED <<pc, position, chunk_end, indexVars>>
           \/ /\ \/ Len(f.payload) > MaxChunkSize
                 \/ m > Len(Members(f)) /\ f.kind = "damaged"
                 \/ f.kind = "overrun"
                 \/ ~Writable(path)
              /\ UnpackFails /\ disk' = disk
      BY <1>7, <2>1, <2>2, <2>3, <2>5 DEF ExtractEntry
    <2> QED
      BY <2>8, <2>9, <2>10
  <1> QED
    BY <1>6, <1>7

\* Files whose names have sizes.
SizedNames(list) == list \in Seq(Input) /\ \A i \in 1 .. Len(list) : Len(list[i].name) \in Size

\* PackedComesBack, and what it takes to keep it.
BackInv ==
    /\ SizedNames(inputs)
    /\ pc \in {"read", "build"} => packed = "running" /\ Unread /\ ~cut
    /\ pc = "read" => SizedNames(files) /\ entries = <<>> /\ chunks = <<>>
    /\ pc = "build" => Stored /\ next = Len(entries) + 1
    /\ packed = "ok" /\ ~IsForeign => ArchiveWritten /\ Phase

\* The invariant says what is promised.
LEMMA BackImplies ==
    ASSUME BackInv
    PROVE  PackedComesBack
  <1> SUFFICES ASSUME packed = "ok", ~IsForeign
               PROVE  PackedComesBack
    BY DEF PackedComesBack
  <1>1. ArchiveWritten /\ Phase
    BY DEF BackInv
  <1>2. /\ entries \in Seq(Entry) /\ chunks \in Seq(Byte) /\ archive \in Seq(Byte) /\ Stored
        /\ Len(entries) \in Nat /\ Len(chunks) \in Nat /\ Len(archive) \in Nat
    BY <1>1 DEF ArchiveWritten, Stored
  <1>3. ASSUME ~cut
        PROVE  /\ EntryStart(Len(entries)) \in Nat
               /\ EntryStart(Len(entries)) + Len(chunks) = Len(archive)
    <2>1. Len(entries) \in 0 .. Len(entries)
      BY <1>2
    <2>2. EntryStart(Len(entries)) \in Nat
      BY <1>1, <2>1, NotCut
    <2> QED
      BY <1>1, <1>2, <1>3, <2>2, PackedLies DEF ArchiveWritten
  <1>4. ASSUME ~cut, IndexRead
        PROVE  /\ EntriesRead = entries
               /\ SubSeq(archive, position + 1, Len(archive)) = chunks
    <2>1. /\ index \in Seq(Row) /\ Len(index) = Len(entries) /\ position = EntryStart(Len(entries))
          /\ \A i \in 1 .. Len(entries) : RowReads(index[i], entries[i])
      BY <1>4 DEF IndexRead, RowsRead
    <2>2. ASSUME NEW i \in 1 .. Len(entries)
          PROVE  EntryRead(index[i]) = entries[i]
      <3>1. PICK e \in Entry : e = entries[i]
        BY <1>2
      <3>2. RowReads(index[i], e)
        BY <2>1, <3>1
      <3>3. EntryRead(index[i])
              = [offset |-> e.offset, packed_size |-> e.packed_size,
                 original_size |-> e.original_size, flags |-> e.flags, name |-> e.name]
        BY <3>2 DEF EntryRead, RowReads
      <3>4. e = [offset |-> e.offset, packed_size |-> e.packed_size,
                 original_size |-> e.original_size, flags |-> e.flags, name |-> e.name]
        BY DEF Entry
      <3> QED
        BY <3>1, <3>3, <3>4
    <2>3. EntriesRead = [i \in 1 .. Len(entries) |-> entries[i]]
      BY <2>1, <2>2 DEF EntriesRead
    <2>4. entries = [i \in 1 .. Len(entries) |-> entries[i]]
      BY <1>2
    <2>5. PICK p \in Nat : p = position /\ p + Len(chunks) = Len(archive)
      BY <1>3, <1>4, <2>1
    <2>6. Lies(p, chunks)
      BY <1>1, <1>2, <2>1, <2>5, PackedLies DEF ArchiveWritten
    <2>7. p + Len(chunks) <= Len(archive)
      BY <1>2, <2>5
    <2>8. SubSeq(archive, p + 1, p + Len(chunks)) = chunks
      BY <1>2, <2>6, <2>7, WholePart
    <2> QED
      BY <2>3, <2>4, <2>5, <2>8
  <1>5. CASE WithinLimits /\ ~cut
    <2>1. ASSUME pc \in {"scan", "extract"}
          PROVE  IndexRead
      BY <1>1, <2>1 DEF Phase, AtScan, AtExtract
    <2>2. ASSUME pc = "extract"
          PROVE  position + chunk_end = Len(archive)
      BY <1>1, <1>3, <1>5, <2>2 DEF Phase, AtExtract, IndexRead
    <2>3. ASSUME pc = "done"
          PROVE  Outcome
      BY <1>1, <1>5, <2>3 DEF Phase, AtDone, Refused
    <2> QED
      BY <1>4, <1>5, <2>1, <2>2, <2>3 DEF PackedComesBack, Outcome
  <1>6. CASE ~(WithinLimits /\ ~cut)
    <2>1. pc # "extract"
      BY <1>1, <1>6, ReadWithinLimits DEF Phase, AtExtract
    <2>2. disk = <<>>
      BY <1>1, <1>6, <2>1 DEF Phase, Unread, AtCount, AtEntries, AtScan, AtDone, Refused
    <2> QED
      BY <1>6, <2>1, <2>2 DEF PackedComesBack
  <1> QED
    BY <1>5, <1>6

\* Another file leaves the entries and chunks as they have to be.
LEMMA AddStep ==
    ASSUME Stored, next = Len(entries) + 1, AddFile
    PROVE  Stored' /\ next' = Len(entries') + 1
  <1>1. /\ entries \in Seq(Entry) /\ files \in Seq(Input) /\ chunks \in Seq(Byte)
        /\ \A i \in 1 .. Len(files) : Len(files[i].name) \in Size
        /\ Len(entries) \in Nat /\ Len(files) \in Nat /\ Len(chunks) \in Nat
        /\ Len(entries) <= Len(chunks)
    BY DEF Stored
  <1>2. PICK n \in 1 .. Len(files) : n = next /\ n = Len(entries) + 1
    BY <1>1 DEF AddFile
  <1>3. PICK f \in Input, start \in Nat : f = files[n] /\ start = Len(chunks)
    BY <1>1
  <1>4. PICK e \in Entry, c \in Seq(Byte) :
           /\ e = EntryOf(f, start) /\ c = ChunkOf(f) /\ e.offset = start
           /\ ChunkEnd(e) = start + Len(c) /\ Len(c) \in Nat \ {0}
    BY EntryOfFile
  <1>5. /\ entries' = Append(entries, e) /\ chunks' = chunks \o c /\ next' = n + 1
        /\ files' = files
    BY <1>2, <1>3, <1>4 DEF AddFile
  <1>6. /\ entries' \in Seq(Entry) /\ Len(entries') = n /\ entries'[n] = e
        /\ \A i \in 1 .. n - 1 : entries'[i] = entries[i]
    BY <1>1, <1>2, <1>5
  <1>7. /\ chunks' \in Seq(Byte) /\ Len(chunks') = start + Len(c)
        /\ \A k \in 1 .. start : chunks'[k] = chunks[k]
        /\ \A k \in 1 .. Len(c) : chunks'[start + k] = c[k]
    BY <1>1, <1>3, <1>5, ConcatBytes
  <1>8. PICK m \in Nat : m = Len(c) /\ m # 0
    BY <1>4
  <1>9. ASSUME NEW i \in 1 .. n - 1
        PROVE  /\ entries'[i] = EntryOf(files[i], entries'[i].offset)
               /\ ChunkEnd(entries'[i]) <= Len(chunks')
               /\ \A k \in 1 .. Len(ChunkOf(files[i])) :
                     chunks'[entries'[i].offset + k] = ChunkOf(files[i])[k]
    <2>1. i \in 1 .. Len(entries) /\ i \in 1 .. Len(files)
      BY <1>1, <1>2
    <2>2. PICK d \in Entry, g \in Input, at \in Nat :
             d = entries[i] /\ g = files[i] /\ at = d.offset
      <3>1. entries[i] \in Entry /\ files[i] \in Input
        BY <1>1, <2>1
      <3>2. entries[i].offset \in Nat
        BY <3>1 DEF Entry
      <3> QED
        BY <3>1, <3>2
    <2>3. /\ d = EntryOf(g, at) /\ ChunkEnd(d) <= Len(chunks)
          /\ \A k \in 1 .. Len(ChunkOf(g)) : chunks[at + k] = ChunkOf(g)[k]
      BY <2>1, <2>2 DEF Stored
    <2>4. ChunkEnd(d) = at + Len(ChunkOf(g)) /\ Len(ChunkOf(g)) \in Nat
      BY <2>3, EntryOfFile
    <2>5. PICK l \in Nat : l = Len(ChunkOf(g)) /\ at + l <= start
      BY <1>3, <2>3, <2>4
    <2>6. ChunkEnd(d) <= Len(chunks')
      BY <1>7, <1>8, <2>4, <2>5
    <2>7. \A k \in 1 .. l : at + k \in 1 .. start
      BY <2>5
    <2>8. \A k \in 1 .. l : chunks'[at + k] = ChunkOf(g)[k]
      BY <1>7, <2>3, <2>5, <2>7
    <2> QED
      BY <1>6, <2>2, <2>3, <2>5, <2>6, <2>8
  <1>10. /\ entries'[n] = EntryOf(files[n], entries'[n].offset)
         /\ ChunkEnd(entries'[n]) = Len(chunks')
         /\ \A k \in 1 .. Len(ChunkOf(files[n])) :
               chunks'[entries'[n].offset + k] = ChunkOf(files[n])[k]
    <2>1. entries'[n] = e /\ e = EntryOf(files[n], start) /\ e.offset = start /\ c = ChunkOf(files[n])
      BY <1>3, <1>4, <1>6
    <2>2. entries'[n].offset = start
      BY <2>1
    <2>3. entries'[n] = EntryOf(files[n], entries'[n].offset)
      BY <2>1, <2>2, Zenon
    <2>4. ChunkEnd(entries'[n]) = start + Len(c)
      BY <1>4, <2>1
    <2> QED
      BY <1>7, <2>1, <2>2, <2>3, <2>4
  <1>11. Len(chunks') \in Nat /\ n <= Len(chunks')
    BY <1>1, <1>2, <1>3, <1>7, <1>8
  <1>12. \A i \in 1 .. n : i \in 1 .. n - 1 \/ i = n
    OBVIOUS
  <1>13. \A i \in 1 .. n :
            /\ entries'[i] = EntryOf(files[i], entries'[i].offset)
            /\ ChunkEnd(entries'[i]) <= Len(chunks')
            /\ \A k \in 1 .. Len(ChunkOf(files[i])) :
                  chunks'[entries'[i].offset + k] = ChunkOf(files[i])[k]
    BY <1>9, <1>10, <1>11, <1>12
  <1>14. Stored'
    <2>1. n # 0 /\ n <= Len(files)
      BY <1>1
    <2>2. \A i \in 1 .. n :
            /\ entries'[i] = EntryOf(files[i], entries[i].offset)'
            /\ (ChunkEnd(entries[i]) <= Len(chunks))'
            /\ (\A k \in 1 .. Len(ChunkOf(files[i])) :
                  chunks[entries[i].offset + k] = ChunkOf(files[i])[k])'
      BY <1>5, <1>13, ZenonT(60) DEF EntryOf, ChunkOf, ChunkEnd
    <2> QED
      BY <1>1, <1>5, <1>6, <1>7, <1>10, <1>11, <2>1, <2>2 DEF Stored, ChunkEnd
  <1> QED
    BY <1>5, <1>6, <1>14

\* The invariant holds at the beginning,
LEMMA BackInit ==
    ASSUME Init
    PROVE  BackInv
  <1>1. inputs = <<>> \/ inputs \in InputLists
    BY DEF Init
  <1>2. SizedNames(inputs)
    <2>1. CASE inputs = <<>>
      BY <2>1 DEF SizedNames
    <2>2. CASE inputs \in InputLists
      BY <2>2, ContainerAssumption DEF SizedNames
    <2> QED
      BY <1>1, <2>1, <2>2
  <1>3. SizedNames(files) /\ entries = <<>> /\ chunks = <<>> /\ Unread /\ ~cut
    BY DEF Init, SizedNames, Unread
  <1>4. \/ pc = "read" /\ packed = "running"
        \/ pc = "header" /\ IsForeign
    BY DEF Init, IsForeign
  <1> QED
    BY <1>2, <1>3, <1>4 DEF BackInv

\* is kept as inputs are read (nested.cc:284),
LEMMA ReadInputBack ==
    ASSUME BackInv, ReadInput
    PROVE  BackInv'
  <1>1. /\ SizedNames(inputs) /\ Unread /\ ~cut /\ packed = "running" /\ pc = "read"
        /\ SizedNames(files) /\ entries = <<>> /\ chunks = <<>>
    BY DEF BackInv, ReadInput
  <1>2. UNCHANGED <<inputs, entries, chunks, indexVars, cut, chunk_end, disk>>
    BY DEF ReadInput
  <1>3. Unread' /\ ~cut' /\ SizedNames(inputs)' /\ entries' = <<>> /\ chunks' = <<>>
    BY <1>1, <1>2 DEF Unread, indexVars, SizedNames
  <1>4. CASE PackFails
    BY <1>3, <1>4 DEF PackFails, BackInv
  <1>5. CASE /\ next \in DOMAIN inputs /\ files' = Append(files, inputs[next])
             /\ UNCHANGED <<pc, packed>>
    <2>1. inputs[next] \in Input /\ Len(inputs[next].name) \in Size
      BY <1>1, <1>5 DEF SizedNames
    <2>2. SizedNames(files)'
      <3>1. PICK n \in Nat : n = Len(files)
        BY <1>1 DEF SizedNames
      <3>2. /\ files' \in Seq(Input) /\ Len(files') = n + 1 /\ files'[n + 1] = inputs[next]
            /\ \A i \in 1 .. n : files'[i] = files[i]
        BY <1>1, <1>5, <2>1, <3>1 DEF SizedNames
      <3>3. \A i \in 1 .. n + 1 : i \in 1 .. n \/ i = n + 1
        OBVIOUS
      <3>4. \A i \in 1 .. n + 1 : Len(files'[i].name) \in Size
        BY <1>1, <2>1, <3>1, <3>2, <3>3 DEF SizedNames
      <3> QED
        BY <3>2, <3>4 DEF SizedNames
    <2> QED
      BY <1>1, <1>3, <1>5, <2>2 DEF BackInv
  <1>6. CASE pc' = "build" /\ next' = 1 /\ UNCHANGED <<files, packed>>
    <2>1. Stored'
      <3>1. entries' \in Seq(Entry) /\ chunks' \in Seq(Byte) /\ Len(entries') = 0 /\ Len(chunks') = 0
        BY <1>3
      <3>2. SizedNames(files)' /\ Len(files') \in Nat
        BY <1>1, <1>6 DEF SizedNames
      <3> QED
        BY <3>1, <3>2 DEF Stored, SizedNames
    <2>2. next' = Len(entries') + 1
      BY <1>3, <1>6
    <2> QED
      BY <1>1, <1>3, <1>6, <2>1, <2>2 DEF BackInv
  <1> QED
    BY <1>4, <1>5, <1>6 DEF ReadInput

\* as entries and chunks are made of them (nested.cc:131),
LEMMA AddFileBack ==
    ASSUME BackInv, AddFile
    PROVE  BackInv'
  <1>1. /\ SizedNames(inputs) /\ Unread /\ ~cut /\ packed = "running" /\ pc = "build"
        /\ Stored /\ next = Len(entries) + 1
    BY DEF BackInv, AddFile
  <1>2. UNCHANGED <<inputs, packed, indexVars, pc, cut, chunk_end, disk>>
    BY DEF AddFile
  <1>3. Unread' /\ ~cut' /\ SizedNames(inputs)'
    BY <1>1, <1>2 DEF Unread, indexVars, SizedNames
  <1>4. Stored' /\ next' = Len(entries') + 1
    BY <1>1, AddStep
  <1> QED
    BY <1>1, <1>2, <1>3, <1>4 DEF BackInv

\* and as everything is written (nested.cc:305).
LEMMA WriteArchiveBack ==
    ASSUME BackInv, WriteArchive
    PROVE  BackInv'
  <1>1. /\ SizedNames(inputs) /\ Unread /\ ~cut /\ packed = "running" /\ pc = "build"
        /\ Stored /\ next = Len(entries) + 1 /\ next \notin DOMAIN files
    BY DEF BackInv, WriteArchive
  <1>2. UNCHANGED <<inputs, files, entries, chunks, indexVars, cut, chunk_end, disk>>
    BY DEF WriteArchive
  <1>3. Unread' /\ ~cut' /\ SizedNames(inputs)'
    BY <1>1, <1>2 DEF Unread, indexVars, SizedNames
  <1>4. CASE PackFails
    BY <1>3, <1>4 DEF PackFails, BackInv
  <1>5. CASE Len(chunks) \in Size /\ archive' = Packed /\ pc' = "header" /\ packed' = "ok"
    <2>1. Len(entries) = Len(files)
      <3>1. PICK m, n \in Nat : m = Len(entries) /\ n = Len(files) /\ m <= n /\ m + 1 \notin 1 .. n
        BY <1>1 DEF Stored
      <3> QED
        BY <3>1
    <2>2. Packed \in Seq(Byte)
      BY <1>1, PackedLies
    <2>3. PICK w \in Seq(Byte) : w = Packed /\ archive' = w
      BY <1>5, <2>2
    <2>4. Packed' = w
      BY <1>2, <2>3 DEF Packed
    <2>5. \A k \in 1 .. Len(w) : archive'[0 + k] = w[k]
      BY <2>3
    <2>6. Lies(0, Packed)'
      BY <2>4, <2>5 DEF Lies
    <2>7. Stored'
      BY <1>1, <1>2 DEF Stored
    <2>8. ArchiveWritten'
      BY <1>2, <1>3, <1>5, <2>1, <2>3, <2>4, <2>6, <2>7 DEF ArchiveWritten
    <2>9. Phase'
      BY <1>3, <1>5 DEF Phase
    <2> QED
      BY <1>3, <1>5, <2>8, <2>9 DEF BackInv
  <1> QED
    BY <1>4, <1>5 DEF WriteArchive

\* After that, it is enough to look at what is read.
LEMMA ReadingBack ==
    ASSUME BackInv, pc \notin {"read", "build"}, UNCHANGED <<inputs, packed>>,
           pc' \notin {"read", "build"},
           ArchiveWritten /\ Phase => ArchiveWritten' /\ Phase'
    PROVE  BackInv'
  BY DEF BackInv, SizedNames, IsForeign

\* What was written stays as it is while it is read.
LEMMA WrittenKept ==
    ASSUME ArchiveWritten, UNCHANGED <<files, entries, chunks, archive, cut>>
    PROVE  ArchiveWritten'
  <1>1. Stored' /\ Packed' = Packed
    BY DEF ArchiveWritten, Stored, Packed
  <1>2. PICK w : w = Packed
    OBVIOUS
  <1>3. Lies(0, w)
    BY <1>2 DEF ArchiveWritten
  <1>4. Lies(0, Packed)'
    BY <1>1, <1>2, <1>3 DEF Lies
  <1> QED
    BY <1>1, <1>4 DEF ArchiveWritten

\* Every step keeps the invariant.
LEMMA StepBack ==
    ASSUME BackInv, [Next]_vars
    PROVE  BackInv'
  <1>1. CASE ReadInput
    BY <1>1, ReadInputBack
  <1>2. CASE AddFile
    BY <1>2, AddFileBack
  <1>3. CASE WriteArchive
    BY <1>3, WriteArchiveBack
  <1>4. CASE Cut
    <2>1. pc = "header" /\ pc' = "header" /\ UNCHANGED <<inputs, packed>>
      BY <1>4 DEF Cut, packVars
    <2>2. ArchiveWritten /\ Phase => ArchiveWritten' /\ Phase'
      BY <1>4, <2>1, CutStep DEF Phase
    <2> QED
      BY <2>1, <2>2, ReadingBack
  <1>5. ASSUME ReaderUnchanged \/ UNCHANGED <<packVars, archive, cut>>
        PROVE  UNCHANGED <<inputs, packed>> /\ (ArchiveWritten => ArchiveWritten')
    BY <1>5, WrittenKept DEF ReaderUnchanged, packVars
  <1>6. CASE ParseHeader
    <2>1. pc = "header" /\ pc' \in {"count", "done"} /\ ReaderUnchanged
      BY <1>6 DEF ParseHeader, UnpackFails
    <2>2. ASSUME ArchiveWritten, Phase
          PROVE  Phase'
      <3>1. Refused' => AtDone'
        BY DEF AtDone
      <3>2. Unread
        BY <2>1, <2>2 DEF Phase
      <3>3. \/ pc' = "count" /\ AtCount'
            \/ pc' = "done" /\ AtDone'
        BY <1>6, <2>2, <3>1, <3>2, HeaderStep, Zenon
      <3> QED
        BY <3>3 DEF Phase
    <2> QED
      BY <1>5, <2>1, <2>2, ReadingBack
  <1>7. CASE ParseCount
    <2>1. pc = "count" /\ pc' \in {"entries", "done"} /\ ReaderUnchanged
      BY <1>7 DEF ParseCount, UnpackFails
    <2>2. ASSUME ArchiveWritten, Phase
          PROVE  Phase'
      <3>1. Refused' => AtDone'
        BY DEF AtDone
      <3>2. AtCount
        BY <2>1, <2>2 DEF Phase
      <3>3. \/ pc' = "entries" /\ AtEntries'
            \/ pc' = "done" /\ AtDone'
        BY <1>7, <2>2, <3>1, <3>2, CountStep, Zenon
      <3> QED
        BY <3>3 DEF Phase
    <2> QED
      BY <1>5, <2>1, <2>2, ReadingBack
  <1>8. CASE ParseEntry
    <2>1. pc = "entries" /\ pc' \in {"entries", "done"} /\ ReaderUnchanged
      BY <1>8 DEF ParseEntry, UnpackFails
    <2>2. ASSUME ArchiveWritten, Phase
          PROVE  Phase'
      <3>1. Refused' => AtDone'
        BY DEF AtDone
      <3>2. AtEntries
        BY <2>1, <2>2 DEF Phase
      <3>3. \/ pc' = "entries" /\ AtEntries'
            \/ pc' = "done" /\ AtDone'
        BY <1>8, <2>2, <3>1, <3>2, EntryStep, Zenon
      <3> QED
        BY <3>3 DEF Phase
    <2> QED
      BY <1>5, <2>1, <2>2, ReadingBack
  <1>9. CASE MakeViews
    <2>1. pc = "entries" /\ pc' = "scan" /\ ReaderUnchanged
      BY <1>9 DEF MakeViews
    <2>2. ArchiveWritten /\ Phase => Phase'
      BY <1>9, <2>1, ViewsStep DEF Phase
    <2> QED
      BY <1>5, <2>1, <2>2, ReadingBack
  <1>10. CASE ScanChunk
    <2>1. pc = "scan" /\ pc' \in {"scan", "extract", "done"} /\ ReaderUnchanged
      BY <1>10 DEF ScanChunk, UnpackFails
    <2>2. ASSUME ArchiveWritten, Phase
          PROVE  Phase'
      <3>1. Refused' => AtDone'
        BY DEF AtDone
      <3>2. AtScan
        BY <2>1, <2>2 DEF Phase
      <3>3. \/ pc' = "scan" /\ AtScan'
            \/ pc' = "extract" /\ AtExtract'
            \/ pc' = "done" /\ AtDone'
        BY <1>10, <2>2, <3>1, <3>2, ScanStep, Zenon
      <3> QED
        BY <3>3 DEF Phase
    <2> QED
      BY <1>5, <2>1, <2>2, ReadingBack
  <1>11. CASE ExtractEntry
    <2>1. pc = "extract" /\ pc' \in {"extract", "done"} /\ UNCHANGED <<packVars, archive, cut>>
      BY <1>11 DEF ExtractEntry, UnpackFails
    <2>2. ArchiveWritten /\ Phase => Phase'
      BY <1>11, <2>1, ExtractStep DEF Phase
    <2> QED
      BY <1>5, <2>1, <2>2, ReadingBack
  <1>12. CASE UNCHANGED vars
    <2>1. ArchiveWritten => ArchiveWritten'
      BY <1>12, WrittenKept DEF vars, packVars
    <2>2. UNCHANGED <<pc, inputs, packed, files, entries, chunks, cut, next, position, chunk_end,
                      member, disk, count, pending, name_storage, index, unpacked, archive>>
      BY <1>12 DEF vars, packVars, indexVars
    <2>3. Phase => Phase'
      <3>1. Unread => Unread'
        BY <2>2 DEF Unread
      <3>2. IndexRead => IndexRead'
        BY <2>2 DEF IndexRead, EntryStart, EntriesStart, HeaderLength, RowsRead, RowReads, NameOf
      <3>3. AtEntries => AtEntries'
        BY <2>2 DEF AtEntries, EntryStart, EntriesStart, HeaderLength, RowsRead, RowReads, NameOf
      <3>4. AtExtract => AtExtract'
        BY <2>2, <3>2, DueKept DEF AtExtract, Extracted, Reached, OnDisk
      <3>5. AtDone => AtDone'
        <4>1. Outcome => Outcome'
          BY <2>2, DueKept DEF Outcome
        <4>2. Refused => Refused'
          BY <2>2 DEF Refused, WithinLimits
        <4> QED
          BY <2>2, <4>1, <4>2 DEF AtDone, WithinLimits
      <3> QED
        BY <2>2, <3>1, <3>2, <3>3, <3>4, <3>5 DEF Phase, AtCount, AtScan, HeaderLength
    <2>4. (SizedNames(files) => SizedNames(files)') /\ (Stored => Stored') /\ (Unread => Unread')
      BY <2>2 DEF SizedNames, Stored, Unread
    <2> QED
      BY <2>1, <2>2, <2>3, <2>4 DEF BackInv, IsForeign, SizedNames
  <1>13. CASE Done
    BY <1>12, <1>13 DEF Done
  <1> QED
    BY <1>1, <1>2, <1>3, <1>4, <1>6, <1>7, <1>8, <1>9, <1>10, <1>11, <1>12, <1>13 DEF Next

\* The calls of CheckedReader leave alone what the container is made of.
LEMMA ReaderStepBelow ==
    ASSUME [ReaderNext]_<<vars, readerVars>>
    PROVE  [Next]_vars
  <1>1. CASE CheckedByte \/ CheckedBytes \/ CheckedSkip \/ CheckedVarint \/ CheckedSeek
    <2>1. InUse
      BY <1>1, Zenon DEF CheckedByte, CheckedBytes, CheckedSkip, CheckedVarint, CheckedSeek
    <2> QED
      BY <2>1 DEF InUse
  <1>2. CASE Next \/ UNCHANGED vars
    BY <1>2
  <1> QED
    BY <1>1, <1>2, Zenon DEF ReaderNext

\* PackedComesBack of whatever pack() is given: unpack() (nested.cc:310) reads
\* the index and the chunks of what was written (nested.cc:305) as they were put in.
\* It succeeds only if no file is refused and no path, those of the members of packed
\* archives included (nested.cc:253), has to be a directory another is in; then the
\* last file of each path is left, and it does succeed if no packed archive overruns
\* the ring.  Of an archive beyond the limits, or cut, nothing is extracted.
THEOREM PackedTheorem == ReaderSpec => []PackedComesBack
  <1>1. ComposedInit => BackInv
    BY BackInit DEF ComposedInit
  <1>2. BackInv /\ [ReaderNext]_<<vars, readerVars>> => BackInv'
    BY ReaderStepBelow, StepBack, Zenon
  <1>3. BackInv => PackedComesBack
    BY BackImplies
  <1> QED
    BY <1>1, <1>2, <1>3, PTL DEF ReaderSpec

-----------------------------------------------------------------------------
(* What was read, written again.                                           *)

\* The n digits behind p amount to v and a multiple of what digit j counts for,
\* and the j digits before that go on, in the archive as in what is written of v.
AlikeBelow(p, n, j, v, t) ==
    /\ p + n <= Len(archive) /\ j < n
    /\ \A k \in 1 .. j : archive[p + k] >= Base
    /\ DigitsValue(p, n) = v + t * Weight[j]
    /\ j < Len(WriteVarint[v])

\* Then these are the same digits.
LEMMA SameLow ==
    ASSUME archive \in Seq(Byte), NEW p \in Nat, NEW n \in Nat, NEW j \in Nat,
           NEW v \in Nat, NEW t \in Nat, AlikeBelow(p, n, j, v, t)
    PROVE  \A k \in 1 .. j : WriteVarint[v][k] = archive[p + k]
  <1> DEFINE Same(at, i, u) == \A k \in 1 .. i : WriteVarint[u][k] = archive[at + k]
             S == {i \in Nat : \A at, m, u \in Nat : AlikeBelow(at, m, i, u, t) => Same(at, i, u)}
  <1>1. 0 \in S
    BY DEF Same
  <1> HIDE DEF Same
  <1>2. ASSUME NEW i \in Nat, i \in S
        PROVE  i + 1 \in S
    <2> SUFFICES ASSUME NEW at \in Nat, NEW m \in Nat, NEW u \in Nat, AlikeBelow(at, m, i + 1, u, t)
                 PROVE  Same(at, i + 1, u)
      OBVIOUS
    <2> HIDE DEF S
    <2>1. /\ at + m <= Len(archive) /\ i + 1 < m
          /\ \A k \in 1 .. i + 1 : archive[at + k] >= Base
          /\ DigitsValue(at, m) = u + t * Weight[i + 1]
          /\ i + 1 < Len(WriteVarint[u])
      BY DEF AlikeBelow
    <2>2. PICK l \in Nat : l = m - 1 /\ m = l + 1 /\ i < l
      BY <2>1
    <2>3. PICK q \in Nat, d \in 0 .. Base - 1 :
             /\ q = DigitsValue(at + 1, l) /\ d = archive[at + 1] % Base
             /\ archive[at + 1] = Base + d
             /\ DigitsValue(at, m) = d + Base * q
      <3>1. at + l + 1 <= Len(archive) /\ (at + 1) + l <= Len(archive) /\ at + 1 \in Nat
            /\ at + 1 \in 1 .. Len(archive) /\ archive[at + 1] >= Base
        BY <2>1, <2>2
      <3>2. DigitsValue(at, l + 1) = (archive[at + 1] % Base) + Base * DigitsValue(at + 1, l)
        BY <3>1, DigitsFirst
      <3>3. DigitsValue(at + 1, l) \in Nat
        BY <3>1, DigitsNext
      <3>4. archive[at + 1] % Base \in 0 .. Base - 1
            /\ archive[at + 1] = Base + (archive[at + 1] % Base)
        BY <3>1, DigitAt
      <3> QED
        BY <2>2, <3>2, <3>3, <3>4
    <2>4. PICK a \in Nat, c \in 0 .. Base - 1 :
             a = u \div Base /\ c = u % Base /\ u = c + Base * a
      BY LastDigit
    <2>5. PICK w \in Nat : w = Weight[i] /\ Weight[i + 1] = Base * w
      BY WeightNext
    <2>6. PICK e \in Nat : e = a + t * w
      OBVIOUS
    <2>7. u + t * Weight[i + 1] = c + Base * e
      <3>1. PICK b \in Nat : b = Base
        BY VarintAssumption
      <3>2. PICK y \in Nat : y = t * w
        OBVIOUS
      <3>3. PICK g, h \in Nat : g = b * a /\ h = b * y
        OBVIOUS
      <3>4. t * (b * w) = h
        BY <3>2, <3>3
      <3>5. b * (a + y) = g + h
        BY <3>3
      <3>6. u = c + g /\ t * Weight[i + 1] = h /\ Base * e = g + h
        <4>1. u = c + g
          BY <2>4, <3>1, <3>3
        <4>2. t * Weight[i + 1] = h
          BY <2>5, <3>1, <3>4
        <4>3. Base * e = g + h
          BY <2>6, <3>1, <3>2, <3>5
        <4> QED
          BY <4>1, <4>2, <4>3
      <3> QED
        BY <3>6
    <2>8. d + Base * q = c + Base * e
      BY <2>1, <2>3, <2>7
    <2>9. d = c /\ q = e
      <3>1. (d + Base * q) % Base = d /\ (d + Base * q) \div Base = q
        BY OneLastDigit
      <3>2. (c + Base * e) % Base = c /\ (c + Base * e) \div Base = e
        BY OneLastDigit
      <3> QED
        BY <2>8, <3>1, <3>2
    <2>10. u >= Base
      <3> SUFFICES ASSUME ~(u >= Base)
                   PROVE  FALSE
        OBVIOUS
      <3>1. u < Base
        BY VarintAssumption
      <3>2. WriteVarint[u] = <<u>> /\ Len(<<u>>) = 1
        BY <3>1, WriteNext
      <3> QED
        BY <2>1, <3>2
    <2>11. PICK z \in Nat : z = Len(WriteVarint[a])
      BY WriteShape DEF Shape
    <2>12. /\ Len(WriteVarint[u]) = z + 1 /\ WriteVarint[u][1] = Base + c
           /\ \A k \in 1 .. z : WriteVarint[u][k + 1] = WriteVarint[a][k]
      BY <2>4, <2>10, <2>11, WriteBytes
    <2>13. AlikeBelow(at + 1, l, i, a, t)
      <3>1. (at + 1) + l <= Len(archive) /\ i < l /\ i < z
        <4>1. PICK x \in Nat : x = Len(archive)
          OBVIOUS
        <4>2. at + (l + 1) <= x /\ i + 1 < z + 1
          BY <2>1, <2>2, <2>12, <4>1
        <4>3. (at + 1) + l <= x /\ i < z
          BY <4>2
        <4> QED
          BY <2>2, <4>1, <4>3
      <3>2. ASSUME NEW k \in 1 .. i
            PROVE  archive[(at + 1) + k] >= Base
        <4>1. k + 1 \in 1 .. i + 1 /\ (at + 1) + k = at + (k + 1)
          OBVIOUS
        <4>2. archive[at + (k + 1)] >= Base
          BY <2>1, <4>1
        <4> QED
          BY <4>1, <4>2
      <3>3. DigitsValue(at + 1, l) = a + t * Weight[i]
        BY <2>3, <2>5, <2>6, <2>9
      <3> QED
        BY <2>11, <3>1, <3>2, <3>3 DEF AlikeBelow
    <2>14. Same(at + 1, i, a)
      <3>1. at + 1 \in Nat
        OBVIOUS
      <3> QED
        BY <1>2, <2>13, <3>1 DEF S
    <2>15. ASSUME NEW k \in 1 .. i + 1
           PROVE  WriteVarint[u][k] = archive[at + k]
      <3>1. CASE k = 1
        BY <2>3, <2>9, <2>12, <3>1
      <3>2. CASE k # 1
        <4>1. PICK x \in 1 .. i : k = x + 1 /\ at + k = (at + 1) + x
          <5>1. k - 1 \in 1 .. i /\ k = (k - 1) + 1 /\ at + k = (at + 1) + (k - 1)
            BY <3>2
          <5> QED
            BY <5>1
        <4>2. x \in 1 .. z
          BY <2>1, <2>12
        <4>3. WriteVarint[a][x] = archive[(at + 1) + x]
          BY <2>14 DEF Same
        <4> QED
          BY <2>12, <4>1, <4>2, <4>3
      <3> QED
        BY <3>1, <3>2
    <2> QED
      BY <2>15 DEF Same
  <1>3. AlikeBelow(p, n, j, v, t)
    OBVIOUS
  <1> HIDE DEF S
  <1>4. j \in S
    BY <1>1, <1>2, NumbersIn
  <1>5. Same(p, j, v)
    BY <1>3, <1>4 DEF S
  <1> QED
    BY <1>5 DEF Same

\* Byte x of the archive is what Overflows says of the bytes behind p.
Overflown(p, x) ==
    p + VarintLimit <= x /\ \A i \in 1 .. VarintLimit - 1 : archive[x - i] >= Base

\* What AcceptedIsEncoding says of w and the bytes from p to q.
Reencodes(w, p, q) ==
    /\ p + Len(w) <= q /\ q <= Len(archive)
    /\ p + Len(w) = q =>
          \A k \in 1 .. Len(w) : w[k] = archive[p + k] \/ Overflown(p, p + k)

\* A number is its quotient and its rest.
LEMMA DivisionRests ==
    ASSUME NEW d \in Nat, NEW w \in Nat, w >= 1
    PROVE  d % w \in 0 .. w - 1 /\ d \div w \in Nat /\ d = (d % w) + w * (d \div w)
  OBVIOUS

\* A varint that was read, written again, is no longer, and of the same length it
\* is the same but for what was lost in its last byte.
LEMMA VarintAgain ==
    ASSUME archive \in Seq(Byte), NEW p \in Nat, ReadVarint(p).ok
    PROVE  /\ ReadVarint(p).value \in Size /\ ReadVarint(p).end \in Nat
           /\ Reencodes(WriteVarint[ReadVarint(p).value], p, ReadVarint(p).end)
  <1>1. PICK n : Encodes(p, n) /\ n <= VarintLimit
    <2>1. VarintEnds(p) # {}
      BY DEF ReadVarint, Failed
    <2> QED
      BY <2>1, EndsEncode
  <1>2. /\ n \in Nat \ {0} /\ p + n <= Len(archive)
        /\ \A k \in 1 .. n - 1 : archive[p + k] >= Base
    BY <1>1 DEF Encodes
  <1>3. PICK d \in Nat : d = DigitsValue(p, n) /\ d < Weight[n]
    BY <1>2, DigitsNext, DigitsBound
  <1>4. PICK w \in Nat : w = Word /\ w >= 1
    BY VarintAssumption
  <1>5. PICK v \in 0 .. w - 1, q \in Nat : v = d % w /\ q = d \div w /\ d = v + w * q
    <2>1. d % w \in 0 .. w - 1 /\ d \div w \in Nat /\ d = (d % w) + w * (d \div w)
      BY <1>4, DivisionRests, Zenon
    <2> QED
      BY <2>1
  <1>6. ReadVarint(p) = Read(v, p + n)
    BY <1>1, <1>3, <1>4, <1>5, VarintRead
  <1>7. ReadVarint(p).value = v /\ ReadVarint(p).end = p + n
    BY <1>6 DEF Read
  <1>8. v \in Size /\ v \in Nat /\ p + n \in Nat
    BY <1>2, <1>4, <1>5 DEF Size
  <1>9. PICK l \in Nat \ {0} : l = Len(WriteVarint[v])
    BY <1>8, WriteShape DEF Shape
  <1>10. CASE d < w
    <2>1. v = d
      BY <1>4, <1>5, <1>10
    <2>2. l <= n /\ (l = n => Holds(p, WriteVarint[v]))
      BY <1>1, <1>3, <1>9, <2>1, ShortestIsWritten
    <2>3. Reencodes(WriteVarint[v], p, p + n)
      BY <1>2, <1>9, <2>2 DEF Reencodes, Holds
    <2> QED
      BY <1>7, <1>8, <2>3
  <1>11. CASE d >= w
    <2>1. PICK j \in Nat : j = VarintLimit - 1 /\ VarintLimit = j + 1
      BY VarintAssumption
    <2>2. PICK m, x \in Nat : x = Weight[j] /\ w = m * x /\ m # 0
      <3>1. PICK x \in Nat : x = Weight[j]
        BY WeightNext
      <3>2. PICK m \in 1 .. Base : Word = m * Weight[VarintLimit - 1]
        BY WordAssumption
      <3>3. m \in Nat /\ m # 0
        BY VarintAssumption
      <3> QED
        BY <1>4, <2>1, <3>1, <3>2, <3>3
    <2>3. n = j + 1
      <3> SUFFICES ASSUME n <= j
                   PROVE  FALSE
        BY <1>1, <1>2, <2>1
      <3>1. Weight[n] <= x
        BY <1>2, <2>2, WeightGrows
      <3>2. x <= m * x
        BY <2>2
      <3>3. Weight[n] \in Nat
        BY <1>2, WeightNext
      <3> QED
        BY <1>3, <1>4, <1>11, <2>2, <3>1, <3>2, <3>3
    <2>4. l <= n
      <3>1. v < Weight[VarintLimit]
        <4>1. Weight[VarintLimit] \in Nat
          BY WeightNext, VarintAssumption
        <4> QED
          BY <1>4, <1>5, <4>1, WordFits
      <3>2. VarintLimit \in Nat \ {0}
        BY VarintAssumption
      <3>3. Len(WriteVarint[v]) <= VarintLimit
        BY <1>8, <3>1, <3>2, WriteShort
      <3> QED
        BY <1>9, <2>1, <2>3, <3>3
    <2>5. ASSUME l = n
          PROVE  \A k \in 1 .. l : WriteVarint[v][k] = archive[p + k] \/ Overflown(p, p + k)
      <3>1. PICK t \in Nat : t = m * q /\ d = v + t * x
        <4>1. (m * x) * q = (m * q) * x
          OBVIOUS
        <4>2. m * q \in Nat
          OBVIOUS
        <4> QED
          BY <1>5, <2>2, <4>1, <4>2
      <3>2. \A k \in 1 .. j : WriteVarint[v][k] = archive[p + k]
        <4>1. DigitsValue(p, n) = v + t * Weight[j] /\ j < n /\ j < Len(WriteVarint[v])
          BY <1>3, <1>9, <2>2, <2>3, <2>5, <3>1
        <4>2. \A k \in 1 .. j : archive[p + k] >= Base
          BY <1>2, <2>3
        <4> QED
          <5>1. n \in Nat /\ p + n <= Len(archive) /\ v \in Nat
            BY <1>2, <1>8
          <5>2. AlikeBelow(p, n, j, v, t)
            BY <4>1, <4>2, <5>1 DEF AlikeBelow
          <5> QED
            BY <5>1, <5>2, SameLow
      <3>3. Overflown(p, p + n)
        <4>1. ASSUME NEW i \in 1 .. VarintLimit - 1
              PROVE  archive[(p + n) - i] >= Base
          <5>1. n - i \in 1 .. n - 1 /\ (p + n) - i = p + (n - i)
            BY <1>2, <2>1, <2>3
          <5>2. archive[p + (n - i)] >= Base
            BY <1>2, <5>1
          <5> QED
            BY <5>1, <5>2
        <4> QED
          BY <2>1, <2>3, <4>1 DEF Overflown
      <3>4. \A k \in 1 .. l : k \in 1 .. j \/ k = n
        BY <2>3, <2>5
      <3> QED
        BY <3>2, <3>3, <3>4
    <2>6. Reencodes(WriteVarint[v], p, p + n)
      BY <1>2, <1>9, <2>4, <2>5 DEF Reencodes
    <2> QED
      BY <1>7, <1>8, <2>6
  <1> QED
    BY <1>3, <1>4, <1>10, <1>11

\* What can be written again, and more of the kind behind it.
LEMMA AgainAfter ==
    ASSUME archive \in Seq(Byte), NEW p \in Nat, NEW q \in Nat, NEW r \in Nat,
           NEW a \in Seq(Byte), NEW b \in Seq(Byte), Reencodes(a, p, q), Reencodes(b, q, r)
    PROVE  Reencodes(a \o b, p, r)
  <1>1. PICK m, n \in Nat : m = Len(a) /\ n = Len(b)
    OBVIOUS
  <1>2. PICK w : w = a \o b
    OBVIOUS
  <1>3. /\ Len(w) = m + n
        /\ \A k \in 1 .. m : w[k] = a[k]
        /\ \A k \in 1 .. n : w[m + k] = b[k]
    BY <1>1, <1>2, ConcatBytes
  <1>4. PICK s \in Nat : s = Len(archive)
    OBVIOUS
  <1>5. p + m <= q /\ q + n <= r /\ r <= s
    BY <1>1, <1>4 DEF Reencodes
  <1>6. p + (m + n) <= r
    BY <1>5
  <1>7. ASSUME p + (m + n) = r, NEW k \in 1 .. m + n
        PROVE  w[k] = archive[p + k] \/ Overflown(p, p + k)
    <2>1. p + m = q /\ q + n = r
      BY <1>5, <1>7
    <2>2. CASE k <= m
      <3>1. k \in 1 .. m
        BY <2>2
      <3>2. a[k] = archive[p + k] \/ Overflown(p, p + k)
        BY <1>1, <2>1, <3>1 DEF Reencodes
      <3> QED
        BY <1>3, <3>1, <3>2
    <2>3. CASE ~(k <= m)
      <3>1. PICK i \in 1 .. n : k = m + i /\ q + i = p + k
        <4>1. k - m \in 1 .. n /\ k = m + (k - m) /\ q + (k - m) = p + k
          BY <2>1, <2>3
        <4> QED
          BY <4>1
      <3>2. b[i] = archive[q + i] \/ Overflown(q, q + i)
        BY <1>1, <2>1 DEF Reencodes
      <3>3. Overflown(q, q + i) => Overflown(p, q + i)
        <4>1. PICK u \in Nat : u = VarintLimit
          BY VarintAssumption
        <4>2. q + u <= q + i => p + u <= q + i
          BY <1>5
        <4> QED
          BY <4>1, <4>2 DEF Overflown
      <3> QED
        BY <1>3, <3>1, <3>2, <3>3
    <2> QED
      BY <2>2, <2>3
  <1>8. Reencodes(w, p, r)
    BY <1>3, <1>4, <1>5, <1>6, <1>7 DEF Reencodes
  <1> QED
    BY <1>2, <1>8

\* A byte that was read is written again as it was,
LEMMA ByteAgain ==
    ASSUME archive \in Seq(Byte), NEW p \in Nat, ReadByte(p).ok
    PROVE  /\ ReadByte(p).value \in Byte /\ ReadByte(p).end = p + 1
           /\ Reencodes(<<ReadByte(p).value>>, p, p + 1)
  <1>1. p + 1 <= Len(archive) /\ ReadByte(p) = Read(archive[p + 1], p + 1)
    BY DEF ReadByte, Failed
  <1>2. PICK b \in Byte : b = archive[p + 1]
    BY <1>1
  <1>3. ReadByte(p).value = b /\ ReadByte(p).end = p + 1
    BY <1>1, <1>2 DEF Read
  <1>4. <<b>> \in Seq(Byte) /\ Len(<<b>>) = 1 /\ <<b>>[1] = b
    BY OneByte
  <1>5. \A k \in 1 .. 1 : k = 1
    OBVIOUS
  <1>6. Reencodes(<<b>>, p, p + 1)
    BY <1>1, <1>2, <1>4, <1>5 DEF Reencodes
  <1> QED
    BY <1>3, <1>6

\* and so are the bytes of a name.
LEMMA PartAgain ==
    ASSUME archive \in Seq(Byte), NEW p \in Nat, NEW n \in Nat, p + n <= Len(archive)
    PROVE  /\ SubSeq(archive, p + 1, p + n) \in Seq(Byte)
           /\ Len(SubSeq(archive, p + 1, p + n)) = n
           /\ Reencodes(SubSeq(archive, p + 1, p + n), p, p + n)
  <1>1. PICK w : w = SubSeq(archive, p + 1, p + n)
    OBVIOUS
  <1>2. w \in Seq(Byte) /\ Len(w) = n /\ \A k \in 1 .. n : w[k] = archive[p + k]
    BY <1>1
  <1>3. Reencodes(w, p, p + n)
    BY <1>2 DEF Reencodes
  <1> QED
    BY <1>1, <1>2, <1>3

\* An entry is its five parts.
LEMMA EntryRecord ==
    ASSUME NEW v1 \in Nat, NEW v2 \in Nat, NEW v3 \in Nat, NEW c \in Byte, NEW name \in Seq(Byte),
           NEW e, e = [offset |-> v1, packed_size |-> v2, original_size |-> v3, flags |-> c,
                       name |-> name]
    PROVE  /\ e \in Entry /\ e.name = name
           /\ e.offset = v1 /\ e.packed_size = v2 /\ e.original_size = v3 /\ e.flags = c
  BY DEF Entry

\* The entry these reads and the name behind them make.
EntryMade(offset, packed_size, original_size, flags, length) ==
    [offset |-> offset.value, packed_size |-> packed_size.value,
     original_size |-> original_size.value, flags |-> Coded[flags.value],
     name |-> SubSeq(archive, length.end + 1, length.end + length.value)]

\* An entry as it was read.
LEMMA EntryAgain ==
    ASSUME archive \in Seq(Byte), NEW p \in Nat,
           NEW offset, NEW packed_size, NEW original_size, NEW flags, NEW length,
           EntryReads(p, offset, packed_size, original_size, flags, length),
           length.ok, length.end + length.value <= Len(archive),
           NEW e, e = EntryMade(offset, packed_size, original_size, flags, length)
    PROVE  /\ e \in Entry /\ length.end \in Nat /\ length.value \in Nat
           /\ Len(e.name) = length.value
           /\ Reencodes(WriteEntry(e), p, length.end + length.value)
  <1>1. /\ offset = ReadVarint(p) /\ packed_size = VarintAfter(offset)
        /\ original_size = VarintAfter(packed_size) /\ flags = ByteAfter(original_size)
        /\ length = VarintAfter(flags)
    BY DEF EntryReads
  <1>2. flags.ok /\ length = ReadVarint(flags.end)
    BY <1>1 DEF VarintAfter, Failed
  <1>3. original_size.ok /\ flags = ReadByte(original_size.end)
    BY <1>1, <1>2 DEF ByteAfter, Failed
  <1>4. packed_size.ok /\ original_size = ReadVarint(packed_size.end)
    BY <1>1, <1>3 DEF VarintAfter, Failed
  <1>5. offset.ok /\ packed_size = ReadVarint(offset.end)
    BY <1>1, <1>4 DEF VarintAfter, Failed
  <1>6. PICK v1, p1 \in Nat :
           v1 = offset.value /\ p1 = offset.end /\ Reencodes(WriteVarint[v1], p, p1)
    BY <1>1, <1>5, VarintAgain, SizeNumber
  <1>7. PICK v2, p2 \in Nat :
           v2 = packed_size.value /\ p2 = packed_size.end /\ Reencodes(WriteVarint[v2], p1, p2)
    BY <1>4, <1>5, <1>6, VarintAgain, SizeNumber
  <1>8. PICK v3, p3 \in Nat :
           v3 = original_size.value /\ p3 = original_size.end /\ Reencodes(WriteVarint[v3], p2, p3)
    BY <1>3, <1>4, <1>7, VarintAgain, SizeNumber
  <1>9. PICK b \in Byte, p4 \in Nat :
           b = flags.value /\ p4 = flags.end /\ Reencodes(<<b>>, p3, p4)
    <2>1. p3 + 1 \in Nat
      OBVIOUS
    <2> QED
      BY <1>2, <1>3, <1>8, <2>1, ByteAgain
  <1>10. PICK v5, p5 \in Nat :
           v5 = length.value /\ p5 = length.end /\ Reencodes(WriteVarint[v5], p4, p5)
    BY <1>2, <1>9, VarintAgain, SizeNumber
  <1>11. PICK name \in Seq(Byte), p6 \in Nat :
            /\ name = SubSeq(archive, p5 + 1, p5 + v5) /\ Len(name) = v5
            /\ p6 = p5 + v5 /\ Reencodes(name, p5, p6)
    <2>1. p5 + v5 <= Len(archive)
      BY <1>10, Zenon
    <2>2. p5 + v5 \in Nat
      OBVIOUS
    <2> QED
      BY <2>1, <2>2, PartAgain
  <1>12. PICK c \in Byte : c = Coded[b] /\ Coded[c] = b
    BY CodedByte
  <1>13. e = [offset |-> v1, packed_size |-> v2, original_size |-> v3, flags |-> c,
              name |-> name]
    <2>1. e = [offset |-> offset.value, packed_size |-> packed_size.value,
               original_size |-> original_size.value, flags |-> Coded[flags.value],
               name |-> SubSeq(archive, length.end + 1, length.end + length.value)]
      BY Zenon DEF EntryMade
    <2> QED
      BY <1>6, <1>7, <1>8, <1>9, <1>10, <1>11, <1>12, <2>1
  <1>14. e \in Entry /\ e.name = name
    <2>1. e.name = name
      BY <1>13, EntryRecord
    <2>2. [offset |-> v1, packed_size |-> v2, original_size |-> v3, flags |-> c,
           name |-> name] \in Entry
      BY DEF Entry
    <2>3. e \in Entry
      BY <1>13, <2>2, Zenon
    <2> QED
      BY <2>1, <2>3
  <1>15. PICK a1, a2, a3, a4, a5 \in Seq(Byte) :
            /\ a1 = WriteVarint[v1] /\ a2 = WriteVarint[v2] /\ a3 = WriteVarint[v3]
            /\ a4 = <<b>> /\ a5 = WriteVarint[v5]
    <2>1. /\ WriteVarint[v1] \in Seq(Byte) /\ WriteVarint[v2] \in Seq(Byte)
          /\ WriteVarint[v3] \in Seq(Byte) /\ WriteVarint[v5] \in Seq(Byte)
      BY VarintBytes
    <2>2. <<b>> \in Seq(Byte)
      BY OneByte
    <2> QED
      BY <2>1, <2>2, Zenon
  <1>16. WriteEntry(e) = ((((a1 \o a2) \o a3) \o a4) \o a5) \o name
    <2>1. e.offset = v1 /\ e.packed_size = v2 /\ e.original_size = v3 /\ e.flags = c
      BY <1>13, EntryRecord
    <2>2. Len(e.name) = v5 /\ e.name = name
      BY <1>11, <1>14
    <2> QED
      BY <1>12, <1>15, <2>1, <2>2, Zenon DEF WriteEntry
  <1>17. PICK w2 \in Seq(Byte) : w2 = a1 \o a2 /\ Reencodes(w2, p, p2)
    <2>1. a1 \o a2 \in Seq(Byte)
      BY ConcatBytes, Zenon
    <2>2. Reencodes(a1, p, p1) /\ Reencodes(a2, p1, p2)
      BY <1>6, <1>7, <1>15
    <2> QED
      BY <2>1, <2>2, AgainAfter
  <1>18. PICK w3 \in Seq(Byte) : w3 = w2 \o a3 /\ Reencodes(w3, p, p3)
    <2>1. w2 \o a3 \in Seq(Byte)
      BY ConcatBytes, Zenon
    <2>2. Reencodes(a3, p2, p3)
      BY <1>8, <1>15
    <2> QED
      BY <1>17, <2>1, <2>2, AgainAfter
  <1>19. PICK w4 \in Seq(Byte) : w4 = w3 \o a4 /\ Reencodes(w4, p, p4)
    <2>1. w3 \o a4 \in Seq(Byte)
      BY ConcatBytes, Zenon
    <2>2. Reencodes(a4, p3, p4)
      BY <1>9, <1>15
    <2> QED
      BY <1>18, <2>1, <2>2, AgainAfter
  <1>20. PICK w5 \in Seq(Byte) : w5 = w4 \o a5 /\ Reencodes(w5, p, p5)
    <2>1. w4 \o a5 \in Seq(Byte)
      BY ConcatBytes, Zenon
    <2>2. Reencodes(a5, p4, p5)
      BY <1>10, <1>15
    <2> QED
      BY <1>19, <2>1, <2>2, AgainAfter
  <1>21. Reencodes(w5 \o name, p, p6)
    <2>1. Reencodes(name, p5, p6) /\ Reencodes(w5, p, p5)
      BY <1>11, <1>20
    <2> QED
      BY <2>1, AgainAfter
  <1>22. WriteEntry(e) = w5 \o name
    BY <1>16, <1>17, <1>18, <1>19, <1>20, Zenon
  <1> QED
    BY <1>10, <1>11, <1>14, <1>21, <1>22

\* The entries that rows say, with their names in name_storage.
EntriesOf(rows) == [i \in DOMAIN rows |-> EntryRead(rows[i])]

\* Their names are there.
NamesStored(rows) ==
    /\ name_storage \in Seq(Byte) /\ rows \in Seq(Row)
    /\ \A i \in 1 .. Len(rows) : rows[i].start + rows[i].length <= Len(name_storage)

\* AcceptedIsEncoding, and what it takes to keep it.
AgainInv ==
    /\ archive \in Seq(Byte)
    /\ pc \in {"read", "build", "header", "count"} => pending = <<>> /\ name_storage = <<>>
    /\ pc = "count" => position = HeaderLength
    /\ pc = "entries" =>
          /\ count \in Nat /\ position \in Nat /\ next \in Nat
          /\ Len(pending) = next - 1 /\ next - 1 <= count
          /\ NamesStored(pending)
          /\ Reencodes(WriteVarint[count] \o WriteEntries(EntriesOf(pending)),
                       HeaderLength, position)
    /\ pc = "scan" =>
          /\ position \in Nat /\ NamesStored(index)
          /\ Reencodes(WriteIndex(EntriesRead), HeaderLength, position)

\* They are entries that can be written.
LEMMA EntriesOfRows ==
    ASSUME NEW rows, NamesStored(rows)
    PROVE  EntriesOf(rows) \in Seq(Entry) /\ Len(EntriesOf(rows)) = Len(rows)
  <1>1. rows \in Seq(Row) /\ name_storage \in Seq(Byte) /\ DOMAIN rows = 1 .. Len(rows)
        /\ Len(rows) \in Nat
    BY DEF NamesStored
  <1>2. ASSUME NEW i \in 1 .. Len(rows)
        PROVE  EntryRead(rows[i]) \in Entry
    <2>1. PICK r \in Row : r = rows[i] /\ r.start + r.length <= Len(name_storage)
      BY <1>1 DEF NamesStored
    <2>2. NameOf(r) \in Seq(Byte)
      <3>1. r.start \in Nat /\ r.length \in Nat
        BY DEF Row
      <3>2. PICK m, n \in Nat : m = r.start /\ n = r.length /\ m + n <= Len(name_storage)
        BY <2>1, <3>1
      <3>3. SubSeq(name_storage, m + 1, m + n) \in Seq(Byte)
        BY <1>1, <3>2
      <3> QED
        BY <3>2, <3>3 DEF NameOf
    <2>3. EntryRead(r) \in Entry
      BY <2>2 DEF EntryRead, Row, Entry
    <2> QED
      BY <2>1, <2>3
  <1> QED
    BY <1>1, <1>2 DEF EntriesOf

\* Further names leave it as it is.
LEMMA EntriesKept ==
    ASSUME NEW rows, NamesStored(rows), NEW row \in Row, NEW name \in Seq(Byte),
           row.start = Len(name_storage), row.length = Len(name),
           name_storage' = name_storage \o name
    PROVE  /\ (NamesStored(Append(rows, row)))'
           /\ EntriesOf(Append(rows, row))'
                = Append(EntriesOf(rows),
                         [offset |-> row.offset, packed_size |-> row.packed_size,
                          original_size |-> row.original_size, flags |-> row.flags,
                          name |-> name])
  <1>1. PICK n \in Nat, m \in Nat, l \in Nat, s \in Seq(Byte) :
           /\ n = Len(rows) /\ s = name_storage /\ m = Len(s) /\ l = Len(name)
           /\ rows \in Seq(Row) /\ DOMAIN rows = 1 .. n
           /\ \A i \in 1 .. n : rows[i].start + rows[i].length <= m
    BY DEF NamesStored
  <1>2. PICK t \in Seq(Byte) : t = name_storage' /\ t = s \o name /\ Len(t) = m + l
    BY <1>1, ConcatBytes
  <1>3. PICK longer \in Seq(Row) :
           /\ longer = Append(rows, row) /\ Len(longer) = n + 1 /\ longer[n + 1] = row
           /\ DOMAIN longer = 1 .. n + 1
           /\ \A i \in 1 .. n : longer[i] = rows[i]
    <2>1. Append(rows, row) \in Seq(Row) /\ Len(Append(rows, row)) = n + 1
      BY <1>1
    <2>2. \A i \in 1 .. n : Append(rows, row)[i] = rows[i]
      BY <1>1
    <2>3. Append(rows, row)[n + 1] = row
      BY <1>1
    <2>4. DOMAIN Append(rows, row) = 1 .. n + 1
      BY <2>1
    <2> QED
      BY <2>1, <2>2, <2>3, <2>4, Zenon
  <1>4. \A i \in 1 .. n + 1 : i \in 1 .. n \/ i = n + 1
    OBVIOUS
  <1>5. NamesStored(longer)'
    <2>1. ASSUME NEW i \in 1 .. n + 1
          PROVE  longer[i].start + longer[i].length <= m + l
      <3>1. CASE i \in 1 .. n
        <4>1. PICK a, b \in Nat : a = rows[i].start /\ b = rows[i].length
          <5>1. rows[i] \in Row
            BY <1>1, <3>1
          <5> QED
            BY <5>1 DEF Row
        <4>2. a + b <= m
          BY <1>1, <3>1, <4>1
        <4> QED
          BY <1>3, <3>1, <4>1, <4>2, SMTT(60)
      <3>2. CASE i = n + 1
        BY <1>1, <1>3, <3>2
      <3> QED
        BY <1>4, <3>1, <3>2
    <2> QED
      BY <1>2, <1>3, <2>1 DEF NamesStored
  <1>6. ASSUME NEW r \in Row, r.start + r.length <= m
        PROVE  EntryRead(r)' = EntryRead(r)
    <2>1. PICK a, b \in Nat : a = r.start /\ b = r.length /\ a + b <= m
      BY <1>6 DEF Row
    <2>2. SubSeq(s \o name, a + 1, a + b) = SubSeq(s, a + 1, a + b)
      <3>1. a + b <= Len(s)
        BY <1>1, <2>1
      <3> QED
        BY <3>1, PartOfConcat, SMTT(60)
    <2>3. NameOf(r)' = NameOf(r)
      BY <1>1, <1>2, <2>1, <2>2 DEF NameOf
    <2> QED
      BY <2>3 DEF EntryRead
  <1>7. EntryRead(row)' = [offset |-> row.offset, packed_size |-> row.packed_size,
                           original_size |-> row.original_size, flags |-> row.flags,
                           name |-> name]
    <2>1. SubSeq(s \o name, m + 1, m + l) = name
      <3>1. 0 \in Nat
        OBVIOUS
      <3> QED
        BY <1>1, <3>1, PartOfConcat
    <2>2. row.start = m /\ row.length = l
      BY <1>1
    <2>3. NameOf(row)' = name
      BY <1>1, <1>2, <2>1, <2>2 DEF NameOf
    <2> QED
      BY <2>3 DEF EntryRead
  <1>8. PICK e : e = EntryRead(row)'
    OBVIOUS
  <1>9. PICK list \in Seq(Entry) :
           /\ list = EntriesOf(rows) /\ Len(list) = n
           /\ \A i \in 1 .. n : list[i] = EntryRead(rows[i])
    <2>1. EntriesOf(rows) \in Seq(Entry) /\ Len(EntriesOf(rows)) = n
      BY <1>1, EntriesOfRows
    <2>2. \A i \in 1 .. n : EntriesOf(rows)[i] = EntryRead(rows[i])
      BY <1>1 DEF EntriesOf
    <2> QED
      BY <2>1, <2>2
  <1>10. EntriesOf(longer)' = [i \in 1 .. n + 1 |-> EntryRead(longer[i])']
    BY <1>3 DEF EntriesOf, EntryRead, NameOf
  <1>11. ASSUME NEW i \in 1 .. n + 1
         PROVE  EntryRead(longer[i])' = IF i = n + 1 THEN e ELSE list[i]
    <2>1. CASE i \in 1 .. n
      <3>1. PICK r \in Row : r = rows[i] /\ r.start + r.length <= m
        BY <1>1, <2>1
      <3>2. EntryRead(r)' = list[i]
        BY <1>6, <1>9, <2>1, <3>1
      <3>3. longer[i] = r /\ i # n + 1
        BY <1>3, <2>1, <3>1
      <3> QED
        BY <3>2, <3>3 DEF EntryRead, NameOf
    <2>2. CASE i = n + 1
      BY <1>3, <1>8, <2>2 DEF EntryRead, NameOf
    <2> QED
      BY <1>4, <2>1, <2>2
  <1>12. Append(list, e) = [i \in 1 .. n + 1 |-> IF i = n + 1 THEN e ELSE list[i]]
    <2>1. e \in Entry
      BY <1>7, <1>8 DEF Row, Entry
    <2>2. PICK a : a = [i \in 1 .. n + 1 |-> IF i = n + 1 THEN e ELSE list[i]]
      OBVIOUS
    <2>3. /\ a \in Seq(Entry) /\ Len(a) = n + 1 /\ a[n + 1] = e
          /\ \A i \in 1 .. n : a[i] = list[i]
      BY <1>9, <2>1, <2>2
    <2>4. PICK b : b = Append(list, e)
      OBVIOUS
    <2>5. /\ b \in Seq(Entry) /\ Len(b) = n + 1 /\ b[n + 1] = e
          /\ \A i \in 1 .. n : b[i] = list[i]
      BY <1>9, <2>1, <2>4
    <2>6. \A i \in 1 .. n + 1 : a[i] = b[i]
      BY <1>4, <2>3, <2>5
    <2>7. a = b
      BY <2>3, <2>5, <2>6, SeqEqual
    <2> QED
      BY <2>2, <2>4, <2>7
  <1>13. EntriesOf(longer)' = Append(list, e)
    BY <1>10, <1>11, <1>12
  <1> QED
    BY <1>3, <1>5, <1>7, <1>8, <1>9, <1>13, Zenon DEF EntriesOf, NamesStored

\* An index is its count and its entries.
LEMMA IndexBytes ==
    ASSUME NEW list \in Seq(Entry)
    PROVE  /\ WriteIndex(list) = WriteVarint[Len(list)] \o WriteEntries(list)
           /\ WriteIndex(list) \in Seq(Byte)
  <1>1. WriteVarint[Len(list)] \in Seq(Byte)
    <2>1. Len(list) \in Nat
      OBVIOUS
    <2> QED
      BY <2>1, VarintBytes
  <1>2. WriteEntries(list) \in Seq(Byte)
    BY EntriesOfNone
  <1>3. WriteVarint[Len(list)] \o WriteEntries(list) \in Seq(Byte)
    BY <1>1, <1>2, ConcatBytes, Zenon
  <1> QED
    BY <1>3, Zenon DEF WriteIndex

\* The invariant says what is promised.
LEMMA AgainImplies ==
    ASSUME AgainInv
    PROVE  AcceptedIsEncoding
  <1> SUFFICES ASSUME pc = "scan"
               PROVE  AcceptedIsEncoding
    BY DEF AcceptedIsEncoding
  <1>1. PICK h \in Nat : h = HeaderLength /\ h = Len(Magic) + 2 /\ Len(Magic) + 3 = h + 1
    BY ContainerAssumption DEF HeaderLength
  <1>2. PICK w \in Seq(Byte), p \in Nat :
           w = WriteIndex(EntriesRead) /\ p = position /\ Reencodes(w, h, p)
    <2>1. NamesStored(index) /\ position \in Nat
          /\ Reencodes(WriteIndex(EntriesRead), HeaderLength, position)
      BY DEF AgainInv
    <2>2. EntriesRead \in Seq(Entry)
      BY <2>1, EntriesOfRows DEF EntriesRead, EntriesOf
    <2> QED
      BY <1>1, <2>1, <2>2, IndexBytes
  <1>3. PICK s \in Nat, m \in Nat : s = Len(archive) /\ m = Len(w) /\ archive \in Seq(Byte)
    BY DEF AgainInv
  <1>4. h + m <= p /\ p <= s
    BY <1>2, <1>3 DEF Reencodes
  <1>5. PICK read : read = SubSeq(archive, h + 1, p)
    OBVIOUS
  <1>6. /\ read \in Seq(Byte) /\ Len(read) = p - h
        /\ \A k \in 1 .. p - h : read[k] = archive[h + k]
    BY <1>3, <1>4, <1>5
  <1>7. m <= Len(read)
    BY <1>4, <1>6
  <1>8. ASSUME m = Len(read), NEW k \in DOMAIN read
        PROVE  w[k] = read[k] \/ Overflows(read, k)
    <2>1. h + m = p /\ k \in 1 .. m /\ m = p - h
      BY <1>4, <1>6, <1>8
    <2>2. w[k] = archive[h + k] \/ Overflown(h, h + k)
      BY <1>2, <1>3, <2>1 DEF Reencodes
    <2>3. ASSUME Overflown(h, h + k)
          PROVE  Overflows(read, k)
      <3>1. PICK v \in Nat : v = VarintLimit /\ v # 0
        BY VarintAssumption
      <3>2. h + v <= h + k /\ \A i \in 1 .. v - 1 : archive[(h + k) - i] >= Base
        BY <2>3, <3>1 DEF Overflown
      <3>3. k >= v
        BY <2>1, <3>2
      <3>4. ASSUME NEW i \in 1 .. v - 1
            PROVE  read[k - i] >= Base
        <4>1. k - i \in 1 .. p - h /\ (h + k) - i = h + (k - i)
          BY <2>1, <3>3
        <4>2. archive[h + (k - i)] >= Base
          BY <3>2, <4>1
        <4> QED
          BY <1>6, <4>1, <4>2
      <3> QED
        BY <3>1, <3>3, <3>4 DEF Overflows
    <2> QED
      BY <1>6, <2>1, <2>2, <2>3
  <1>9. LET again == WriteIndex(EntriesRead)
            bytes == SubSeq(archive, Len(Magic) + 3, position)
        IN  /\ Len(again) <= Len(bytes)
            /\ Len(again) = Len(bytes) =>
                  \A k \in DOMAIN bytes : again[k] = bytes[k] \/ Overflows(bytes, k)
    <2>1. SubSeq(archive, Len(Magic) + 3, position) = read
      BY <1>1, <1>2, <1>5
    <2> QED
      BY <1>2, <1>3, <1>7, <1>8, <2>1
  <1> QED
    BY <1>9, Zenon DEF AcceptedIsEncoding

\* It holds at the beginning.
LEMMA AgainInit ==
    ASSUME Init
    PROVE  AgainInv
  <1>1. archive \in Seq(Byte)
    <2>1. archive = <<>> \/ archive \in Foreign
      BY DEF Init
    <2>2. Foreign \subseteq Seq(Byte) /\ <<>> \in Seq(Byte)
      BY ContainerAssumption
    <2> QED
      BY <2>1, <2>2
  <1>2. pending = <<>> /\ name_storage = <<>> /\ pc \in {"read", "header"}
    BY DEF Init
  <1> QED
    BY <1>1, <1>2 DEF AgainInv

\* Nothing has been read.
LEMMA BeforeReading ==
    ASSUME archive' \in Seq(Byte), pc' \in {"read", "build", "header", "done"},
           pc' # "done" => pending' = <<>> /\ name_storage' = <<>>
    PROVE  AgainInv'
  BY DEF AgainInv

\* The number of entries is read (index.cc:14).
LEMMA CountAgain ==
    ASSUME AgainInv, ParseCount
    PROVE  AgainInv'
  <1>1. archive \in Seq(Byte) /\ pending = <<>> /\ name_storage = <<>> /\ position = HeaderLength
    BY DEF AgainInv, ParseCount
  <1>2. archive' = archive
    BY DEF ParseCount, ReaderUnchanged
  <1> PICK read : read = ReadVarint(position)
    OBVIOUS
  <1>3. CASE CountAccepted(read)
    <2>1. /\ pc' = "entries" /\ count' = read.value /\ position' = read.end /\ next' = 1
          /\ UNCHANGED <<pending, name_storage>>
      BY <1>3 DEF ParseCount
    <2>2. HeaderLength \in Nat /\ read = ReadVarint(HeaderLength) /\ read.ok
      BY <1>1, <1>3, ContainerAssumption DEF HeaderLength, CountAccepted
    <2>3. PICK v, q \in Nat :
             v = read.value /\ q = read.end /\ Reencodes(WriteVarint[v], HeaderLength, q)
      BY <1>1, <2>2, VarintAgain, SizeNumber
    <2>4. EntriesOf(<<>>)' = <<>>
      BY DEF EntriesOf
    <2>5. WriteEntries(<<>>) = <<>>
      <3>1. <<>> \in Seq(Entry)
        OBVIOUS
      <3> QED
        BY <3>1, EntriesOfNone
    <2>6. WriteVarint[v] \o <<>> = WriteVarint[v]
      <3>1. WriteVarint[v] \in Seq(Byte)
        BY VarintBytes
      <3> QED
        BY <3>1
    <2>7. EntriesOf(pending)' = <<>>
      BY <1>1, <2>1, <2>4 DEF EntriesOf
    <2>8. (WriteVarint[count] \o WriteEntries(EntriesOf(pending)))' = WriteVarint[v]
      <3>1. WriteEntries(EntriesOf(pending))' = WriteEntries(<<>>)
        BY <2>7, Zenon DEF WriteEntries
      <3> QED
        BY <2>1, <2>3, <2>5, <2>6, <3>1
    <2>9. Reencodes(WriteVarint[count] \o WriteEntries(EntriesOf(pending)),
                    HeaderLength, position)'
      <3>1. PICK w, h : w = WriteVarint[v] /\ h = HeaderLength /\ Reencodes(w, h, q)
        BY <2>3
      <3>2. Reencodes(w, h, q)'
        BY <1>2, <3>1 DEF Reencodes, Overflown
      <3> QED
        BY <2>1, <2>3, <2>8, <3>1, <3>2 DEF HeaderLength
    <2>10. NamesStored(pending)'
      BY <1>1, <2>1 DEF NamesStored
    <2> QED
      BY <1>1, <1>2, <2>1, <2>3, <2>9, <2>10 DEF AgainInv
  <1>4. CASE ~CountAccepted(read)
    <2>1. pc' = "done"
      BY <1>4 DEF ParseCount, UnpackFails
    <2> QED
      BY <1>1, <1>2, <2>1, BeforeReading
  <1> QED
    BY <1>3, <1>4

\* One more entry is read (index.cc:39).
LEMMA EntryStepAgain ==
    ASSUME AgainInv, ParseEntry
    PROVE  AgainInv'
  <1>1. /\ archive \in Seq(Byte) /\ count \in Nat /\ position \in Nat /\ next \in Nat
        /\ Len(pending) = next - 1 /\ next <= count /\ NamesStored(pending) /\ pc = "entries"
        /\ Reencodes(WriteVarint[count] \o WriteEntries(EntriesOf(pending)),
                     HeaderLength, position)
    BY DEF AgainInv, ParseEntry
  <1>2. archive' = archive
    BY DEF ParseEntry, ReaderUnchanged
  <1> PICK offset, packed_size, original_size, flags, length :
         /\ offset = ReadVarint(position) /\ packed_size = VarintAfter(offset)
         /\ original_size = VarintAfter(packed_size) /\ flags = ByteAfter(original_size)
         /\ length = VarintAfter(flags)
    OBVIOUS
  <1>3. EntryReads(position, offset, packed_size, original_size, flags, length)
    BY DEF EntryReads
  <1> DEFINE accepted == LengthAccepted(length) /\ length.end + length.value <= Len(archive)
             name == SubSeq(archive, length.end + 1, length.end + length.value)
             row == [offset |-> offset.value, packed_size |-> packed_size.value,
                     original_size |-> original_size.value, flags |-> Coded[flags.value],
                     start |-> Len(name_storage), length |-> length.value]
  <1>4. CASE accepted
    <2>1. /\ pending' = Append(pending, row) /\ name_storage' = name_storage \o name
          /\ position' = length.end + length.value
          /\ next' = next + 1 /\ UNCHANGED <<pc, count>>
      BY <1>4, Zenon DEF ParseEntry
    <2>2. length.ok /\ length.end + length.value <= Len(archive)
      BY <1>4 DEF LengthAccepted
    <2>3. PICK e : e = EntryMade(offset, packed_size, original_size, flags, length)
      OBVIOUS
    <2>4. /\ e \in Entry /\ length.end \in Nat /\ length.value \in Nat
          /\ Len(e.name) = length.value
          /\ Reencodes(WriteEntry(e), position, length.end + length.value)
      BY <1>1, <1>3, <2>2, <2>3, EntryAgain
    <2>5. /\ e.offset = offset.value /\ e.packed_size = packed_size.value
          /\ e.original_size = original_size.value /\ e.flags = Coded[flags.value]
          /\ e.name = name
      BY <2>3 DEF EntryMade
    <2>6. /\ e.offset \in Nat /\ e.packed_size \in Nat /\ e.original_size \in Nat
          /\ e.flags \in Byte /\ e.name \in Seq(Byte)
          /\ e = [offset |-> e.offset, packed_size |-> e.packed_size,
                  original_size |-> e.original_size, flags |-> e.flags, name |-> e.name]
      BY <2>4 DEF Entry
    <2>7. PICK r : r = row
      OBVIOUS
    <2>8. r = [offset |-> e.offset, packed_size |-> e.packed_size,
               original_size |-> e.original_size, flags |-> e.flags,
               start |-> Len(name_storage), length |-> Len(e.name)]
      BY <2>4, <2>5, <2>7
    <2>9. /\ r \in Row /\ r.start = Len(name_storage) /\ r.length = Len(e.name)
          /\ r.offset = e.offset /\ r.packed_size = e.packed_size
          /\ r.original_size = e.original_size /\ r.flags = e.flags
      <3>1. name_storage \in Seq(Byte) /\ Len(name_storage) \in Nat
        BY <1>1 DEF NamesStored
      <3> QED
        BY <2>4, <2>6, <2>8, <3>1 DEF Row
    <2>10. PICK rows, w : rows = pending /\ w = e.name /\ w \in Seq(Byte)
      BY <2>6
    <2>11. /\ pending' = Append(rows, r) /\ name_storage' = name_storage \o w
           /\ NamesStored(rows) /\ r.start = Len(name_storage) /\ r.length = Len(w)
      BY <1>1, <2>1, <2>5, <2>7, <2>9, <2>10
    <2> HIDE DEF row, name, accepted
    <2>12. /\ NamesStored(Append(rows, r))'
           /\ EntriesOf(Append(rows, r))' = Append(EntriesOf(rows), e)
      <3>1. e = [offset |-> r.offset, packed_size |-> r.packed_size,
                 original_size |-> r.original_size, flags |-> r.flags, name |-> w]
        BY <2>6, <2>9, <2>10
      <3>2. /\ NamesStored(Append(rows, r))'
            /\ EntriesOf(Append(rows, r))'
                 = Append(EntriesOf(rows),
                          [offset |-> r.offset, packed_size |-> r.packed_size,
                           original_size |-> r.original_size, flags |-> r.flags, name |-> w])
        BY <2>9, <2>10, <2>11, EntriesKept
      <3> QED
        BY <3>1, <3>2, Zenon
    <2>13. NamesStored(pending)' /\ EntriesOf(pending)' = Append(EntriesOf(rows), e)
      BY <2>11, <2>12 DEF NamesStored, EntriesOf
    <2>14. PICK list \in Seq(Entry) : list = EntriesOf(rows) /\ EntriesOf(pending) = list
      BY <2>10, <2>11, EntriesOfRows
    <2>15. WriteEntries(EntriesOf(pending))' = WriteEntries(list) \o WriteEntry(e)
      <3>1. WriteEntries(Append(list, e)) = WriteEntries(list) \o WriteEntry(e)
        BY <2>4, EntriesAppend
      <3>2. EntriesOf(pending)' = Append(list, e)
        BY <2>13, <2>14
      <3> QED
        BY <3>1, <3>2, Zenon DEF WriteEntries, WriteEntry
    <2>16. PICK a, b, c \in Seq(Byte) :
              a = WriteVarint[count] /\ b = WriteEntries(list) /\ c = WriteEntry(e)
      <3>1. WriteVarint[count] \in Seq(Byte)
        BY <1>1, VarintBytes
      <3>2. WriteEntries(list) \in Seq(Byte)
        BY EntriesOfNone
      <3>3. WriteEntry(e) \in Seq(Byte)
        BY <2>4, EntryBytes
      <3> QED
        BY <3>1, <3>2, <3>3
    <2>17. PICK h, p, q \in Nat : h = HeaderLength /\ p = position
                                 /\ q = length.end + length.value
      <3>1. HeaderLength \in Nat
        BY ContainerAssumption DEF HeaderLength
      <3>2. length.end + length.value \in Nat
        BY <2>4
      <3> QED
        BY <1>1, <3>1, <3>2
    <2>18. Reencodes(a \o (b \o c), h, q)
      <3>1. Reencodes(a \o b, h, p)
        BY <1>1, <2>14, <2>16, <2>17
      <3>2. Reencodes(c, p, q)
        BY <2>4, <2>16, <2>17
      <3>3. a \o b \in Seq(Byte)
        BY ConcatBytes, Zenon
      <3>4. Reencodes((a \o b) \o c, h, q)
        BY <1>1, <3>1, <3>2, <3>3, AgainAfter
      <3>5. (a \o b) \o c = a \o (b \o c)
        BY ConcatAssociates, Zenon
      <3> QED
        BY <3>4, <3>5
    <2>19. (WriteVarint[count] \o WriteEntries(EntriesOf(pending)))' = a \o (b \o c)
      BY <2>1, <2>15, <2>16
    <2>20. Reencodes(WriteVarint[count] \o WriteEntries(EntriesOf(pending)),
                     HeaderLength, position)'
      <3>1. Reencodes(a \o (b \o c), h, q)'
        BY <1>2, <2>18 DEF Reencodes, Overflown
      <3> QED
        BY <2>1, <2>17, <2>19, <3>1 DEF HeaderLength
    <2>21. Len(pending') = next' - 1 /\ next' - 1 <= count' /\ next' \in Nat /\ count' \in Nat
           /\ position' \in Nat /\ pc' = "entries"
      <3>1. Len(Append(rows, r)) = Len(rows) + 1
        BY <2>9, <2>11 DEF NamesStored
      <3> QED
        BY <1>1, <2>1, <2>10, <2>11, <2>17, <3>1
    <2>22. archive' \in Seq(Byte)
      BY <1>1, <1>2
    <2> QED
      BY <2>13, <2>20, <2>21, <2>22 DEF AgainInv
  <1>5. CASE ~accepted
    <2>1. pc' = "done"
      BY <1>5, Zenon DEF ParseEntry, UnpackFails
    <2> QED
      BY <1>1, <1>2, <2>1, BeforeReading
  <1> QED
    BY <1>4, <1>5

\* The entries are returned (index.cc:76).
LEMMA ViewsAgain ==
    ASSUME AgainInv, MakeViews
    PROVE  AgainInv'
  <1>1. /\ archive \in Seq(Byte) /\ count \in Nat /\ position \in Nat /\ next \in Nat
        /\ Len(pending) = next - 1 /\ next - 1 <= count /\ next > count /\ NamesStored(pending)
        /\ Reencodes(WriteVarint[count] \o WriteEntries(EntriesOf(pending)),
                     HeaderLength, position)
    BY DEF AgainInv, MakeViews
  <1>2. /\ index' = pending /\ pc' = "scan"
        /\ UNCHANGED <<name_storage, position, archive>>
    BY DEF MakeViews, ReaderUnchanged
  <1>3. NamesStored(index)'
    BY <1>1, <1>2 DEF NamesStored
  <1>4. PICK list \in Seq(Entry) : list = EntriesOf(pending) /\ Len(list) = count
    <2>1. Len(pending) = count
      BY <1>1
    <2> QED
      BY <1>1, <2>1, EntriesOfRows
  <1>5. EntriesRead' = list
    BY <1>2, <1>4 DEF EntriesRead, EntriesOf, EntryRead, NameOf
  <1>6. WriteIndex(list) = WriteVarint[count] \o WriteEntries(EntriesOf(pending))
    BY <1>4, IndexBytes
  <1>7. WriteIndex(EntriesRead)' = WriteIndex(list)
    BY <1>5, Zenon DEF WriteIndex, WriteEntries
  <1>8. PICK w, h, p : /\ w = WriteIndex(list) /\ h = HeaderLength /\ p = position
                       /\ Reencodes(w, h, p)
    BY <1>1, <1>6
  <1>9. Reencodes(w, h, p)'
    BY <1>2, <1>8 DEF Reencodes, Overflown
  <1>10. Reencodes(WriteIndex(EntriesRead), HeaderLength, position)'
    BY <1>2, <1>7, <1>8, <1>9 DEF HeaderLength
  <1> QED
    BY <1>1, <1>2, <1>3, <1>10 DEF AgainInv

\* The first pass over the chunks leaves the index as it is.
LEMMA ScanAgain ==
    ASSUME AgainInv, pc = "scan", UNCHANGED <<archive, position, name_storage, index>>,
           pc' \in {"scan", "extract", "done"}
    PROVE  AgainInv'
  <1>1. archive' \in Seq(Byte)
    BY DEF AgainInv
  <1>2. CASE pc' # "scan"
    BY <1>1, <1>2 DEF AgainInv
  <1>3. CASE pc' = "scan"
    <2>1. /\ position \in Nat /\ NamesStored(index)
          /\ Reencodes(WriteIndex(EntriesRead), HeaderLength, position)
      BY DEF AgainInv
    <2>2. NamesStored(index)' /\ EntriesRead' = EntriesRead
      BY <2>1 DEF NamesStored, EntriesRead, EntryRead, NameOf
    <2>3. PICK w, h, p : /\ w = WriteIndex(EntriesRead) /\ h = HeaderLength /\ p = position
                         /\ Reencodes(w, h, p)
      BY <2>1
    <2>4. WriteIndex(EntriesRead)' = w
      BY <2>2, <2>3, Zenon DEF WriteIndex, WriteEntries
    <2>5. Reencodes(w, h, p)'
      BY <2>3 DEF Reencodes, Overflown
    <2>6. Reencodes(WriteIndex(EntriesRead), HeaderLength, position)'
      BY <2>3, <2>4, <2>5 DEF HeaderLength
    <2> QED
      BY <1>1, <1>3, <2>1, <2>2, <2>6 DEF AgainInv
  <1> QED
    BY <1>2, <1>3

\* Every step keeps the invariant.
LEMMA AgainStep ==
    ASSUME BackInv, AgainInv, [Next]_vars
    PROVE  AgainInv'
  <1>1. archive \in Seq(Byte)
    BY DEF AgainInv
  <1>2. ASSUME pc \in {"read", "build", "header"}, UNCHANGED <<archive, indexVars>>,
               pc' \in {"read", "build", "header", "done"}
        PROVE  AgainInv'
    <2>1. pending' = <<>> /\ name_storage' = <<>>
      BY <1>2 DEF AgainInv, indexVars
    <2> QED
      BY <1>1, <1>2, <2>1, BeforeReading
  <1>3. CASE ReadInput
    BY <1>2, <1>3 DEF ReadInput, PackFails
  <1>4. CASE AddFile
    BY <1>2, <1>4 DEF AddFile
  <1>5. CASE WriteArchive
    <2>1. CASE PackFails /\ UNCHANGED archive
      BY <1>1, <2>1, BeforeReading DEF PackFails
    <2>2. CASE archive' = Packed /\ pc' = "header"
      <3>1. archive' \in Seq(Byte)
        BY <1>5, <2>2, PackedLies DEF BackInv, WriteArchive
      <3>2. pending' = <<>> /\ name_storage' = <<>>
        BY <1>5 DEF AgainInv, WriteArchive, indexVars
      <3> QED
        BY <2>2, <3>1, <3>2, BeforeReading
    <2> QED
      BY <1>5, <2>1, <2>2 DEF WriteArchive
  <1>6. CASE Cut
    <2>1. pc' = "header" /\ pending' = <<>> /\ name_storage' = <<>>
      BY <1>6 DEF Cut, AgainInv, indexVars
    <2>2. PICK left \in 0 .. Len(archive) - 1 : archive' = SubSeq(archive, 1, left)
      BY <1>6 DEF Cut
    <2>3. archive' \in Seq(Byte)
      BY <1>1, <2>2
    <2> QED
      BY <2>1, <2>3, BeforeReading
  <1>7. CASE ParseHeader
    <2>1. archive' = archive /\ pending = <<>> /\ name_storage = <<>>
      BY <1>7 DEF ParseHeader, ReaderUnchanged, AgainInv
    <2>2. CASE UnpackFails
      BY <1>1, <2>1, <2>2, BeforeReading DEF UnpackFails
    <2>3. CASE pc' = "count" /\ position' = Len(Magic) + 2 /\ UNCHANGED indexVars
      BY <1>1, <2>1, <2>3 DEF AgainInv, HeaderLength, indexVars
    <2> QED
      BY <1>7, <2>2, <2>3 DEF ParseHeader
  <1>8. CASE ParseCount
    BY <1>8, CountAgain
  <1>9. CASE ParseEntry
    BY <1>9, EntryStepAgain
  <1>10. CASE MakeViews
    BY <1>10, ViewsAgain
  <1>11. CASE ScanChunk
    <2>1. pc = "scan" /\ archive' = archive /\ pc' \in {"scan", "extract", "done"}
      BY <1>11 DEF ScanChunk, ReaderUnchanged, UnpackFails
    <2>2. UNCHANGED <<position, name_storage, index>>
      BY <1>11 DEF ScanChunk, UnpackFails, indexVars
    <2> QED
      BY <2>1, <2>2, ScanAgain
  <1>12. CASE ExtractEntry
    <2>1. archive' = archive /\ pc' \in {"extract", "done"}
      BY <1>12 DEF ExtractEntry, UnpackFails
    <2> QED
      BY <1>1, <2>1 DEF AgainInv
  <1>13. CASE UNCHANGED vars
    <2>1. UNCHANGED <<archive, pc, position, count, next, pending, name_storage, index>>
      BY <1>13 DEF vars, indexVars
    <2>2. CASE pc = "scan"
      BY <2>1, <2>2, ScanAgain
    <2>3. CASE pc = "entries"
      <3>1. NamesStored(pending)' = NamesStored(pending)
        BY <2>1 DEF NamesStored
      <3>2. (WriteVarint[count] \o WriteEntries(EntriesOf(pending)))'
              = WriteVarint[count] \o WriteEntries(EntriesOf(pending))
        <4>1. EntriesOf(pending)' = EntriesOf(pending)
          BY <2>1 DEF EntriesOf, EntryRead, NameOf
        <4>2. PICK list : list = EntriesOf(pending)
          OBVIOUS
        <4>3. WriteEntries(EntriesOf(pending))' = WriteEntries(list)
          BY <4>1, <4>2, Zenon DEF WriteEntries, WriteEntry
        <4> QED
          BY <2>1, <4>2, <4>3, Zenon
      <3>3. Reencodes(WriteVarint[count] \o WriteEntries(EntriesOf(pending)),
                      HeaderLength, position)'
        <4>1. PICK w, h, p :
                 /\ w = WriteVarint[count] \o WriteEntries(EntriesOf(pending))
                 /\ h = HeaderLength /\ p = position /\ Reencodes(w, h, p)
          BY <2>3 DEF AgainInv
        <4>2. Reencodes(w, h, p)'
          BY <2>1, <4>1 DEF Reencodes, Overflown
        <4> QED
          BY <2>1, <3>2, <4>1, <4>2 DEF HeaderLength
      <3> QED
        BY <2>1, <2>3, <3>1, <3>3 DEF AgainInv
    <2>4. CASE pc \notin {"scan", "entries"}
      BY <2>1, <2>4 DEF AgainInv, HeaderLength
    <2> QED
      BY <2>2, <2>3, <2>4
  <1>14. CASE Done
    BY <1>13, <1>14 DEF Done
  <1> QED
    BY <1>3, <1>4, <1>5, <1>6, <1>7, <1>8, <1>9, <1>10, <1>11, <1>12, <1>13, <1>14 DEF Next

\* AcceptedIsEncoding of all bytes: whatever parseIndex (index.cc:13) accepts, writeIndex
\* (index.cc:90) would write no longer than it was; if as long, the same but for the
\* bits of a full-length varint that readVarint (header.cc:33) drops.
THEOREM AcceptedTheorem == ReaderSpec => []AcceptedIsEncoding
  <1>1. ComposedInit => BackInv /\ AgainInv
    BY BackInit, AgainInit DEF ComposedInit
  <1>2. BackInv /\ AgainInv /\ [ReaderNext]_<<vars, readerVars>> => BackInv' /\ AgainInv'
    BY ReaderStepBelow, StepBack, AgainStep, Zenon
  <1>3. AgainInv => AcceptedIsEncoding
    BY AgainImplies
  <1> QED
    BY <1>1, <1>2, <1>3, PTL DEF ReaderSpec

=============================================================================
