---------------------------- MODULE PathsProofs -----------------------------
(***************************************************************************)
(* What the operators of Paths return, for every lexicon of words: the     *)
(* parts of a sequence that a loop keeps, the codes that a list of tests   *)
(* reports, the folds over the components of a name, the name under which  *)
(* an entry is extracted, and what is left of a name that is sanitized.    *)
(* ManifestsProofs cites them.                                             *)
(***************************************************************************)
EXTENDS Paths, FiniteSetTheorems, SequenceTheorems, DataInduction, TLAPS

-----------------------------------------------------------------------------
(* Parts of a sequence.                                                    *)

\* Within takes one member of the sequence after the other.
Takes(f, s, S) ==
    /\ f[0] = <<>>
    /\ \A n \in 1 .. Len(s) :
          f[n] = IF s[n] \in S THEN Append(f[n - 1], s[n]) ELSE f[n - 1]

\* Within goes through a sequence from its first member on.
LEMMA WithinTakes ==
    ASSUME NEW T, NEW s \in Seq(T), NEW S
    PROVE  \E f \in [0 .. Len(s) -> Seq(T)] : Takes(f, s, S) /\ Within(s, S) = f[Len(s)]
<1> DEFINE N == Len(s)
           step == [k \in 1 .. N |->
                      [v \in Seq(T) |-> IF s[k] \in S THEN Append(v, s[k]) ELSE v]]
           Body(g) == [n \in 0 .. N |->
                         IF n = 0 THEN <<>>
                         ELSE IF s[n] \in S THEN Append(g[n - 1], s[n]) ELSE g[n - 1]]
           F == CHOOSE g : g = Body(g)
<1>1. N \in Nat /\ <<>> \in Seq(T) /\ \A k \in 1 .. N : s[k] \in T
  OBVIOUS
<1>2. step \in [1 .. N -> [Seq(T) -> Seq(T)]]
  BY <1>1
<1>3. PICK f \in [0 .. N -> Seq(T)] : Follows(f, <<>>, step, N)
  <2> HIDE DEF step, N
  <2> QED
    BY <1>1, <1>2, RecursionUpTo
<1>4. Takes(f, s, S)
  <2>1. \A k \in 1 .. N, v \in Seq(T) :
           step[k][v] = IF s[k] \in S THEN Append(v, s[k]) ELSE v
    OBVIOUS
  <2>2. \A k \in 1 .. N : f[k - 1] \in Seq(T)
    BY <1>1, <1>3
  <2> HIDE DEF step
  <2> QED
    BY <2>1, <2>2, <1>3 DEF Follows, Takes
<1>5. f = Body(f)
  <2>1. \A n \in 0 .. N : n # 0 => n \in 1 .. Len(s)
    BY <1>1
  <2>3. \A n \in 0 .. N : f[n] = IF n = 0 THEN <<>>
                                 ELSE IF s[n] \in S THEN Append(f[n - 1], s[n]) ELSE f[n - 1]
    BY <2>1, <1>4, Zenon DEF Takes
  <2>2. DOMAIN f = 0 .. N
    BY <1>3
  <2> QED
    BY <2>2, <2>3, <1>3
<1>6. F = Body(F)
  <2> HIDE DEF Body
  <2> QED
    BY <1>5, Zenon
<1>7. F[0] = <<>> /\ \A n \in 1 .. N :
         F[n] = IF s[n] \in S THEN Append(F[n - 1], s[n]) ELSE F[n - 1]
  <2> HIDE DEF F
  <2>1. \A n \in 0 .. N : F[n] = IF n = 0 THEN <<>>
                                 ELSE IF s[n] \in S THEN Append(F[n - 1], s[n]) ELSE F[n - 1]
    BY <1>6, Zenon
  <2>2. 0 \in 0 .. N /\ \A n \in 1 .. N : n \in 0 .. N /\ n # 0
    BY <1>1
  <2> QED
    BY <2>1, <2>2, Zenon
<1>8. Within(s, S) = F[N]
  BY DEF Within
<1> HIDE DEF F
<1>9. \A n \in Nat : n <= N => F[n] = f[n]
  <2> DEFINE G == {n \in Nat : n <= N => F[n] = f[n]}
  <2>1. 0 \in G
    BY <1>4, <1>7 DEF Takes
  <2>2. ASSUME NEW n \in Nat, n \in G
        PROVE  n + 1 \in G
    <3> SUFFICES ASSUME n + 1 <= N
                 PROVE  F[n + 1] = f[n + 1]
      OBVIOUS
    <3>1. n + 1 \in 1 .. N /\ (n + 1) - 1 = n /\ F[n] = f[n]
      BY <1>1, <2>2
    <3> HIDE DEF G, N
    <3> QED
      BY <3>1, <1>4, <1>7 DEF Takes, N
  <2> HIDE DEF G
  <2>3. \A n \in Nat : n \in G
    BY <2>1, <2>2, NumbersIn
  <2> QED
    BY <2>3 DEF G
<1> QED
  BY <1>1, <1>3, <1>4, <1>8, <1>9

\* The members of w are those of the first n of s that are in S: place[i] is
\* where the i-th comes from.
Places(place, w, s, S, n) ==
    /\ place \in [1 .. Len(w) -> 1 .. n]
    /\ \A i \in 1 .. Len(w) : w[i] = s[place[i]] /\ s[place[i]] \in S
    /\ \A i, j \in 1 .. Len(w) : i < j => place[i] < place[j]
    /\ \A k \in 1 .. n : s[k] \in S => \E i \in 1 .. Len(w) : place[i] = k

\* Within keeps the members that are in the set, in their order.
LEMMA WithinPlaces ==
    ASSUME NEW T, NEW s \in Seq(T), NEW S
    PROVE  /\ Within(s, S) \in Seq(T)
           /\ \E place : Places(place, Within(s, S), s, S, Len(s))
<1>1. PICK f \in [0 .. Len(s) -> Seq(T)] : Takes(f, s, S) /\ Within(s, S) = f[Len(s)]
  BY WithinTakes
<1> PICK N \in Nat : N = Len(s)
  OBVIOUS
<1> DEFINE G == {n \in Nat : n <= N => \E place : Places(place, f[n], s, S, n)}
<1>2. 0 \in G
  <2>1. f[0] = <<>>
    BY <1>1 DEF Takes
  <2>2. Places(<<>>, <<>>, s, S, 0)
    BY DEF Places
  <2> QED
    BY <2>1, <2>2
<1>3. ASSUME NEW n \in Nat, n \in G
      PROVE  n + 1 \in G
  <2> SUFFICES ASSUME n + 1 <= N
               PROVE  \E place : Places(place, f[n + 1], s, S, n + 1)
    OBVIOUS
  <2>1. PICK p : Places(p, f[n], s, S, n)
    BY <1>3
  <2>2. n + 1 \in 1 .. Len(s) /\ (n + 1) - 1 = n
    OBVIOUS
  <2>3. f[n + 1] = IF s[n + 1] \in S THEN Append(f[n], s[n + 1]) ELSE f[n]
    BY <1>1, <2>2 DEF Takes
  <2> PICK w \in Seq(T) : w = f[n]
    BY <1>1
  <2> PICK L \in Nat : L = Len(w)
    OBVIOUS
  <2>4. CASE s[n + 1] \in S
    <3> DEFINE q == [i \in 1 .. L + 1 |-> IF i = L + 1 THEN n + 1 ELSE p[i]]
               v == Append(w, s[n + 1])
    <3>1. v \in Seq(T) /\ Len(v) = L + 1 /\ v[L + 1] = s[n + 1]
          /\ \A i \in 1 .. L : v[i] = w[i]
      BY <2>2
    <3>2. p \in [1 .. L -> 1 .. n]
      BY <2>1 DEF Places
    <3>3. \A i \in 1 .. L : w[i] = s[p[i]] /\ s[p[i]] \in S
      BY <2>1 DEF Places
    <3>4. \A i, j \in 1 .. L : i < j => p[i] < p[j]
      BY <2>1 DEF Places
    <3>5. \A k \in 1 .. n : s[k] \in S => \E i \in 1 .. L : p[i] = k
      BY <2>1 DEF Places
    <3>14. \A i \in 1 .. L : i \in 1 .. L + 1 /\ i # L + 1
      OBVIOUS
    <3>15. \A i \in 1 .. L + 1 : q[i] = IF i = L + 1 THEN n + 1 ELSE p[i]
      OBVIOUS
    <3>16. \A i \in 1 .. L : p[i] \in 1 .. n
      BY <3>2
    <3>6. \A i \in 1 .. L : p[i] \in 1 .. n /\ i \in 1 .. L + 1 /\ q[i] = p[i]
      BY <3>14, <3>15, <3>16, Zenon
    <3>7. q[L + 1] = n + 1
      OBVIOUS
    <3>9. \A i \in 1 .. L + 1 : i = L + 1 \/ i \in 1 .. L
      OBVIOUS
    <3>17. \A i \in 1 .. L + 1 : (IF i = L + 1 THEN n + 1 ELSE p[i]) \in 1 .. n + 1
      <4>1. n + 1 \in 1 .. n + 1 /\ \A x \in 1 .. n : x \in 1 .. n + 1
        OBVIOUS
      <4> QED
        BY <3>9, <3>16, <4>1, Zenon
    <3>8. q \in [1 .. L + 1 -> 1 .. n + 1]
      BY <3>17, Zenon
    <3> HIDE DEF q, v
    <3>10. \A i \in 1 .. L + 1 : v[i] = s[q[i]] /\ s[q[i]] \in S
      BY <2>4, <3>1, <3>3, <3>6, <3>7, <3>9
    <3>11. \A i, j \in 1 .. L + 1 : i < j => q[i] < q[j]
      BY <3>4, <3>6, <3>7, <3>9
    <3>12. \A k \in 1 .. n + 1 : s[k] \in S => \E i \in 1 .. L + 1 : q[i] = k
      <4>1. \A k \in 1 .. n + 1 : k = n + 1 \/ k \in 1 .. n
        OBVIOUS
      <4>2. L + 1 \in 1 .. L + 1
        OBVIOUS
      <4> QED
        BY <3>5, <3>6, <3>7, <4>1, <4>2, Zenon
    <3>13. Places(q, v, s, S, n + 1)
      BY <3>1, <3>8, <3>10, <3>11, <3>12 DEF Places
    <3> QED
      BY <2>3, <2>4, <3>13 DEF v
  <2>5. CASE s[n + 1] \notin S
    <3>1. p \in [1 .. Len(w) -> 1 .. n + 1]
      BY <2>1 DEF Places
    <3>2. \A k \in 1 .. n + 1 : s[k] \in S => k \in 1 .. n
      BY <2>5
    <3>3. Places(p, w, s, S, n + 1)
      BY <2>1, <3>1, <3>2 DEF Places
    <3> QED
      BY <2>3, <2>5, <3>3
  <2> QED
    BY <2>4, <2>5
<1> HIDE DEF G
<1>4. \A n \in Nat : n \in G
  BY <1>2, <1>3, NumbersIn
<1>5. N \in G
  BY <1>4
<1> QED
  BY <1>1, <1>5 DEF G

\* So its members are those of s that are in the set.
LEMMA WithinMembers ==
    ASSUME NEW T, NEW s \in Seq(T), NEW S
    PROVE  /\ Within(s, S) \in Seq(T)
           /\ ToSet(Within(s, S)) = ToSet(s) \cap S
<1>1. PICK p : Places(p, Within(s, S), s, S, Len(s))
  BY WithinPlaces
<1>2. Within(s, S) \in Seq(T)
  BY WithinPlaces
<1> PICK w \in Seq(T) : w = Within(s, S)
  BY <1>2
<1>3. ToSet(w) = {w[i] : i \in 1 .. Len(w)} /\ ToSet(s) = {s[i] : i \in 1 .. Len(s)}
  BY DEF ToSet
<1>4. \A i \in 1 .. Len(w) : w[i] \in ToSet(s) \cap S
  BY <1>1, <1>3 DEF Places
<1>5. \A k \in 1 .. Len(s) : s[k] \in S => s[k] \in ToSet(w)
  BY <1>1, <1>3 DEF Places
<1>6. ToSet(w) = ToSet(s) \cap S
  BY <1>3, <1>4, <1>5
<1> QED
  BY <1>2, <1>6

\* Of members that satisfy no condition twice there is one at most.
LEMMA WithinUnique ==
    ASSUME NEW T, NEW s \in Seq(T), NEW S,
           \A i, j \in 1 .. Len(s) : s[i] \in S /\ s[j] \in S => i = j
    PROVE  /\ Len(Within(s, S)) \in {0, 1}
           /\ \A i \in 1 .. Len(s) : s[i] \in S => Within(s, S) = <<s[i]>>
           /\ ToSet(s) \cap S = {} => Within(s, S) = <<>>
<1>1. PICK p : Places(p, Within(s, S), s, S, Len(s))
  BY WithinPlaces
<1> PICK w \in Seq(T) : w = Within(s, S)
  BY WithinPlaces
<1> PICK L \in Nat : L = Len(w)
  OBVIOUS
<1>2. p \in [1 .. L -> 1 .. Len(s)] /\ \A i \in 1 .. L : w[i] = s[p[i]] /\ s[p[i]] \in S
  BY <1>1 DEF Places
<1>3. \A i, j \in 1 .. L : i < j => p[i] < p[j]
  BY <1>1 DEF Places
<1>4. L < 2
  <2> SUFFICES ASSUME L >= 2
               PROVE  FALSE
    OBVIOUS
  <2>1. 1 \in 1 .. L /\ 2 \in 1 .. L
    OBVIOUS
  <2>2. p[1] = p[2]
    BY <1>2, <2>1
  <2>3. p[1] < p[2] /\ p[1] \in Nat
    BY <1>2, <1>3, <2>1
  <2> QED
    BY <2>2, <2>3
<1>5. ASSUME NEW i \in 1 .. Len(s), s[i] \in S
      PROVE  w = <<s[i]>>
  <2>1. PICK j \in 1 .. L : p[j] = i
    BY <1>1, <1>5 DEF Places
  <2>2. L = 1 /\ w[1] = s[i]
    BY <1>2, <1>4, <2>1
  <2>3. w \in Seq(T) /\ Len(w) = 1 /\ w[1] = s[i]
    BY <2>2
  <2> QED
    BY <2>3
<1>6. ASSUME ToSet(s) \cap S = {}
      PROVE  w = <<>>
  <2>1. ToSet(s) = {s[i] : i \in 1 .. Len(s)}
    BY DEF ToSet
  <2>2. L = 0
    BY <1>2, <1>4, <1>6, <2>1
  <2>3. w \in Seq(T) /\ Len(w) = 0
    BY <2>2
  <2> QED
    BY <2>3
<1> QED
  BY <1>4, <1>5, <1>6

\* The members of a sequence, and of two put together.
LEMMA MembersOf ==
    ASSUME NEW T, NEW s \in Seq(T)
    PROVE  ToSet(s) = {s[i] : i \in 1 .. Len(s)} /\ ToSet(s) \subseteq T
  BY DEF ToSet

\* Two sequences put together have the members of both.
LEMMA MembersOfBoth ==
    ASSUME NEW T, NEW s \in Seq(T), NEW t \in Seq(T)
    PROVE  s \o t \in Seq(T) /\ ToSet(s \o t) = ToSet(s) \cup ToSet(t)
<1> PICK m \in Nat, n \in Nat : m = Len(s) /\ n = Len(t)
  OBVIOUS
<1>1. s \o t \in Seq(T) /\ Len(s \o t) = m + n
  OBVIOUS
<1>2. \A i \in 1 .. m : (s \o t)[i] = s[i]
  OBVIOUS
<1>3. \A i \in 1 .. n : (s \o t)[m + i] = t[i]
  OBVIOUS
<1>4. \A i \in 1 .. m + n : i \in 1 .. m \/ \E j \in 1 .. n : i = m + j
  <2> TAKE i \in 1 .. m + n
  <2>1. i <= m \/ (i - m \in 1 .. n /\ i = m + (i - m))
    OBVIOUS
  <2> QED
    BY <2>1
<1>5. \A i \in 1 .. m : i \in 1 .. m + n
  OBVIOUS
<1>6. \A i \in 1 .. n : m + i \in 1 .. m + n
  OBVIOUS
<1>7. ToSet(s) = {s[i] : i \in 1 .. m} /\ ToSet(t) = {t[i] : i \in 1 .. n}
      /\ ToSet(s \o t) = {(s \o t)[i] : i \in 1 .. m + n}
  BY <1>1, MembersOf
<1>8. ASSUME NEW x
      PROVE  x \in ToSet(s \o t) <=> x \in ToSet(s) \/ x \in ToSet(t)
  <2>1. x \in ToSet(s \o t) => x \in ToSet(s) \/ x \in ToSet(t)
    <3> SUFFICES ASSUME x \in ToSet(s \o t)
                 PROVE  x \in ToSet(s) \/ x \in ToSet(t)
      OBVIOUS
    <3>1. PICK i \in 1 .. m + n : x = (s \o t)[i]
      BY <1>7, Zenon
    <3>2. CASE i \in 1 .. m
      BY <1>2, <1>7, <3>1, <3>2, Zenon
    <3>3. CASE \E j \in 1 .. n : i = m + j
      <4>1. PICK j \in 1 .. n : i = m + j
        BY <3>3
      <4>2. x = t[j]
        BY <1>3, <3>1, <4>1, Zenon
      <4> QED
        BY <1>7, <4>2, Zenon
    <3> QED
      BY <1>4, <3>2, <3>3, Zenon
  <2>2. x \in ToSet(s) => x \in ToSet(s \o t)
    BY <1>2, <1>5, <1>7, Zenon
  <2>3. x \in ToSet(t) => x \in ToSet(s \o t)
    BY <1>3, <1>6, <1>7, Zenon
  <2> QED
    BY <2>1, <2>2, <2>3, Zenon
<1> QED
  BY <1>1, <1>8

\* So have three.
LEMMA MembersOfThree ==
    ASSUME NEW T, NEW s \in Seq(T), NEW t \in Seq(T), NEW u \in Seq(T)
    PROVE  /\ s \o t \o u \in Seq(T)
           /\ ToSet(s \o t \o u) = ToSet(s) \cup ToSet(t) \cup ToSet(u)
<1>1. s \o t \in Seq(T) /\ ToSet(s \o t) = ToSet(s) \cup ToSet(t)
  BY MembersOfBoth
<1>2. \A v \in Seq(T) : v \o u \in Seq(T) /\ ToSet(v \o u) = ToSet(v) \cup ToSet(u)
  BY MembersOfBoth
<1>3. s \o t \o u \in Seq(T) /\ ToSet(s \o t \o u) = ToSet(s \o t) \cup ToSet(u)
  BY <1>1, <1>2, Zenon
<1> QED
  BY <1>1, <1>3, Zenon

\* Adding one member at the end.
LEMMA MembersWith ==
    ASSUME NEW T, NEW s \in Seq(T), NEW x \in T
    PROVE  Append(s, x) \in Seq(T) /\ ToSet(Append(s, x)) = ToSet(s) \cup {x}
<1>1. Append(s, x) = s \o <<x>> /\ <<x>> \in Seq(T)
  OBVIOUS
<1>2. ToSet(<<x>>) = {x}
  BY DEF ToSet
<1>3. s \o <<x>> \in Seq(T) /\ ToSet(s \o <<x>>) = ToSet(s) \cup ToSet(<<x>>)
  BY <1>1, MembersOfBoth
<1> QED
  BY <1>1, <1>2, <1>3, Zenon

-----------------------------------------------------------------------------
(* The codes of tests that hold.                                           *)

\* Codes has the labels of the tests that hold.
LEMMA CodesMembers ==
    ASSUME NEW T, NEW tests \in Seq(T)
    PROVE  /\ Codes(tests) \in Seq({t.label : t \in T})
           /\ ToSet(Codes(tests)) = {t.label : t \in {u \in ToSet(tests) : u.holds}}
<1> DEFINE S == {t \in ToSet(tests) : t.holds}
           h == Within(tests, S)
           labels == [i \in DOMAIN h |-> h[i].label]
<1>1. h \in Seq(T) /\ ToSet(h) = ToSet(tests) \cap S
  <2> HIDE DEF S
  <2> QED
    BY WithinMembers
<1>2. ToSet(tests) \cap S = S
  OBVIOUS
<1>3. Codes(tests) = labels
  BY Zenon DEF Codes
<1> HIDE DEF h, S
<1> PICK n \in Nat : n = Len(h)
  BY <1>1
<1>4. DOMAIN h = 1 .. n /\ \A i \in 1 .. n : h[i] \in T
  BY <1>1
<1>5. ToSet(h) = {h[i] : i \in 1 .. n}
  BY <1>4 DEF ToSet
<1>6. ToSet(labels) = {labels[i] : i \in 1 .. n}
  BY <1>4 DEF ToSet
<1>7. \A i \in 1 .. n : labels[i] = h[i].label
  BY <1>4
<1>8. labels \in [1 .. n -> {t.label : t \in T}]
  BY <1>4
<1>9. labels \in Seq({t.label : t \in T})
  BY <1>8
<1> HIDE DEF labels
<1>10. ToSet(labels) = {t.label : t \in ToSet(h)}
  <2>1. \A x : x \in ToSet(labels) <=> \E i \in 1 .. n : x = h[i].label
    BY <1>6, <1>7, Zenon
  <2>2. \A x : x \in {t.label : t \in ToSet(h)} <=> \E i \in 1 .. n : x = h[i].label
    BY <1>5, Zenon
  <2> QED
    BY <2>1, <2>2
<1> QED
  BY <1>1, <1>2, <1>3, <1>9, <1>10, Zenon DEF S

\* For tests that are written out.
LEMMA CodesOf1 ==
    ASSUME NEW a, NEW A \in BOOLEAN
    PROVE  \A x : x \in ToSet(Codes(<<Test(a, A)>>)) <=> A /\ x = a
<1> DEFINE s == <<Test(a, A)>>
           T == {Test(a, A)}
<1>1. s \in Seq(T)
  OBVIOUS
<1>2. ToSet(s) = T
  BY DEF ToSet
<1>3. ToSet(Codes(s)) = {t.label : t \in {u \in ToSet(s) : u.holds}}
  <2> HIDE DEF s, T
  <2> QED
    BY <1>1, CodesMembers
<1> QED
  BY <1>2, <1>3 DEF Test

\* Two tests.
LEMMA CodesOf2 ==
    ASSUME NEW a, NEW A \in BOOLEAN, NEW b, NEW B \in BOOLEAN
    PROVE  \A x : x \in ToSet(Codes(<<Test(a, A), Test(b, B)>>))
                     <=> (A /\ x = a) \/ (B /\ x = b)
<1> DEFINE s == <<Test(a, A), Test(b, B)>>
           T == {Test(a, A), Test(b, B)}
<1>1. s \in Seq(T)
  OBVIOUS
<1>2. ToSet(s) = T
  BY DEF ToSet
<1>3. ToSet(Codes(s)) = {t.label : t \in {u \in ToSet(s) : u.holds}}
  <2> HIDE DEF s, T
  <2> QED
    BY <1>1, CodesMembers
<1> QED
  BY <1>2, <1>3 DEF Test

\* Three tests.
LEMMA CodesOf3 ==
    ASSUME NEW a, NEW A \in BOOLEAN, NEW b, NEW B \in BOOLEAN,
           NEW c, NEW C \in BOOLEAN
    PROVE  \A x : x \in ToSet(Codes(<<Test(a, A), Test(b, B), Test(c, C)>>))
                     <=> (A /\ x = a) \/ (B /\ x = b) \/ (C /\ x = c)
<1> DEFINE s == <<Test(a, A), Test(b, B), Test(c, C)>>
           T == {Test(a, A), Test(b, B), Test(c, C)}
<1>1. s \in Seq(T)
  OBVIOUS
<1>2. ToSet(s) = T
  BY DEF ToSet
<1>3. ToSet(Codes(s)) = {t.label : t \in {u \in ToSet(s) : u.holds}}
  <2> HIDE DEF s, T
  <2> QED
    BY <1>1, CodesMembers
<1> QED
  BY <1>2, <1>3 DEF Test

\* Four tests.
LEMMA CodesOf4 ==
    ASSUME NEW a, NEW A \in BOOLEAN, NEW b, NEW B \in BOOLEAN,
           NEW c, NEW C \in BOOLEAN, NEW d, NEW D \in BOOLEAN
    PROVE  \A x : x \in ToSet(Codes(<<Test(a, A), Test(b, B), Test(c, C), Test(d, D)>>))
                     <=> (A /\ x = a) \/ (B /\ x = b) \/ (C /\ x = c) \/ (D /\ x = d)
<1> DEFINE s == <<Test(a, A), Test(b, B), Test(c, C), Test(d, D)>>
           T == {Test(a, A), Test(b, B), Test(c, C), Test(d, D)}
<1>1. s \in Seq(T)
  OBVIOUS
<1>2. ToSet(s) = T
  BY DEF ToSet
<1>3. ToSet(Codes(s)) = {t.label : t \in {u \in ToSet(s) : u.holds}}
  <2> HIDE DEF s, T
  <2> QED
    BY <1>1, CodesMembers
<1> QED
  BY <1>2, <1>3 DEF Test

\* FlattenSeq puts the sequences together.
LEMMA FlattenMembers ==
    ASSUME NEW T, NEW ss \in Seq(Seq(T))
    PROVE  /\ FlattenSeq(ss) \in Seq(T)
           /\ \A x : x \in ToSet(FlattenSeq(ss)) <=> \E i \in 1 .. Len(ss) : x \in ToSet(ss[i])
<1> PICK N \in Nat : N = Len(ss)
  OBVIOUS
<1>1. \A i \in 1 .. N : ss[i] \in Seq(T)
  OBVIOUS
<1>2. CASE N = 0
  <2>1. FlattenSeq(ss) = <<>>
    <3>1. ss = <<>> /\ Len(ss) = 0
      <4>1. \A U : \A s \in Seq(U) : Len(s) = 0 => s = <<>>
        BY EmptySeq, Zenon
      <4> QED
        BY <1>2, <4>1
    <3>2. FlattenSeq(ss) = ss
      BY <3>1, Zenon DEF FlattenSeq
    <3> QED
      BY <3>1, <3>2
  <2>2. ToSet(<<>>) = {}
    BY DEF ToSet
  <2> QED
    BY <1>2, <2>1, <2>2
<1>3. CASE N # 0
  <2> DEFINE step == [k \in 1 .. N |-> [v \in Seq(T) |-> v \o ss[k]]]
             Body(g) == [i \in 1 .. N |-> IF i = 1 THEN ss[i] ELSE g[i - 1] \o ss[i]]
             F == CHOOSE g : g = Body(g)
  <2>1. <<>> \in Seq(T)
    OBVIOUS
  <2>2. \A k \in 1 .. N, v \in Seq(T) : v \o ss[k] \in Seq(T)
    BY <1>1
  <2>3. step \in [1 .. N -> [Seq(T) -> Seq(T)]]
    BY <2>2
  <2>4. \A k \in 1 .. N, v \in Seq(T) : step[k][v] = v \o ss[k]
    OBVIOUS
  <2> HIDE DEF step
  <2>5. PICK f \in [0 .. N -> Seq(T)] : Follows(f, <<>>, step, N)
    BY <2>1, <2>3, RecursionUpTo
  <2>6. \A k \in 1 .. N : f[k - 1] \in Seq(T) /\ f[k] \in Seq(T)
    <3>1. \A k \in 1 .. N : k - 1 \in 0 .. N /\ k \in 0 .. N
      OBVIOUS
    <3>2. \A k \in 0 .. N : f[k] \in Seq(T)
      BY <2>5, Zenon
    <3> QED
      BY <3>1, <3>2, Zenon
  <2>7. \A k \in 1 .. N : f[k] = f[k - 1] \o ss[k]
    BY <2>4, <2>5, <2>6, Zenon DEF Follows
  <2>8. f[0] = <<>> /\ 1 \in 1 .. N
    BY <1>3, <2>5 DEF Follows
  <2>9. f[1] = ss[1]
    <3>1. 1 - 1 = 0
      OBVIOUS
    <3>2. f[1] = f[0] \o ss[1]
      BY <2>7, <2>8, <3>1
    <3>3. \A s \in Seq(T) : <<>> \o s = s
      OBVIOUS
    <3> QED
      BY <1>1, <2>8, <3>2, <3>3
  <2> PICK e : e = [i \in 1 .. N |-> f[i]]
    OBVIOUS
  <2>10. e = Body(e)
    <3>1. \A i \in 1 .. N : i # 1 => i - 1 \in 1 .. N
      OBVIOUS
    <3>2. \A i \in 1 .. N : f[i] = IF i = 1 THEN ss[i] ELSE e[i - 1] \o ss[i]
      BY <2>7, <2>9, <3>1
    <3> QED
      BY <3>2
  <2>11. FlattenSeq(ss) = F[N]
    <3>1. Len(ss) = N /\ N # 0
      BY <1>3
    <3> QED
      BY <3>1, Zenon DEF FlattenSeq
  <2> HIDE DEF Body
  <2>12. F = Body(F)
    BY <2>10, Zenon
  <2> HIDE DEF F
  <2>13. \A i \in 1 .. N : F[i] = IF i = 1 THEN ss[i] ELSE F[i - 1] \o ss[i]
    BY <2>12, Zenon DEF Body
  <2> DEFINE S == {n \in Nat : n + 1 <= N => F[n + 1] = f[n + 1]}
             R == {n \in Nat : n <= N => \A x : x \in ToSet(f[n]) <=>
                                            \E i \in 1 .. n : x \in ToSet(ss[i])}
  <2>14. 0 \in S
    BY <2>8, <2>9, <2>13
  <2>15. ASSUME NEW n \in Nat, n \in S
         PROVE  n + 1 \in S
    <3> SUFFICES ASSUME (n + 1) + 1 <= N
                 PROVE  F[(n + 1) + 1] = f[(n + 1) + 1]
      OBVIOUS
    <3>1. PICK i \in 1 .. N : i = (n + 1) + 1 /\ i # 1 /\ i - 1 = n + 1
      OBVIOUS
    <3>2. F[n + 1] = f[n + 1]
      BY <2>15
    <3> HIDE DEF S
    <3>3. F[i] = F[i - 1] \o ss[i] /\ f[i] = f[i - 1] \o ss[i]
      BY <2>7, <2>13, <3>1, Zenon
    <3> QED
      BY <3>1, <3>2, <3>3, Zenon
  <2>16. 0 \in R
    <3>1. ToSet(f[0]) = {}
      BY <2>8 DEF ToSet
    <3> QED
      BY <3>1
  <2>17. ASSUME NEW n \in Nat, n \in R
         PROVE  n + 1 \in R
    <3> SUFFICES ASSUME n + 1 <= N, NEW x
                 PROVE  x \in ToSet(f[n + 1]) <=> \E i \in 1 .. n + 1 : x \in ToSet(ss[i])
      OBVIOUS
    <3>1. n + 1 \in 1 .. N /\ (n + 1) - 1 = n
      OBVIOUS
    <3>2. f[n + 1] = f[n] \o ss[n + 1] /\ f[n] \in Seq(T) /\ ss[n + 1] \in Seq(T)
      BY <1>1, <2>6, <2>7, <3>1
    <3>3. ToSet(f[n + 1]) = ToSet(f[n]) \cup ToSet(ss[n + 1])
      BY <3>2, MembersOfBoth
    <3>4. x \in ToSet(f[n]) <=> \E i \in 1 .. n : x \in ToSet(ss[i])
      <4>1. n <= N
        OBVIOUS
      <4> QED
        BY <2>17, <4>1, Zenon
    <3>5. \A i \in 1 .. n + 1 : i = n + 1 \/ i \in 1 .. n
      OBVIOUS
    <3>6. n + 1 \in 1 .. n + 1 /\ \A i \in 1 .. n : i \in 1 .. n + 1
      OBVIOUS
    <3> QED
      BY <3>3, <3>4, <3>5, <3>6, Zenon
  <2> HIDE DEF S, R
  <2>18. \A n \in Nat : n \in S
    BY <2>14, <2>15, NumbersIn
  <2>19. \A n \in Nat : n \in R
    BY <2>16, <2>17, NumbersIn
  <2>20. F[N] = f[N]
    <3>1. N - 1 \in Nat /\ (N - 1) + 1 = N
      BY <1>3
    <3>2. N - 1 \in S
      BY <2>18, <3>1
    <3> QED
      BY <3>1, <3>2 DEF S
  <2>21. f[N] \in Seq(T)
    BY <2>5
  <2>22. \A x : x \in ToSet(f[N]) <=> \E i \in 1 .. N : x \in ToSet(ss[i])
    <3>1. N \in R
      BY <2>19
    <3> QED
      BY <3>1 DEF R
  <2> QED
    BY <2>11, <2>20, <2>21, <2>22
<1> QED
  BY <1>2, <1>3

\* The first label is that of a test that holds after those that do not.
LEMMA FirstLabelIs ==
    ASSUME NEW T, NEW tests \in Seq(T), \E i \in 1 .. Len(tests) : tests[i].holds
    PROVE  \E k \in 1 .. Len(tests) : /\ tests[k].holds
                                      /\ \A j \in 1 .. k - 1 : ~tests[j].holds
                                      /\ FirstLabel(tests) = tests[k].label
<1> DEFINE I == {i \in 1 .. Len(tests) : tests[i].holds}
           k == CHOOSE x \in I : \A y \in I : x <= y
<1>1. I \subseteq Nat /\ I # {}
  OBVIOUS
<1>2. \E m \in I : \A y \in I : m <= y
  <2> HIDE DEF I
  <2> QED
    BY <1>1, LeastMember
<1>3. FirstLabel(tests) = tests[k].label
  <2>1. SelectInSeq(tests, LAMBDA t : t.holds) = Min(I)
    BY <1>1, Zenon DEF SelectInSeq
  <2>2. Min(I) = k
    BY DEF Min
  <2> QED
    BY <2>1, <2>2 DEF FirstLabel
<1>4. k \in I /\ \A y \in I : k <= y
  <2> HIDE DEF I
  <2> QED
    BY <1>2
<1> HIDE DEF k
<1>5. \A j \in 1 .. k - 1 : j \in 1 .. Len(tests) /\ ~(k <= j)
  BY <1>4
<1> QED
  BY <1>3, <1>4, <1>5

\* A sequence is empty if it has no members.
LEMMA NoneIsEmpty ==
    ASSUME NEW T, NEW s \in Seq(T)
    PROVE  s = <<>> <=> ToSet(s) = {}
<1>1. ToSet(s) = {s[i] : i \in 1 .. Len(s)}
  BY MembersOf
<1>2. s = <<>> <=> Len(s) = 0
  BY EmptySeq
<1>3. Len(s) \in Nat
  OBVIOUS
<1>4. Len(s) # 0 => 1 \in 1 .. Len(s)
  BY <1>3
<1>5. Len(s) = 0 => 1 .. Len(s) = {}
  OBVIOUS
<1> QED
  BY <1>1, <1>2, <1>4, <1>5, Zenon

-----------------------------------------------------------------------------
(* The classes of names and components.                                    *)

\* The lexicon says of every word what it must.
LEMMA WordIs ==
    ASSUME NEW w \in Words
    PROVE  Lexicon[w] \in WordFacts
  BY PathsAssumption

\* classifyComponent, question by question.
LEMMA KindIs ==
    ASSUME NEW p, NEW c \in Component
    PROVE  Kind(p, c) =
              IF c = Empty THEN "empty"
              ELSE IF c = Current THEN "current"
              ELSE IF c = Parent THEN "parent"
              ELSE IF Lexicon[c.word].drive THEN "drive"
              ELSE IF "device" \notin p.allowed /\ IsDevice(c) THEN "device"
              ELSE IF "control" \notin p.allowed /\ Lexicon[c.word].control THEN "control"
              ELSE IF "space" \notin p.allowed /\ EndsIn(c, "space") THEN "space"
              ELSE IF "dot" \notin p.allowed /\ EndsIn(c, "dot") THEN "dot"
              ELSE IF "wildcard" \notin p.allowed /\ Lexicon[c.word].wildcard THEN "wildcard"
              ELSE "normal"
<1> DEFINE A1 == c = Empty
           A2 == c = Current
           A3 == c = Parent
           A4 == Lexicon[c.word].drive
           A5 == "device" \notin p.allowed /\ IsDevice(c)
           A6 == "control" \notin p.allowed /\ Lexicon[c.word].control
           A7 == "space" \notin p.allowed /\ EndsIn(c, "space")
           A8 == "dot" \notin p.allowed /\ EndsIn(c, "dot")
           A9 == "wildcard" \notin p.allowed /\ Lexicon[c.word].wildcard
           s == <<Test("empty", A1), Test("current", A2), Test("parent", A3),
                  Test("drive", A4), Test("device", A5), Test("control", A6),
                  Test("space", A7), Test("dot", A8), Test("wildcard", A9),
                  Test("normal", TRUE)>>
           T == {Test("empty", A1), Test("current", A2), Test("parent", A3),
                  Test("drive", A4), Test("device", A5), Test("control", A6),
                  Test("space", A7), Test("dot", A8), Test("wildcard", A9),
                  Test("normal", TRUE)}
<1>1. Kind(p, c) = FirstLabel(s)
  BY Zenon DEF Kind
<1>2. c.word \in Words
  BY DEF Component
<1>3. A1 \in BOOLEAN /\ A2 \in BOOLEAN /\ A3 \in BOOLEAN /\ A4 \in BOOLEAN /\ A5 \in BOOLEAN
      /\ A6 \in BOOLEAN /\ A7 \in BOOLEAN /\ A8 \in BOOLEAN /\ A9 \in BOOLEAN
  BY <1>2, WordIs DEF WordFacts
<1> HIDE DEF A1, A2, A3, A4, A5, A6, A7, A8, A9
<1>4. s \in Seq(T)
  OBVIOUS
<1>5. Len(s) = 10
  OBVIOUS
<1>6. /\ s[1].holds = A1 /\ s[2].holds = A2 /\ s[3].holds = A3 /\ s[4].holds = A4
      /\ s[5].holds = A5 /\ s[6].holds = A6 /\ s[7].holds = A7 /\ s[8].holds = A8
      /\ s[9].holds = A9 /\ s[10].holds = TRUE
  BY DEF Test
<1>7. /\ s[1].label = "empty" /\ s[2].label = "current" /\ s[3].label = "parent"
      /\ s[4].label = "drive" /\ s[5].label = "device" /\ s[6].label = "control"
      /\ s[7].label = "space" /\ s[8].label = "dot" /\ s[9].label = "wildcard"
      /\ s[10].label = "normal"
  BY DEF Test
<1> HIDE DEF s, T
<1>8. \E i \in 1 .. Len(s) : s[i].holds
  BY <1>5, <1>6
<1>9. PICK k \in 1 .. Len(s) : /\ s[k].holds /\ \A j \in 1 .. k - 1 : ~s[j].holds
                              /\ FirstLabel(s) = s[k].label
  BY <1>4, <1>8, FirstLabelIs
<1>10. k \in {1, 2, 3, 4, 5, 6, 7, 8, 9, 10}
  BY <1>5
<1>11. FirstLabel(s) = IF A1 THEN "empty" ELSE IF A2 THEN "current" ELSE IF A3 THEN "parent"
                       ELSE IF A4 THEN "drive" ELSE IF A5 THEN "device"
                       ELSE IF A6 THEN "control" ELSE IF A7 THEN "space"
                       ELSE IF A8 THEN "dot" ELSE IF A9 THEN "wildcard" ELSE "normal"
  BY <1>3, <1>6, <1>7, <1>9, <1>10
<1> QED
  BY <1>1, <1>11 DEF A1, A2, A3, A4, A5, A6, A7, A8, A9

\* classifyArchiveName, in the same way.
LEMMA NameClassIs ==
    ASSUME NEW n \in Name
    PROVE  NameClass(n) =
              IF n = EmptyName THEN "empty"
              ELSE IF NameSize(n) > PathLimits.pathSize THEN "long"
              ELSE IF \E c \in ToSet(n.components) : Lexicon[c.word].control THEN "control"
              ELSE IF IsAbsolute(n) THEN "absolute"
              ELSE IF ToSet(n.components) \cap {Current, Parent} # {} THEN "dots"
              ELSE IF IsDevice(Last(n.components)) THEN "device"
              ELSE IF Len(n.components) > 1 THEN "directory" ELSE "simple"
<1> DEFINE A1 == n = EmptyName
           A2 == NameSize(n) > PathLimits.pathSize
           A3 == \E c \in ToSet(n.components) : Lexicon[c.word].control
           A4 == IsAbsolute(n)
           A5 == ToSet(n.components) \cap {Current, Parent} # {}
           A6 == IsDevice(Last(n.components))
           A7 == Len(n.components) > 1
           s == <<Test("empty", A1), Test("long", A2), Test("control", A3),
                  Test("absolute", A4), Test("dots", A5), Test("device", A6),
                  Test("directory", A7), Test("simple", TRUE)>>
           T == {Test("empty", A1), Test("long", A2), Test("control", A3),
                  Test("absolute", A4), Test("dots", A5), Test("device", A6),
                  Test("directory", A7), Test("simple", TRUE)}
<1>1. NameClass(n) = FirstLabel(s)
  BY Zenon DEF NameClass
<1>3. A1 \in BOOLEAN /\ A2 \in BOOLEAN /\ A3 \in BOOLEAN /\ A4 \in BOOLEAN /\ A5 \in BOOLEAN
      /\ A6 \in BOOLEAN /\ A7 \in BOOLEAN
  BY DEF IsAbsolute, IsDevice
<1> HIDE DEF A1, A2, A3, A4, A5, A6, A7
<1>4. s \in Seq(T)
  OBVIOUS
<1>5. Len(s) = 8
  OBVIOUS
<1>6. /\ s[1].holds = A1 /\ s[2].holds = A2 /\ s[3].holds = A3 /\ s[4].holds = A4
      /\ s[5].holds = A5 /\ s[6].holds = A6 /\ s[7].holds = A7 /\ s[8].holds = TRUE
  BY DEF Test
<1>7. /\ s[1].label = "empty" /\ s[2].label = "long" /\ s[3].label = "control"
      /\ s[4].label = "absolute" /\ s[5].label = "dots" /\ s[6].label = "device"
      /\ s[7].label = "directory" /\ s[8].label = "simple"
  BY DEF Test
<1> HIDE DEF s, T
<1>8. \E i \in 1 .. Len(s) : s[i].holds
  BY <1>5, <1>6
<1>9. PICK k \in 1 .. Len(s) : /\ s[k].holds /\ \A j \in 1 .. k - 1 : ~s[j].holds
                              /\ FirstLabel(s) = s[k].label
  BY <1>4, <1>8, FirstLabelIs
<1>10. k \in {1, 2, 3, 4, 5, 6, 7, 8}
  BY <1>5
<1>11. FirstLabel(s) = IF A1 THEN "empty" ELSE IF A2 THEN "long" ELSE IF A3 THEN "control"
                       ELSE IF A4 THEN "absolute" ELSE IF A5 THEN "dots"
                       ELSE IF A6 THEN "device" ELSE IF A7 THEN "directory" ELSE "simple"
  BY <1>3, <1>6, <1>7, <1>9, <1>10, SMTT(60)
<1> QED
  BY <1>1, <1>11 DEF A1, A2, A3, A4, A5, A6, A7

\* The names of the inputs have components, none of which is out of the lexicon.
LEMMA NameType ==
    ASSUME NEW n \in Name
    PROVE  /\ n.components \in Seq(Component) /\ n.back \in BOOLEAN
           /\ Len(n.components) \in Nat \ {0}
           /\ \A i \in 1 .. Len(n.components) : n.components[i] \in Component
           /\ ToSet(n.components) = {n.components[i] : i \in 1 .. Len(n.components)}
<1>1. n.components \in Seq(Component) /\ n.back \in BOOLEAN /\ n.components # <<>>
  BY DEF Name
<1> PICK s \in Seq(Component) : s = n.components
  BY <1>1
<1>2. Len(s) \in Nat \ {0}
  BY <1>1
<1> QED
  BY <1>1, <1>2 DEF ToSet

-----------------------------------------------------------------------------
(* Folds: FoldLeft takes the greatest index out of a set of them, again    *)
(* and again.                                                              *)

\* The greatest of the first numbers.
LEMMA MaxUpTo ==
    ASSUME NEW k \in Nat \ {0}
    PROVE  Max(1 .. k) = k /\ (1 .. k) \ {k} = 1 .. k - 1 /\ 1 .. k # {}
<1>1. k \in 1 .. k /\ \A y \in 1 .. k : k >= y
  OBVIOUS
<1>2. \A x \in 1 .. k : (\A y \in 1 .. k : x >= y) => x = k
  BY <1>1
<1>3. Max(1 .. k) = k
  BY <1>1, <1>2 DEF Max
<1>4. (1 .. k) \ {k} = 1 .. k - 1
  OBVIOUS
<1> QED
  BY <1>1, <1>3, <1>4

\* Max finds the greatest member.
LEMMA GreatestMember ==
    ASSUME NEW n \in Nat, NEW s \in SUBSET (1 .. n), s # {}
    PROVE  Max(s) \in s /\ \A y \in s : Max(s) >= y
<1> DEFINE T == {n - y : y \in s}
<1>1. T \subseteq Nat /\ T # {}
  <2>1. \A y \in s : n - y \in Nat
    OBVIOUS
  <2> QED
    BY <2>1
<1>2. PICK m \in T : \A y \in T : m <= y
  <2> HIDE DEF T
  <2> QED
    BY <1>1, LeastMember
<1>3. PICK x \in s : m = n - x
  BY <1>2
<1>4. \A y \in s : x >= y
  <2> TAKE y \in s
  <2>1. n - y \in T /\ x \in 1 .. n /\ y \in 1 .. n
    OBVIOUS
  <2>2. n - x <= n - y
    BY <1>2, <1>3, <2>1
  <2> QED
    BY <2>1, <2>2
<1> QED
  BY <1>3, <1>4 DEF Max

\* The function that FoldLeft chooses is there.
FoldsUpTo(F, first, step, n) ==
    \A s \in SUBSET (1 .. n) :
       F[s] = IF s = {} THEN first ELSE step[Max(s)][F[s \ {Max(s)}]]

\* There is such a fold, of the steps' type.
LEMMA FoldExists ==
    ASSUME NEW V, NEW first \in V, NEW n \in Nat, NEW step \in [1 .. n -> [V -> V]]
    PROVE  \E F \in [SUBSET (1 .. n) -> V] : FoldsUpTo(F, first, step, n)
<1> DEFINE Sets == SUBSET (1 .. n)
           W == [Sets -> V]
           with(k, h) == [s \in Sets |-> IF k \in s THEN step[k][h[s]] ELSE h[s]]
           steps == [k \in 1 .. n |-> [h \in W |-> with(k, h)]]
           base == [s \in Sets |-> first]
<1>1. base \in W
  OBVIOUS
<1>2. \A k \in 1 .. n, h \in W : with(k, h) \in W
  <2> TAKE k \in 1 .. n, h \in W
  <2>1. \A s \in Sets : step[k][h[s]] \in V /\ h[s] \in V
    OBVIOUS
  <2> HIDE DEF Sets
  <2> QED
    BY <2>1
<1>3. steps \in [1 .. n -> [W -> W]]
  <2> HIDE DEF W, with
  <2> QED
    BY <1>2
<1>4. \A k \in 1 .. n, h \in W : steps[k][h] = with(k, h)
  <2> HIDE DEF W, with
  <2> QED
    OBVIOUS
<1>5. PICK G \in [0 .. n -> W] : Follows(G, base, steps, n)
  <2> HIDE DEF W, steps, base
  <2> QED
    BY <1>1, <1>3, RecursionUpTo
<1>6. \A k \in 1 .. n : k - 1 \in 0 .. n /\ k \in 0 .. n
  OBVIOUS
<1>7. \A k \in 0 .. n : G[k] \in W
  <2> HIDE DEF W
  <2> QED
    BY <1>5, Zenon
<1>8. \A k \in 1 .. n, s \in Sets :
         G[k][s] = IF k \in s THEN step[k][G[k - 1][s]] ELSE G[k - 1][s]
  <2> TAKE k \in 1 .. n, s \in Sets
  <2>1. G[k] = steps[k][G[k - 1]]
    BY <1>5, Zenon DEF Follows
  <2>2. G[k - 1] \in W
    BY <1>6, <1>7, Zenon
  <2>3. steps[k][G[k - 1]] = with(k, G[k - 1])
    <3> HIDE DEF steps, with, W
    <3> QED
      BY <1>4, <2>2, Zenon
  <2>4. with(k, G[k - 1])[s] = IF k \in s THEN step[k][G[k - 1][s]] ELSE G[k - 1][s]
    <3> HIDE DEF Sets
    <3> QED
      OBVIOUS
  <2> QED
    BY <2>1, <2>3, <2>4, Zenon
<1>9. \A s \in Sets : G[0][s] = first
  BY <1>5 DEF Follows
<1> HIDE DEF steps, base, with
<1> DEFINE A == {j \in Nat : \A k \in 0 .. n, s \in Sets :
                    k <= j /\ j <= n /\ (\A x \in s : x <= k) => G[j][s] = G[k][s]}
           B == {k \in Nat : k <= n => \A s, t \in Sets :
                    (\A x \in 1 .. k : x \in s <=> x \in t) => G[k][s] = G[k][t]}
<1>10. 0 \in A
  OBVIOUS
<1>11. ASSUME NEW j \in Nat, j \in A
       PROVE  j + 1 \in A
  <2> SUFFICES ASSUME NEW k \in 0 .. n, NEW s \in Sets,
                      k <= j + 1, j + 1 <= n, \A x \in s : x <= k
               PROVE  G[j + 1][s] = G[k][s]
    OBVIOUS
  <2>1. CASE k = j + 1
    BY <2>1
  <2>2. CASE k <= j
    <3>1. j + 1 \in 1 .. n /\ (j + 1) - 1 = j /\ j <= n
      OBVIOUS
    <3>2. j + 1 \notin s
      BY <2>2
    <3>3. G[j][s] = G[k][s]
      BY <1>11, <2>2, <3>1
    <3>4. G[j + 1][s] = IF j + 1 \in s THEN step[j + 1][G[(j + 1) - 1][s]]
                        ELSE G[(j + 1) - 1][s]
      <4> HIDE DEF Sets
      <4> QED
        BY <1>8, <3>1, Zenon
    <3> HIDE DEF A, Sets
    <3> QED
      BY <3>1, <3>2, <3>3, <3>4, Zenon
  <2> QED
    BY <2>1, <2>2
<1>12. 0 \in B
  <2> HIDE DEF Sets
  <2> QED
    BY <1>9
<1>13. ASSUME NEW k \in Nat, k \in B
       PROVE  k + 1 \in B
  <2> HIDE DEF Sets
  <2> SUFFICES ASSUME k + 1 <= n, NEW s \in Sets, NEW t \in Sets,
                      \A x \in 1 .. k + 1 : x \in s <=> x \in t
               PROVE  G[k + 1][s] = G[k + 1][t]
    OBVIOUS
  <2>1. k + 1 \in 1 .. n /\ (k + 1) - 1 = k /\ k <= n /\ k + 1 \in 1 .. k + 1
        /\ \A x \in 1 .. k : x \in 1 .. k + 1
    OBVIOUS
  <2>2. G[k][s] = G[k][t]
    BY <1>13, <2>1
  <2>3. \A u \in Sets : G[k + 1][u] = IF k + 1 \in u THEN step[k + 1][G[(k + 1) - 1][u]]
                                      ELSE G[(k + 1) - 1][u]
    BY <1>8, <2>1, Zenon
  <2>4. k + 1 \in s <=> k + 1 \in t
    BY <2>1
  <2> HIDE DEF B
  <2>5. /\ G[k + 1][s] = IF k + 1 \in s THEN step[k + 1][G[k][s]] ELSE G[k][s]
        /\ G[k + 1][t] = IF k + 1 \in t THEN step[k + 1][G[k][t]] ELSE G[k][t]
    BY <2>1, <2>3
  <2>6. step[k + 1][G[k][s]] = step[k + 1][G[k][t]]
    BY <2>2, Zenon
  <2> QED
    BY <2>2, <2>4, <2>5, <2>6, Zenon
<1> HIDE DEF A, B
<1>14. \A j \in Nat : j \in A
  BY <1>10, <1>11, NumbersIn
<1>15. \A k \in Nat : k \in B
  BY <1>12, <1>13, NumbersIn
<1> USE DEF A, B
<1>16. \A s \in Sets : G[n][s] = IF s = {} THEN first ELSE step[Max(s)][G[n][s \ {Max(s)}]]
  <2> TAKE s \in Sets
  <2>1. CASE s = {}
    <3>1. n \in A /\ 0 \in 0 .. n /\ 0 <= n
      BY <1>14
    <3>2. G[n][s] = G[0][s]
      BY <2>1, <3>1
    <3> QED
      BY <1>9, <2>1, <3>2
  <2>2. CASE s # {}
    <3> DEFINE m == Max(s)
    <3>1. m \in s /\ \A y \in s : m >= y
      BY <2>2, GreatestMember
    <3> HIDE DEF m
    <3>2. m \in 1 .. n /\ m \in 0 .. n /\ m - 1 \in 0 .. n /\ m - 1 \in Nat /\ n \in A
          /\ m <= n /\ m - 1 <= n
      BY <1>14, <3>1
    <3>3. \A y \in s : y <= m
      BY <3>1
    <3>4. G[n][s] = G[m][s]
      BY <3>2, <3>3
    <3>5. s \ {m} \in Sets /\ \A y \in s \ {m} : y <= m - 1
      BY <3>1, <3>2
    <3>6. G[n][s \ {m}] = G[m - 1][s \ {m}]
      BY <3>2, <3>5
    <3>7. \A x \in 1 .. m - 1 : x \in s <=> x \in s \ {m}
      BY <3>2
    <3>8. G[m - 1][s] = G[m - 1][s \ {m}]
      <4>1. m - 1 \in B
        BY <1>15, <3>2
      <4> HIDE DEF A, Sets
      <4> QED
        BY <3>2, <3>5, <3>7, <4>1
    <3> HIDE DEF A, B, Sets
    <3>9. G[m][s] = step[m][G[m - 1][s]]
      BY <1>8, <3>1, <3>2
    <3>10. G[n][s] = step[m][G[n][s \ {m}]]
      BY <3>4, <3>6, <3>8, <3>9, Zenon
    <3> QED
      BY <2>2, <3>10 DEF m
  <2> QED
    BY <2>1, <2>2
<1> HIDE DEF A, B
<1>17. G[n] \in [SUBSET (1 .. n) -> V]
  <2>1. n \in 0 .. n
    OBVIOUS
  <2> QED
    BY <1>7, <2>1
<1>18. FoldsUpTo(G[n], first, step, n)
  BY <1>16, Zenon DEF FoldsUpTo, Sets
<1> QED
  BY <1>17, <1>18

\* What every step keeps, is so at the end.
LEMMA StepsTyped ==
    ASSUME NEW n \in Nat, NEW f, NEW V, f[0] \in V,
           \A k \in 1 .. n : f[k - 1] \in V => f[k] \in V
    PROVE  \A k \in 0 .. n : f[k] \in V
<1> DEFINE S == {k \in Nat : k <= n => f[k] \in V}
<1>1. 0 \in S
  OBVIOUS
<1>2. ASSUME NEW k \in Nat, k \in S
      PROVE  k + 1 \in S
  <2> SUFFICES ASSUME k + 1 <= n
               PROVE  f[k + 1] \in V
    OBVIOUS
  <2>1. k + 1 \in 1 .. n /\ (k + 1) - 1 = k /\ f[k] \in V
    BY <1>2
  <2> QED
    BY <2>1
<1> HIDE DEF S
<1>3. \A k \in Nat : k \in S
  BY <1>1, <1>2, NumbersIn
<1> QED
  BY <1>3 DEF S

\* Sizes of components are numbers.
LEMMA SizesAre ==
    ASSUME NEW c \in Component
    PROVE  ComponentSize(c) \in Nat
<1>1. Lexicon[c.word].size \in Nat /\ c.tail \in Seq({"space", "dot"})
  BY WordIs DEF Component, WordFacts
<1> QED
  BY <1>1 DEF ComponentSize

\* The size of a name is the sum of those of its components and separators.
LEMMA NameSizeIs ==
    ASSUME NEW n \in Name
    PROVE  \E f : /\ f[0] = 0
                  /\ \A k \in 1 .. Len(n.components) :
                        f[k] = f[k - 1] + ComponentSize(n.components[k]) + 1
                  /\ \A k \in 0 .. Len(n.components) : f[k] \in Nat
                  /\ NameSize(n) = f[Len(n.components)] - 1
<1> PICK s \in Seq(Component) : s = n.components
  BY NameType
<1> PICK N \in Nat : N = Len(s)
  OBVIOUS
<1> DEFINE step == [k \in 1 .. N |-> [v \in Nat |-> v + ComponentSize(s[k]) + 1]]
           Body(g) == [t \in SUBSET (1 .. N) |->
                         IF t = {} THEN 0
                         ELSE g[t \ {Max(t)}] + ComponentSize(s[Max(t)]) + 1]
           F == CHOOSE g : g = Body(g)
<1>1. \A k \in 1 .. N : ComponentSize(s[k]) \in Nat
  BY SizesAre
<1>2. step \in [1 .. N -> [Nat -> Nat]]
  BY <1>1
<1>3. \A k \in 1 .. N, v \in Nat : step[k][v] = v + ComponentSize(s[k]) + 1
  OBVIOUS
<1>4. NameSize(n) = F[1 .. N] - 1
  <2>1. DOMAIN s = 1 .. N
    OBVIOUS
  <2> QED
    BY <2>1, Zenon DEF NameSize, FoldLeft, MapThenFoldSet
<1> HIDE DEF step
<1>5. PICK G \in [SUBSET (1 .. N) -> Nat] : FoldsUpTo(G, 0, step, N)
  BY <1>2, FoldExists, ZenonT(60)
<1>6. G = Body(G)
  <2>1. \A t \in SUBSET (1 .. N) :
           t # {} => Max(t) \in 1 .. N /\ t \ {Max(t)} \in SUBSET (1 .. N)
    <3> TAKE t \in SUBSET (1 .. N)
    <3>1. t # {} => Max(t) \in t
      BY GreatestMember
    <3> QED
      BY <3>1
  <2>2. \A t \in SUBSET (1 .. N) : G[t] \in Nat
    BY <1>5
  <2>3. \A t \in SUBSET (1 .. N) :
           G[t] = IF t = {} THEN 0 ELSE G[t \ {Max(t)}] + ComponentSize(s[Max(t)]) + 1
    BY <1>3, <1>5, <2>1, <2>2, ZenonT(60) DEF FoldsUpTo
  <2> QED
    BY <1>5, <2>3, Zenon
<1> HIDE DEF Body
<1>7. F = Body(F)
  BY <1>6, Zenon
<1> HIDE DEF F
<1> USE DEF Body
<1>8. \A t \in SUBSET (1 .. N) :
           F[t] = IF t = {} THEN 0 ELSE F[t \ {Max(t)}] + ComponentSize(s[Max(t)]) + 1
  BY <1>7, Zenon
<1>9. F[1 .. 0] = 0
  <2>1. 1 .. 0 = {} /\ 1 .. 0 \in SUBSET (1 .. N)
    OBVIOUS
  <2> QED
    BY <1>8, <2>1, Zenon
<1>10. \A k \in 1 .. N : F[1 .. k] = F[1 .. k - 1] + ComponentSize(s[k]) + 1
  <2> TAKE k \in 1 .. N
  <2>1. 1 .. k # {} /\ 1 .. k \in SUBSET (1 .. N) /\ Max(1 .. k) = k
        /\ (1 .. k) \ {k} = 1 .. k - 1
    BY MaxUpTo
  <2> QED
    BY <1>8, <2>1, Zenon
<1> HIDE DEF Body
<1> DEFINE f == [k \in 0 .. N |-> F[1 .. k]]
<1>11. f[0] = 0 /\ f[N] = F[1 .. N]
       /\ \A k \in 1 .. N : f[k] = f[k - 1] + ComponentSize(s[k]) + 1
  <2>1. 0 \in 0 .. N /\ N \in 0 .. N /\ \A k \in 1 .. N : k \in 0 .. N /\ k - 1 \in 0 .. N
    OBVIOUS
  <2> QED
    BY <1>9, <1>10, <2>1, Zenon
<1> HIDE DEF f
<1>12. \A k \in 0 .. N : f[k] \in Nat
  <2>1. \A k \in 1 .. N : f[k - 1] \in Nat => f[k] \in Nat
    BY <1>1, <1>11
  <2>2. f[0] \in Nat
    BY <1>11
  <2> QED
    BY <2>1, <2>2, StepsTyped
<1> QED
  BY <1>4, <1>11, <1>12

-----------------------------------------------------------------------------
(* A name in its lexically normal form.                                    *)

\* The components that a lexically normal name may have.
Rest == Component \ {Empty, Current}

\* A component more of a path without "." and without empty components.
Onto(path, c) ==
    IF c \in {Empty, Current} THEN path
    ELSE IF c = Parent /\ path # <<>> /\ Last(path) # Parent THEN Front(path)
    ELSE Append(path, c)

\* It stays a sequence of those.
LEMMA OntoType ==
    ASSUME NEW path \in Seq(Rest), NEW c \in Component
    PROVE  Onto(path, c) \in Seq(Rest)
<1>1. CASE c \in {Empty, Current}
  BY <1>1 DEF Onto
<1>2. CASE c \notin {Empty, Current} /\ c = Parent /\ path # <<>> /\ Last(path) # Parent
  <2>1. Onto(path, c) = Front(path)
    BY <1>2, Zenon DEF Onto
  <2>2. Front(path) \in Seq(Rest)
    <3> HIDE DEF Rest
    <3>1. Len(path) \in Nat /\ Len(path) # 0
      BY <1>2, EmptySeq
    <3>2. SubSeq(path, 1, Len(path) - 1) \in Seq(Rest)
      BY <3>1
    <3> QED
      BY <3>2 DEF Front
  <2> QED
    BY <2>1, <2>2
<1>3. CASE c \notin {Empty, Current} /\ ~(c = Parent /\ path # <<>> /\ Last(path) # Parent)
  <2>1. Onto(path, c) = Append(path, c)
    BY <1>3, Zenon DEF Onto
  <2>2. c \in Rest
    BY <1>3 DEF Rest
  <2> QED
    BY <2>1, <2>2
<1> QED
  BY <1>1, <1>2, <1>3

\* It is the step of LexicallyNormal.
LEMMA OntoIs ==
    ASSUME NEW path, NEW c
    PROVE  (CASE c \in {Empty, Current} -> path
              [] c = Parent /\ path # <<>> /\ Last(path) # Parent -> Front(path)
              [] OTHER -> Append(path, c)) = Onto(path, c)
<1>1. Parent \notin {Empty, Current}
  <2>1. Parent.tail = <<"dot", "dot">> /\ Empty.tail = <<>> /\ Current.tail = <<"dot">>
    BY DEF Parent, Empty, Current, Bare
  <2>2. Len(<<"dot", "dot">>) = 2 /\ Len(<<"dot">>) = 1 /\ Len(<<>>) = 0
    OBVIOUS
  <2> QED
    BY <2>1, <2>2
<1>2. CASE c \in {Empty, Current}
  BY <1>1, <1>2 DEF Onto
<1>3. CASE c \notin {Empty, Current} /\ c = Parent /\ path # <<>> /\ Last(path) # Parent
  BY <1>3 DEF Onto
<1>4. CASE c \notin {Empty, Current} /\ ~(c = Parent /\ path # <<>> /\ Last(path) # Parent)
  BY <1>4 DEF Onto
<1> QED
  BY <1>2, <1>3, <1>4

\* LexicallyNormal takes one component after the other onto the path.
LEMMA LexicallyNormalIs ==
    ASSUME NEW s \in Seq(Component)
    PROVE  \E f : /\ f[0] = <<>>
                  /\ \A k \in 1 .. Len(s) : f[k] = Onto(f[k - 1], s[k])
                  /\ \A k \in 0 .. Len(s) : f[k] \in Seq(Rest)
                  /\ LexicallyNormal(s) = f[Len(s)]
<1> PICK N \in Nat : N = Len(s)
  OBVIOUS
<1> PICK V : V = Seq(Rest)
  OBVIOUS
<1> DEFINE step == [k \in 1 .. N |-> [v \in V |-> Onto(v, s[k])]]
           Cases(path, c) ==
             CASE c \in {Empty, Current} -> path
               [] c = Parent /\ path # <<>> /\ Last(path) # Parent -> Front(path)
               [] OTHER -> Append(path, c)
           Body(g) == [t \in SUBSET (1 .. N) |->
                         IF t = {} THEN <<>> ELSE Cases(g[t \ {Max(t)}], s[Max(t)])]
           F == CHOOSE g : g = Body(g)
<1>1. /\ \A k \in 1 .. N, v \in V : Onto(v, s[k]) \in V
      /\ <<>> \in V
  <2>1. \A k \in 1 .. N : s[k] \in Component
    OBVIOUS
  <2>2. <<>> \in Seq(Rest)
    OBVIOUS
  <2> QED
    BY <2>1, <2>2, OntoType
<1>2. step \in [1 .. N -> [V -> V]]
  BY <1>1
<1>3. \A k \in 1 .. N, v \in V : step[k][v] = Onto(v, s[k])
  OBVIOUS
<1>4. LexicallyNormal(s) = F[1 .. N]
  <2>1. DOMAIN s = 1 .. N
    OBVIOUS
  <2> QED
    BY <2>1, Zenon DEF LexicallyNormal, FoldLeft, MapThenFoldSet
<1>20. \A path, c : Cases(path, c) = Onto(path, c)
  BY OntoIs, Zenon
<1> HIDE DEF step, Cases
<1>5. PICK G \in [SUBSET (1 .. N) -> V] : FoldsUpTo(G, <<>>, step, N)
  BY <1>1, <1>2, FoldExists
<1>6. G = Body(G)
  <2>1. \A t \in SUBSET (1 .. N) :
           t # {} => Max(t) \in 1 .. N /\ t \ {Max(t)} \in SUBSET (1 .. N)
    <3> TAKE t \in SUBSET (1 .. N)
    <3>1. t # {} => Max(t) \in t
      BY GreatestMember
    <3> QED
      BY <3>1
  <2>2. \A t \in SUBSET (1 .. N) : G[t] \in V
    BY <1>5
  <2>3. \A t \in SUBSET (1 .. N) :
           G[t] = IF t = {} THEN <<>> ELSE Cases(G[t \ {Max(t)}], s[Max(t)])
    BY <1>3, <1>5, <1>20, <2>1, <2>2, Zenon DEF FoldsUpTo
  <2> QED
    BY <1>5, <2>3, Zenon
<1> HIDE DEF Body
<1>7. F = Body(F)
  BY <1>6, Zenon
<1> HIDE DEF F
<1> USE DEF Body
<1>8. \A t \in SUBSET (1 .. N) :
           F[t] = IF t = {} THEN <<>> ELSE Onto(F[t \ {Max(t)}], s[Max(t)])
  BY <1>7, <1>20, Zenon
<1>9. F[1 .. 0] = <<>>
  <2>1. 1 .. 0 = {} /\ 1 .. 0 \in SUBSET (1 .. N)
    OBVIOUS
  <2> QED
    BY <1>8, <2>1, Zenon
<1>10. \A k \in 1 .. N : F[1 .. k] = Onto(F[1 .. k - 1], s[k])
  <2> TAKE k \in 1 .. N
  <2>1. 1 .. k # {} /\ 1 .. k \in SUBSET (1 .. N) /\ Max(1 .. k) = k
        /\ (1 .. k) \ {k} = 1 .. k - 1
    BY MaxUpTo
  <2> QED
    BY <1>8, <2>1, Zenon
<1> HIDE DEF Body
<1> DEFINE f == [k \in 0 .. N |-> F[1 .. k]]
<1>11. f[0] = <<>> /\ f[N] = F[1 .. N] /\ \A k \in 1 .. N : f[k] = Onto(f[k - 1], s[k])
  <2>1. 0 \in 0 .. N /\ N \in 0 .. N /\ \A k \in 1 .. N : k \in 0 .. N /\ k - 1 \in 0 .. N
    OBVIOUS
  <2> QED
    BY <1>9, <1>10, <2>1, Zenon
<1> HIDE DEF f
<1>12. \A k \in 0 .. N : f[k] \in V
  <2>1. \A k \in 1 .. N : f[k - 1] \in V => f[k] \in V
    BY <1>1, <1>11
  <2>2. f[0] \in V
    BY <1>1, <1>11
  <2> QED
    BY <2>1, <2>2, StepsTyped
<1> QED
  BY <1>4, <1>11, <1>12

\* Two sequences of which the members at the same places are taken.
LEMMA WithinAlike ==
    ASSUME NEW T, NEW s \in Seq(T), NEW t \in Seq(T), NEW A, NEW B, Len(s) = Len(t),
           \A i \in 1 .. Len(s) : (s[i] \in A <=> t[i] \in B) /\ (s[i] \in A => s[i] = t[i])
    PROVE  Within(s, A) = Within(t, B)
<1>1. PICK f \in [0 .. Len(s) -> Seq(T)] : Takes(f, s, A) /\ Within(s, A) = f[Len(s)]
  BY WithinTakes
<1>2. PICK g \in [0 .. Len(t) -> Seq(T)] : Takes(g, t, B) /\ Within(t, B) = g[Len(t)]
  BY WithinTakes
<1> PICK N \in Nat : N = Len(s)
  OBVIOUS
<1> DEFINE S == {n \in Nat : n <= N => f[n] = g[n]}
<1>3. 0 \in S
  BY <1>1, <1>2 DEF Takes
<1>4. ASSUME NEW n \in Nat, n \in S
      PROVE  n + 1 \in S
  <2> SUFFICES ASSUME n + 1 <= N
               PROVE  f[n + 1] = g[n + 1]
    OBVIOUS
  <2>1. n + 1 \in 1 .. Len(s) /\ n + 1 \in 1 .. Len(t) /\ (n + 1) - 1 = n /\ f[n] = g[n]
    BY <1>4
  <2> HIDE DEF S
  <2>2. /\ f[n + 1] = IF s[n + 1] \in A THEN Append(f[n], s[n + 1]) ELSE f[n]
        /\ g[n + 1] = IF t[n + 1] \in B THEN Append(g[n], t[n + 1]) ELSE g[n]
    BY <1>1, <1>2, <2>1 DEF Takes
  <2> QED
    BY <2>1, <2>2, Zenon
<1> HIDE DEF S
<1>5. \A n \in Nat : n \in S
  BY <1>3, <1>4, NumbersIn
<1>6. f[N] = g[N]
  BY <1>5 DEF S
<1> QED
  BY <1>1, <1>2, <1>6

\* If all are taken nothing changes.
LEMMA WithinAll ==
    ASSUME NEW T, NEW s \in Seq(T), NEW A, \A i \in 1 .. Len(s) : s[i] \in A
    PROVE  Within(s, A) = s
<1>1. PICK f \in [0 .. Len(s) -> Seq(T)] : Takes(f, s, A) /\ Within(s, A) = f[Len(s)]
  BY WithinTakes
<1> PICK N \in Nat : N = Len(s)
  OBVIOUS
<1> DEFINE S == {n \in Nat : n <= N => f[n] = SubSeq(s, 1, n)}
<1>2. 0 \in S
  <2>1. SubSeq(s, 1, 0) = <<>>
    OBVIOUS
  <2> QED
    BY <1>1, <2>1 DEF Takes
<1>3. ASSUME NEW n \in Nat, n \in S
      PROVE  n + 1 \in S
  <2> SUFFICES ASSUME n + 1 <= N
               PROVE  f[n + 1] = SubSeq(s, 1, n + 1)
    OBVIOUS
  <2>1. n + 1 \in 1 .. Len(s) /\ (n + 1) - 1 = n /\ f[n] = SubSeq(s, 1, n)
    BY <1>3
  <2> HIDE DEF S
  <2>2. f[n + 1] = Append(f[n], s[n + 1])
    BY <1>1, <2>1 DEF Takes
  <2>3. Append(SubSeq(s, 1, n), s[n + 1]) = SubSeq(s, 1, n + 1)
    BY <2>1
  <2> QED
    BY <2>1, <2>2, <2>3
<1> HIDE DEF S
<1>4. \A n \in Nat : n \in S
  BY <1>2, <1>3, NumbersIn
<1>5. f[N] = SubSeq(s, 1, N)
  BY <1>4 DEF S
<1>6. SubSeq(s, 1, N) = s
  OBVIOUS
<1> QED
  BY <1>1, <1>5, <1>6

\* Without ".." only "." and empty components are left out of a path.
LEMMA NormalWithoutParent ==
    ASSUME NEW s \in Seq(Component), \A i \in 1 .. Len(s) : s[i] # Parent
    PROVE  LexicallyNormal(s) = Within(s, Rest)
<1>1. PICK f : /\ f[0] = <<>>
               /\ \A k \in 1 .. Len(s) : f[k] = Onto(f[k - 1], s[k])
               /\ LexicallyNormal(s) = f[Len(s)]
  BY LexicallyNormalIs
<1>2. PICK g \in [0 .. Len(s) -> Seq(Component)] : Takes(g, s, Rest) /\ Within(s, Rest) = g[Len(s)]
  BY WithinTakes
<1> PICK N \in Nat : N = Len(s)
  OBVIOUS
<1> DEFINE S == {n \in Nat : n <= N => f[n] = g[n]}
<1>3. 0 \in S
  BY <1>1, <1>2 DEF Takes
<1>4. ASSUME NEW n \in Nat, n \in S
      PROVE  n + 1 \in S
  <2> SUFFICES ASSUME n + 1 <= N
               PROVE  f[n + 1] = g[n + 1]
    OBVIOUS
  <2>1. n + 1 \in 1 .. Len(s) /\ (n + 1) - 1 = n /\ f[n] = g[n]
    BY <1>4
  <2> HIDE DEF S
  <2>2. g[n + 1] = IF s[n + 1] \in Rest THEN Append(g[n], s[n + 1]) ELSE g[n]
    BY <1>2, <2>1 DEF Takes
  <2>3. f[n + 1] = Onto(f[n], s[n + 1])
    BY <1>1, <2>1
  <2>4. s[n + 1] # Parent /\ s[n + 1] \in Component
    BY <2>1
  <2>5. s[n + 1] \in Rest <=> s[n + 1] \notin {Empty, Current}
    BY <2>4, Zenon DEF Rest
  <2> QED
    BY <2>1, <2>2, <2>3, <2>4, <2>5, Zenon DEF Onto
<1> HIDE DEF S
<1>5. \A n \in Nat : n \in S
  BY <1>3, <1>4, NumbersIn
<1>6. f[N] = g[N]
  BY <1>5 DEF S
<1> QED
  BY <1>1, <1>2, <1>6

\* What is below the root is no mere dot or two.
LEMMA BelowRootIs ==
    ASSUME NEW n \in Name
    PROVE  /\ BelowRoot(n) \in Seq(Component)
           /\ \A i \in 1 .. Len(BelowRoot(n)) :
                 BelowRoot(n)[i] \notin {Empty, Current, Parent}
<1>1. LexicallyNormal(n.components) \in Seq(Rest)
  <2>1. n.components \in Seq(Component)
    BY NameType
  <2> PICK s \in Seq(Component) : s = n.components
    BY <2>1
  <2>2. Len(s) \in 0 .. Len(s)
    OBVIOUS
  <2>3. LexicallyNormal(s) \in Seq(Rest)
    BY <2>2, LexicallyNormalIs
  <2> QED
    BY <2>3
<1> PICK t \in Seq(Rest) : t = LexicallyNormal(n.components)
  BY <1>1
<1>2. BelowRoot(n) = Within(t, Component \ {Parent})
  BY Zenon DEF BelowRoot
<1> PICK w \in Seq(Rest) : w = BelowRoot(n)
  BY <1>2, WithinMembers
<1>3. ToSet(w) = ToSet(t) \cap (Component \ {Parent})
  BY <1>2, WithinMembers
<1>4. \A i \in 1 .. Len(w) : w[i] \in ToSet(w)
  BY MembersOf
<1>5. \A i \in 1 .. Len(w) : w[i] \in Rest /\ w[i] # Parent
  BY <1>3, <1>4
<1>6. \A i \in 1 .. Len(w) : w[i] \notin {Empty, Current, Parent} /\ w[i] \in Component
  BY <1>5, Zenon DEF Rest
<1>7. w \in Seq(Component)
  BY <1>6
<1> QED
  BY <1>6, <1>7

\* A name joined of such components is all below the root.
LEMMA BelowRootOfJoined ==
    ASSUME NEW s \in Seq(Component), \A i \in 1 .. Len(s) : s[i] \notin {Empty, Current, Parent}
    PROVE  BelowRoot(Joined(s)) = s
<1>1. LexicallyNormal(s) = Within(s, Rest)
  BY NormalWithoutParent
<1>2. \A i \in 1 .. Len(s) : s[i] \in Rest /\ s[i] \in Component \ {Parent}
  BY DEF Rest
<1>3. Within(s, Rest) = s /\ Within(s, Component \ {Parent}) = s
  BY <1>2, WithinAll
<1>4. Joined(s).components = s
  BY DEF Joined
<1> QED
  BY <1>1, <1>3, <1>4, Zenon DEF BelowRoot

\* What pack() makes of a name is what extraction would.
LEMMA PackedNameKept ==
    ASSUME NEW n \in Name, BelowRoot(n) # <<>>
    PROVE  Output(PackedName(n)) = PackedName(n)
<1>1. CASE n.back
  <2>1. PackedName(n) = n
    BY <1>1 DEF PackedName
  <2> QED
    BY <1>1, <2>1 DEF Output
<1>2. CASE ~n.back
  <2> DEFINE b == BelowRoot(n)
  <2>1. PackedName(n) = Joined(b)
    <3> HIDE DEF b
    <3> QED
      BY <1>2 DEF PackedName, b
  <2>2. BelowRoot(Joined(b)) = b
    <3> HIDE DEF b
    <3>1. b \in Seq(Component) /\ \A i \in 1 .. Len(b) : b[i] \notin {Empty, Current, Parent}
      BY BelowRootIs DEF b
    <3> QED
      BY <3>1, BelowRootOfJoined
  <2>3. ~Joined(b).back
    BY DEF Joined
  <2>4. Output(Joined(b)) = Joined(b)
    BY <2>2, <2>3, Zenon DEF Output
  <2> QED
    BY <2>1, <2>4, Zenon
<1> QED
  BY <1>1, <1>2, NameType

-----------------------------------------------------------------------------
(* Names that inspection has nothing to say against.                       *)

\* What the lexicon says of a component's word.
LEMMA WordsOf ==
    ASSUME NEW c \in Component
    PROVE  /\ c.word \in Words /\ Lexicon[c.word] \in WordFacts
           /\ c.tail \in Seq({"space", "dot"})
           /\ Lexicon[c.word].drive \in BOOLEAN /\ Lexicon[c.word].device \in BOOLEAN
           /\ Lexicon[c.word].control \in BOOLEAN /\ Lexicon[c.word].wildcard \in BOOLEAN
           /\ Lexicon[c.word].marked \in Words /\ Lexicon[c.word].replaced \in Words
           /\ Lexicon[c.word].stem \in Words /\ Lexicon[c.word].ext \in Words
           /\ Lexicon[c.word].fold \in Words
           /\ IsDevice(c) \in BOOLEAN /\ EndsIn(c, "space") \in BOOLEAN
           /\ EndsIn(c, "dot") \in BOOLEAN
<1>1. c.word \in Words /\ c.tail \in Seq({"space", "dot"})
  BY DEF Component
<1>2. Lexicon[c.word] \in WordFacts
  BY <1>1, WordIs
<1>3. Lexicon[c.word].device \in BOOLEAN
  BY <1>2 DEF WordFacts
<1>4. IsDevice(c) \in BOOLEAN /\ EndsIn(c, "space") \in BOOLEAN /\ EndsIn(c, "dot") \in BOOLEAN
  BY DEF IsDevice, EndsIn
<1> QED
  BY <1>1, <1>2, <1>4 DEF WordFacts

\* The components that no word makes differ.
LEMMA SpecialComponents ==
    /\ Empty \in Component /\ Current \in Component /\ Parent \in Component
    /\ Unnamed \in Component
    /\ Empty # Current /\ Empty # Parent /\ Current # Parent
    /\ Unnamed # Empty /\ Unnamed # Current /\ Unnamed # Parent
<1>1. Empty.tail = <<>> /\ Current.tail = <<"dot">> /\ Parent.tail = <<"dot", "dot">>
      /\ Unnamed.tail = <<>> /\ Empty.word = NoWord /\ Unnamed.word = UnnamedWord
  BY DEF Empty, Current, Parent, Unnamed, Bare
<1>2. Len(<<"dot", "dot">>) = 2 /\ Len(<<"dot">>) = 1 /\ Len(<<>>) = 0
  OBVIOUS
<1>6. Len(Empty.tail) = 0 /\ Len(Current.tail) = 1 /\ Len(Parent.tail) = 2
      /\ Len(Unnamed.tail) = 0
  BY <1>1, <1>2
<1>3. Empty # Current /\ Empty # Parent /\ Current # Parent
      /\ Unnamed # Current /\ Unnamed # Parent
  <2>1. 0 # 1 /\ 0 # 2 /\ 1 # 2
    OBVIOUS
  <2> QED
    BY <1>6, <2>1, Zenon
<1>4. Unnamed # Empty /\ NoWord \in Words /\ UnnamedWord \in Words
  BY <1>1, PathsAssumption
<1>5. <<>> \in Seq({"space", "dot"}) /\ <<"dot">> \in Seq({"space", "dot"})
      /\ <<"dot", "dot">> \in Seq({"space", "dot"})
  OBVIOUS
<1> QED
  BY <1>3, <1>4, <1>5 DEF Empty, Current, Parent, Unnamed, Bare, Component

\* The default policy allows little, and its limits are numbers.
LEMMA DefaultPolicyIs ==
    /\ DefaultPolicy.allowed = {"current", "wildcard"} /\ DefaultPolicy.limits = PathLimits
    /\ PathLimits \in Limits /\ PermissiveLimits \in Limits
    /\ PathLimits.components \in Nat /\ PathLimits.componentSize \in Nat
    /\ PathLimits.pathSize \in Nat
  BY PathsAssumption DEF DefaultPolicy, Limits

\* The kinds that the default policy knows, and what it makes of each.
LEMMA ReplacementIs ==
    ASSUME NEW c \in Component
    PROVE  LET kind == Kind(DefaultPolicy, c)
               r == Replacement(DefaultPolicy, c)
           IN  /\ kind \in ComponentKinds \ {"wildcard"}
               /\ kind \in {"empty", "current", "parent", "drive"} => r = Empty
               /\ kind = "device" => r = [c EXCEPT !.word = Lexicon[c.word].marked]
               /\ kind \in {"space", "dot"} => r = TrimTail(c, kind)
               /\ kind = "control" => r = [c EXCEPT !.word = Lexicon[c.word].replaced]
               /\ kind = "normal" => r = c
<1> DEFINE kind == Kind(DefaultPolicy, c)
<1>1. kind \in ComponentKinds \ {"wildcard"}
  <2>1. "wildcard" \in DefaultPolicy.allowed
    BY DefaultPolicyIs
  <2> QED
    BY <2>1, KindIs DEF ComponentKinds
<1> HIDE DEF kind
<1> USE DEF kind
<1>2. kind \in {"empty", "current", "parent", "drive"} => Replacement(DefaultPolicy, c) = Empty
  BY DEF Replacement
<1>3. kind = "device" =>
        Replacement(DefaultPolicy, c) = [c EXCEPT !.word = Lexicon[c.word].marked]
  BY DEF Replacement
<1>4. kind \in {"space", "dot"} => Replacement(DefaultPolicy, c) = TrimTail(c, kind)
  BY DEF Replacement
<1>5. kind = "control" =>
        Replacement(DefaultPolicy, c) = [c EXCEPT !.word = Lexicon[c.word].replaced]
  BY DEF Replacement
<1>6. kind = "normal" => Replacement(DefaultPolicy, c) = c
  BY DEF Replacement
<1> QED
  BY <1>1, <1>2, <1>3, <1>4, <1>5, <1>6, Zenon

\* Of a component that is normal nothing is said.
LEMMA NormalIs ==
    ASSUME NEW c \in Component
    PROVE  /\ Kind(DefaultPolicy, c) = "normal" <=>
                 /\ c \notin {Empty, Current, Parent}
                 /\ ~Lexicon[c.word].drive /\ ~IsDevice(c) /\ ~Lexicon[c.word].control
                 /\ ~EndsIn(c, "space") /\ ~EndsIn(c, "dot")
           /\ Kind(DefaultPolicy, c) = "current" <=> c = Current
<1>1. /\ "device" \notin DefaultPolicy.allowed /\ "control" \notin DefaultPolicy.allowed
      /\ "space" \notin DefaultPolicy.allowed /\ "dot" \notin DefaultPolicy.allowed
      /\ "wildcard" \in DefaultPolicy.allowed
  BY DefaultPolicyIs
<1>2. Empty # Current /\ Empty # Parent /\ Current # Parent
  BY SpecialComponents
<1> QED
  BY <1>1, <1>2, KindIs, WordsOf

-----------------------------------------------------------------------------
(* What sanitizing a name leaves.                                          *)

\* Where the last dot is.
LEMMA LastDotIs ==
    ASSUME NEW c \in Component
    PROVE  /\ LastDot(c) \in 0 .. Len(c.tail)
           /\ c.tail = <<>> => LastDot(c) = 0
<1> PICK t \in Seq({"space", "dot"}) : t = c.tail
  BY WordsOf
<1> DEFINE I == {i \in 1 .. Len(t) : t[i] = "dot"}
<1>1. LastDot(c) = IF I # {} THEN Max(I) ELSE 0
  BY Zenon DEF LastDot, SelectLastInSeq
<1>2. Len(t) \in Nat /\ I \in SUBSET (1 .. Len(t))
  OBVIOUS
<1> HIDE DEF I
<1>3. I # {} => Max(I) \in 1 .. Len(t)
  BY <1>2, GreatestMember
<1>4. t = <<>> => I = {}
  <2>1. t = <<>> => 1 .. Len(t) = {}
    OBVIOUS
  <2> QED
    BY <1>2, <2>1
<1> QED
  BY <1>1, <1>2, <1>3, <1>4

\* A bare word is neither empty nor dots.
LEMMA BareIs ==
    ASSUME NEW w \in Words
    PROVE  /\ Bare(w) \in Component /\ Bare(w).word = w /\ Bare(w).tail = <<>>
           /\ ~EndsIn(Bare(w), "space") /\ ~EndsIn(Bare(w), "dot")
           /\ Bare(w) # Current /\ Bare(w) # Parent
           /\ w # NoWord => Bare(w) # Empty
           /\ IsDevice(Bare(w)) <=>
                 Lexicon[IF Lexicon[w].ext # NoWord THEN Lexicon[w].stem ELSE w].device
<1>1. Bare(w).word = w /\ Bare(w).tail = <<>>
  BY DEF Bare
<1>2. Bare(w) \in Component
  <2>1. <<>> \in Seq({"space", "dot"})
    OBVIOUS
  <2> QED
    BY <2>1 DEF Bare, Component
<1>3. ~EndsIn(Bare(w), "space") /\ ~EndsIn(Bare(w), "dot")
  BY <1>1 DEF EndsIn
<1>4. Bare(w) # Current /\ Bare(w) # Parent
  <2>1. Current.tail = <<"dot">> /\ Parent.tail = <<"dot", "dot">>
    BY DEF Current, Parent
  <2>2. <<"dot">> # <<>> /\ <<"dot", "dot">> # <<>>
    OBVIOUS
  <2> QED
    BY <1>1, <2>1, <2>2, Zenon
<1>5. w # NoWord => Bare(w) # Empty
  BY DEF Bare, Empty
<1>6. LastDot(Bare(w)) = 0
  BY <1>1, <1>2, LastDotIs
<1>7. Stem(Bare(w)) = IF Lexicon[w].ext # NoWord THEN Bare(Lexicon[w].stem) ELSE Bare(w)
  <2>1. ~(0 > (IF Bare(w).word = NoWord THEN 1 ELSE 0))
    OBVIOUS
  <2>2. CASE Lexicon[w].ext # NoWord
    <3>1. Stem(Bare(w)) = Bare(Lexicon[w].stem)
      BY <1>1, <1>6, <2>1, <2>2, Zenon DEF Stem
    <3> QED
      BY <2>2, <3>1
  <2>3. CASE ~(Lexicon[w].ext # NoWord)
    <3>1. Stem(Bare(w)) = Bare(w)
      BY <1>1, <1>6, <2>1, <2>3, Zenon DEF Stem
    <3> QED
      BY <2>3, <3>1
  <2> QED
    BY <2>2, <2>3
<1>8. IsDevice(Bare(w)) <=>
         Lexicon[IF Lexicon[w].ext # NoWord THEN Lexicon[w].stem ELSE w].device
  <2>1. \A x : Bare(x).word = x /\ Bare(x).tail = <<>>
    BY DEF Bare
  <2>2. CASE Lexicon[w].ext # NoWord
    BY <1>7, <2>1, <2>2, Zenon DEF IsDevice
  <2>3. CASE ~(Lexicon[w].ext # NoWord)
    BY <1>7, <2>1, <2>3, Zenon DEF IsDevice
  <2> QED
    BY <2>2, <2>3
<1> QED
  BY <1>1, <1>2, <1>3, <1>4, <1>5, <1>8

\* What makes a component a device is its word.
LEMMA DeviceWord ==
    ASSUME NEW c \in Component, IsDevice(c)
    PROVE  IsDevice(Bare(c.word))
<1>1. c.word \in Words /\ c.tail \in Seq({"space", "dot"}) /\ Lexicon[c.word] \in WordFacts
  BY WordsOf
<1>2. Stem(c).tail = <<>> /\ Lexicon[Stem(c).word].device
  BY DEF IsDevice
<1>3. IsDevice(Bare(c.word)) <=>
         Lexicon[IF Lexicon[c.word].ext # NoWord THEN Lexicon[c.word].stem ELSE c.word].device
  BY <1>1, BareIs
<1>4. Lexicon[c.word].device => Lexicon[c.word].ext = NoWord
  BY <1>1, ReplacementAssumption
<1>5. Lexicon[c.word].device => IsDevice(Bare(c.word))
  BY <1>3, <1>4
<1> DEFINE P == LastDot(c) > (IF c.word = NoWord THEN 1 ELSE 0)
           Q == LastDot(c) = 0 /\ Lexicon[c.word].ext # NoWord
<1>6. CASE P
  <2>1. ~Q
    BY <1>6
  <2>2. Stem(c) = [c EXCEPT !.tail = SubSeq(c.tail, 1, LastDot(c) - 1)]
    BY <1>6, <2>1, Zenon DEF Stem
  <2>3. Stem(c).word = c.word
    BY <2>2 DEF Component
  <2> QED
    BY <1>2, <1>5, <2>3
<1>7. CASE ~P /\ Q
  <2>1. Stem(c) = Bare(Lexicon[c.word].stem)
    BY <1>7, Zenon DEF Stem
  <2>2. Stem(c).word = Lexicon[c.word].stem
    BY <2>1 DEF Bare
  <2> QED
    BY <1>2, <1>3, <1>7, <2>2
<1>8. CASE ~P /\ ~Q
  <2>1. Stem(c) = c
    BY <1>8, Zenon DEF Stem
  <2> QED
    BY <1>2, <1>5, <2>1
<1> QED
  BY <1>6, <1>7, <1>8

\* Sets with at most one member.
LEMMA AtMostOne ==
    ASSUME NEW D, IsFiniteSet(D)
    PROVE  /\ Cardinality(D) <= 0 => D = {}
           /\ Cardinality(D) <= 1 => \A x, y \in D : x = y
<1>1. Cardinality(D) \in Nat /\ (Cardinality(D) = 0 <=> D = {})
  BY FS_CardinalityType, FS_EmptySet
<1>2. ASSUME Cardinality(D) <= 1, NEW x \in D, NEW y \in D, x # y
      PROVE  FALSE
  <2>1. IsFiniteSet(D \ {x}) /\ Cardinality(D \ {x}) = Cardinality(D) - 1
    BY FS_RemoveElement
  <2>2. Cardinality(D \ {x}) = 0
    <3>1. Cardinality(D \ {x}) \in Nat
      BY <2>1, FS_CardinalityType
    <3> QED
      BY <1>1, <1>2, <2>1, <3>1
  <2>3. D \ {x} = {}
    BY <2>1, <2>2, FS_EmptySet
  <2> QED
    BY <1>2, <2>3
<1> QED
  BY <1>1, <1>2

\* A component has one defect at most; none if it is empty.
DefectsFew(c) == Cardinality(Defects(c)) <= IF c.word = NoWord THEN 0 ELSE 1

\* A component with one defect has no other; a tail of one kind is a defect.
LEMMA OneDefect ==
    ASSUME NEW c \in Component, DefectsFew(c)
    PROVE  /\ c.word = NoWord => c.tail = <<>>
           /\ IsDevice(c) => ~Lexicon[c.word].control /\ c.tail = <<>> /\ c.word # NoWord
           /\ Lexicon[c.word].control =>
                 ~IsDevice(Bare(c.word)) /\ c.tail = <<>> /\ c.word # NoWord
           /\ \A ch \in {"space", "dot"} : EndsIn(c, ch) =>
                 /\ ~Lexicon[c.word].control /\ ~IsDevice(Bare(c.word)) /\ c.word # NoWord
                 /\ \A i \in 1 .. Len(c.tail) : c.tail[i] = ch
<1> DEFINE All == {"device", "control", "space", "dot"}
           D == Defects(c)
<1>1. IsFiniteSet(All) /\ D \subseteq All
  <2>1. IsFiniteSet({"device"}) /\ IsFiniteSet({"control"}) /\ IsFiniteSet({"space"})
        /\ IsFiniteSet({"dot"})
    BY FS_Singleton
  <2>2. IsFiniteSet({"device"} \cup {"control"}) /\ IsFiniteSet({"space"} \cup {"dot"})
    BY <2>1, FS_Union
  <2>3. IsFiniteSet(({"device"} \cup {"control"}) \cup ({"space"} \cup {"dot"}))
    BY <2>2, FS_Union
  <2>4. All = ({"device"} \cup {"control"}) \cup ({"space"} \cup {"dot"})
    OBVIOUS
  <2> QED
    BY <2>3, <2>4 DEF Defects
<1>2. IsFiniteSet(D)
  BY <1>1, FS_Subset
<1>3. Cardinality(D) \in Nat
  BY <1>2, FS_CardinalityType
<1>4. Cardinality(D) <= 1 /\ (c.word = NoWord => Cardinality(D) <= 0)
  BY <1>3 DEF DefectsFew
<1>5. (c.word = NoWord => D = {}) /\ \A x, y \in D : x = y
  <2> HIDE DEF D
  <2> QED
    BY <1>2, <1>4, AtMostOne
<1>6. /\ "device" \in D <=> IsDevice(Bare(c.word))
      /\ "control" \in D <=> Lexicon[c.word].control
      /\ \A ch \in {"space", "dot"} : ch \in ToSet(c.tail) => ch \in D
  <2>1. "device" \notin ToSet(c.tail) /\ "control" \notin ToSet(c.tail)
    <3>1. ToSet(c.tail) \subseteq {"space", "dot"}
      BY WordsOf, MembersOf
    <3> QED
      BY <3>1
  <2>2. Lexicon[c.word].control \in BOOLEAN /\ IsDevice(Bare(c.word)) \in BOOLEAN
    BY WordsOf DEF IsDevice
  <2>3. "device" \in D <=> IsDevice(Bare(c.word))
    BY <2>1, <2>2 DEF Defects
  <2>4. "control" \in D <=> Lexicon[c.word].control
    BY <2>1, <2>2 DEF Defects
  <2>5. \A ch \in {"space", "dot"} : ch \in ToSet(c.tail) => ch \in D
    BY DEF Defects
  <2> QED
    BY <2>3, <2>4, <2>5, Zenon
<1> HIDE DEF D
<1> PICK t \in Seq({"space", "dot"}) : t = c.tail
  BY WordsOf
<1>7. \A i \in 1 .. Len(t) : t[i] \in {"space", "dot"} /\ t[i] \in ToSet(t)
  BY MembersOf
<1>8. t = <<>> <=> Len(t) = 0
  BY EmptySeq
<1>9. \A x \in D : x \in All /\ x # "space" /\ x # "dot" => t = <<>>
  <2> TAKE x \in D
  <2> SUFFICES ASSUME x # "space", x # "dot", Len(t) # 0
               PROVE  FALSE
    BY <1>8
  <2>1. 1 \in 1 .. Len(t)
    OBVIOUS
  <2>2. t[1] \in D
    BY <1>6, <1>7, <2>1
  <2> QED
    BY <1>5, <1>7, <2>1, <2>2
<1>10. \A ch \in {"space", "dot"} : EndsIn(c, ch) => ch \in D /\ \A i \in 1 .. Len(t) : t[i] = ch
  <2> TAKE ch \in {"space", "dot"}
  <2> SUFFICES ASSUME EndsIn(c, ch)
               PROVE  ch \in D /\ \A i \in 1 .. Len(t) : t[i] = ch
    OBVIOUS
  <2>1. Len(t) \in 1 .. Len(t) /\ t[Len(t)] = ch
    BY <1>8 DEF EndsIn, Last
  <2>2. ch \in D
    BY <1>6, <1>7, <2>1
  <2> QED
    BY <1>5, <1>6, <1>7, <2>2
<1>11. "device" # "control" /\ "device" # "space" /\ "device" # "dot"
       /\ "control" # "space" /\ "control" # "dot"
  OBVIOUS
<1>12. c.word = NoWord => t = <<>>
  <2> SUFFICES ASSUME c.word = NoWord, Len(t) # 0
               PROVE  FALSE
    BY <1>8
  <2>1. 1 \in 1 .. Len(t)
    OBVIOUS
  <2> QED
    BY <1>5, <1>6, <1>7, <2>1
<1>13. IsDevice(c) => "device" \in D
  BY <1>6, DeviceWord
<1>14. IsDevice(c) => ~Lexicon[c.word].control /\ t = <<>> /\ c.word # NoWord
  BY <1>1, <1>5, <1>6, <1>9, <1>11, <1>13
<1>15. Lexicon[c.word].control => ~IsDevice(Bare(c.word)) /\ t = <<>> /\ c.word # NoWord
  BY <1>1, <1>5, <1>6, <1>9, <1>11
<1>16. \A ch \in {"space", "dot"} : EndsIn(c, ch) =>
          /\ ~Lexicon[c.word].control /\ ~IsDevice(Bare(c.word)) /\ c.word # NoWord
          /\ \A i \in 1 .. Len(t) : t[i] = ch
  BY <1>5, <1>6, <1>10, <1>11
<1> QED
  BY <1>12, <1>14, <1>15, <1>16

\* Trimming a tail keeps the word.
LEMMA TrimTailIs ==
    ASSUME NEW c \in Component, NEW ch
    PROVE  /\ TrimTail(c, ch) \in Component /\ TrimTail(c, ch).word = c.word
           /\ (\A i \in 1 .. Len(c.tail) : c.tail[i] = ch) => TrimTail(c, ch) = Bare(c.word)
<1> PICK t \in Seq({"space", "dot"}) : t = c.tail
  BY WordsOf
<1> DEFINE I == {i \in 1 .. Len(t) : t[i] # ch}
           k == IF I # {} THEN Max(I) ELSE 0
<1>1. TrimTail(c, ch) = [c EXCEPT !.tail = SubSeq(t, 1, k)]
  BY Zenon DEF TrimTail, SelectLastInSeq
<1>2. Len(t) \in Nat /\ I \in SUBSET (1 .. Len(t))
  OBVIOUS
<1>3. k \in 0 .. Len(t)
  <2> HIDE DEF I
  <2>1. I # {} => Max(I) \in 1 .. Len(t)
    BY <1>2, GreatestMember
  <2> QED
    BY <1>2, <2>1
<1>4. (\A i \in 1 .. Len(t) : t[i] = ch) => k = 0
  OBVIOUS
<1> HIDE DEF k, I
<1>5. SubSeq(t, 1, k) \in Seq({"space", "dot"})
  BY <1>2, <1>3
<1>6. k = 0 => SubSeq(t, 1, k) = <<>>
  OBVIOUS
<1>7. c \in [word : Words, tail : Seq({"space", "dot"})]
  BY DEF Component
<1>8. TrimTail(c, ch) = [word |-> c.word, tail |-> SubSeq(t, 1, k)]
  BY <1>1, <1>7
<1> PICK kept : kept = SubSeq(t, 1, k)
  OBVIOUS
<1>9. [word |-> c.word, tail |-> kept] \in [word : Words, tail : Seq({"space", "dot"})]
  BY <1>5, <1>7
<1>10. TrimTail(c, ch) \in Component
  BY <1>8, <1>9, Zenon DEF Component
<1>11. (\A i \in 1 .. Len(t) : t[i] = ch) => kept = <<>>
  BY <1>4, <1>6, Zenon
<1>12. (\A i \in 1 .. Len(c.tail) : c.tail[i] = ch) => TrimTail(c, ch) = Bare(c.word)
  BY <1>8, <1>11, Zenon DEF Bare
<1>13. TrimTail(c, ch).word = c.word
  BY <1>8
<1> QED
  BY <1>10, <1>12, <1>13, Zenon

\* A component's replacement is one.
LEMMA ReplacementType ==
    ASSUME NEW c \in Component
    PROVE  Replacement(DefaultPolicy, c) \in Component
<1> DEFINE kind == Kind(DefaultPolicy, c)
<1>1. kind \in ComponentKinds \ {"wildcard"}
  BY ReplacementIs
<1>2. Empty \in Component /\ \A ch : TrimTail(c, ch) \in Component
  BY SpecialComponents, TrimTailIs
<1>3. \A w \in Words : [c EXCEPT !.word = w] \in Component
  BY DEF Component
<1>4. Lexicon[c.word].marked \in Words /\ Lexicon[c.word].replaced \in Words
  BY WordsOf
<1> HIDE DEF kind
<1>5. kind \in {"empty", "current", "parent", "drive"} \/ kind = "device"
      \/ kind \in {"space", "dot"} \/ kind = "control" \/ kind = "normal"
  BY <1>1 DEF ComponentKinds
<1> USE DEF kind
<1> QED
  BY <1>2, <1>3, <1>4, <1>5, ReplacementIs

\* What has been mended is not mended again, if there was one defect.
LEMMA ReplacementStable ==
    ASSUME NEW c \in Component, DefectsFew(c), Replacement(DefaultPolicy, c) # Empty
    PROVE  Kind(DefaultPolicy, Replacement(DefaultPolicy, c)) = "normal"
<1> DEFINE kind == Kind(DefaultPolicy, c)
           facts == Lexicon[c.word]
           r == Replacement(DefaultPolicy, c)
<1>1. kind \in ComponentKinds \ {"wildcard"}
  BY ReplacementIs
<1>2. kind \notin {"empty", "current", "parent", "drive"}
  BY ReplacementIs
<1>3. \A w \in Words : w # NoWord /\ ~Lexicon[w].drive /\ ~IsDevice(Bare(w)) /\ ~Lexicon[w].control
                          => Kind(DefaultPolicy, Bare(w)) = "normal"
  <2> TAKE w \in Words
  <2> SUFFICES ASSUME w # NoWord, ~Lexicon[w].drive, ~IsDevice(Bare(w)), ~Lexicon[w].control
               PROVE  Kind(DefaultPolicy, Bare(w)) = "normal"
    OBVIOUS
  <2>1. Bare(w) \in Component /\ Bare(w).word = w /\ Bare(w) \notin {Empty, Current, Parent}
        /\ ~EndsIn(Bare(w), "space") /\ ~EndsIn(Bare(w), "dot")
    BY BareIs
  <2> QED
    BY <2>1, NormalIs
<1>4. \A w \in Words : c.tail = <<>> => [c EXCEPT !.word = w] = Bare(w)
  BY DEF Bare, Component
<1>5. c.tail = <<>> => c = Bare(c.word)
  BY DEF Bare, Component
<1>6. /\ c.word \in Words /\ facts.marked \in Words /\ facts.replaced \in Words
      /\ IsDevice(Bare(c.word)) =>
            /\ facts.marked # NoWord /\ ~IsDevice(Bare(facts.marked))
            /\ ~Lexicon[facts.marked].drive
            /\ Lexicon[facts.marked].control = facts.control
      /\ facts.control =>
            /\ facts.replaced # NoWord /\ ~Lexicon[facts.replaced].control
            /\ IsDevice(Bare(facts.replaced)) => IsDevice(Bare(c.word))
            /\ Lexicon[facts.replaced].drive => facts.drive
  BY WordsOf, ReplacementAssumption
<1>7. kind = "device" => IsDevice(c)
  BY KindIs, DefaultPolicyIs
<1>8. kind = "control" => facts.control
  BY KindIs, DefaultPolicyIs
<1>9. \A ch \in {"space", "dot"} : kind = ch => EndsIn(c, ch)
  BY KindIs, DefaultPolicyIs
<1>10. ~facts.drive
  <2>1. kind # "drive" /\ kind # "empty" /\ kind # "current" /\ kind # "parent"
    BY <1>2
  <2> QED
    BY <2>1, KindIs
<1> HIDE DEF kind, facts, r
<1>11. CASE kind = "device"
  <2>1. r = [c EXCEPT !.word = facts.marked]
    BY <1>11, ReplacementIs DEF kind, facts, r
  <2>2. ~facts.control /\ c.tail = <<>> /\ IsDevice(Bare(c.word))
    BY <1>7, <1>11, OneDefect, DeviceWord DEF facts
  <2>3. r = Bare(facts.marked)
    BY <1>4, <1>6, <2>1, <2>2
  <2> QED
    BY <1>3, <1>6, <2>2, <2>3 DEF r
<1>12. CASE kind = "control"
  <2>1. r = [c EXCEPT !.word = facts.replaced]
    BY <1>12, ReplacementIs DEF kind, facts, r
  <2>2. facts.control /\ c.tail = <<>> /\ ~IsDevice(Bare(c.word))
    BY <1>8, <1>12, OneDefect DEF facts
  <2>3. r = Bare(facts.replaced)
    BY <1>4, <1>6, <2>1, <2>2
  <2> QED
    BY <1>3, <1>6, <1>10, <2>2, <2>3 DEF r
<1>13. CASE kind \in {"space", "dot"}
  <2>1. r = TrimTail(c, kind)
    BY <1>13, ReplacementIs DEF kind, r
  <2>2. /\ ~facts.control /\ ~IsDevice(Bare(c.word)) /\ c.word # NoWord
        /\ \A i \in 1 .. Len(c.tail) : c.tail[i] = kind
    BY <1>9, <1>13, OneDefect DEF facts
  <2>3. r = Bare(c.word)
    BY <2>1, <2>2, TrimTailIs
  <2> QED
    BY <1>3, <1>6, <1>10, <2>2, <2>3 DEF r, facts
<1>14. CASE kind = "normal"
  BY <1>14, ReplacementIs DEF kind, r
<1> QED
  BY <1>1, <1>2, <1>11, <1>12, <1>13, <1>14 DEF ComponentKinds

-----------------------------------------------------------------------------

\* The components that sanitizing leaves, before and after it cuts them off.
LEMMA CleanIs ==
    ASSUME NEW n \in Name
    PROVE  LET t == [i \in DOMAIN n.components |-> Replacement(DefaultPolicy, n.components[i])]
           IN  /\ t \in Seq(Component) /\ Len(t) = Len(n.components)
               /\ \A i \in 1 .. Len(n.components) :
                     t[i] = Replacement(DefaultPolicy, n.components[i])
               /\ CleanComponents(DefaultPolicy, n) = Within(t, Component \ {Empty})
               /\ CleanComponents(DefaultPolicy, n) \in Seq(Component)
               /\ \A i \in 1 .. Len(CleanComponents(DefaultPolicy, n)) :
                     \E j \in 1 .. Len(n.components) :
                        /\ CleanComponents(DefaultPolicy, n)[i] # Empty
                        /\ CleanComponents(DefaultPolicy, n)[i]
                             = Replacement(DefaultPolicy, n.components[j])
<1> DEFINE t == [i \in DOMAIN n.components |-> Replacement(DefaultPolicy, n.components[i])]
<1> PICK s \in Seq(Component) : s = n.components
  BY NameType
<1>1. \A i \in 1 .. Len(s) : Replacement(DefaultPolicy, s[i]) \in Component
  BY ReplacementType
<1>2. t \in Seq(Component) /\ Len(t) = Len(s)
      /\ \A i \in 1 .. Len(s) : t[i] = Replacement(DefaultPolicy, s[i])
  BY <1>1
<1>3. CleanComponents(DefaultPolicy, n) = Within(t, Component \ {Empty})
  BY Zenon DEF CleanComponents
<1> HIDE DEF t
<1> PICK w \in Seq(Component) : w = CleanComponents(DefaultPolicy, n)
  BY <1>2, <1>3, WithinMembers
<1>4. ToSet(w) = ToSet(t) \cap (Component \ {Empty})
  BY <1>2, <1>3, WithinMembers
<1>5. \A i \in 1 .. Len(w) : \E j \in 1 .. Len(s) : w[i] # Empty /\ w[i] = t[j]
  <2>1. \A i \in 1 .. Len(w) : w[i] \in ToSet(w)
    BY MembersOf
  <2>2. ToSet(t) = {t[j] : j \in 1 .. Len(s)}
    BY <1>2, MembersOf
  <2> QED
    BY <1>4, <2>1, <2>2
<1> USE DEF t
<1> QED
  BY <1>2, <1>3, <1>5, ZenonT(60)

\* sanitizePath cuts the components off at the limit,
Kept(clean) == IF Len(clean) > PathLimits.components
                 THEN SubSeq(clean, 1, PathLimits.components) ELSE clean
\* and names what nothing is left of.
OrUnnamed(kept) == IF kept = <<>> THEN <<Unnamed>> ELSE kept

\* That makes the normalized name.
LEMMA NormalizedIs ==
    ASSUME NEW n, CleanComponents(DefaultPolicy, n) \in Seq(Component)
    PROVE  Normalized(DefaultPolicy, n) = Joined(OrUnnamed(Kept(CleanComponents(DefaultPolicy, n))))
<1> DEFINE w == CleanComponents(DefaultPolicy, n)
           cut == SubSeq(w, 1, PathLimits.components)
<1>1. w \in Seq(Component) /\ Len(w) \in Nat /\ (w = <<>> <=> Len(w) = 0)
  BY EmptySeq
<1>2. Normalized(DefaultPolicy, n) =
        Joined(IF w = <<>> \/ PathLimits.components = 0 THEN <<Unnamed>>
               ELSE IF Len(w) > PathLimits.components THEN cut ELSE w)
  BY DefaultPolicyIs, Zenon DEF Normalized
<1>3. Kept(w) = IF Len(w) > PathLimits.components THEN cut ELSE w
  BY Zenon DEF Kept
<1>4. PathLimits.components \in Nat
  BY DefaultPolicyIs
<1>5. Len(w) > PathLimits.components =>
         (cut = <<>> <=> PathLimits.components = 0)
  <2> HIDE DEF w
  <2> PICK k \in Nat : k = PathLimits.components
    BY <1>4
  <2>1. Len(w) > k => SubSeq(w, 1, k) \in Seq(Component) /\ Len(SubSeq(w, 1, k)) = k
    BY <1>1
  <2> QED
    BY <2>1, EmptySeq
<1>6. ~(Len(w) > PathLimits.components) =>
         (PathLimits.components = 0 => w = <<>>)
  BY <1>1, <1>4
<1> HIDE DEF w, cut
<1>7. OrUnnamed(Kept(w)) = IF w = <<>> \/ PathLimits.components = 0 THEN <<Unnamed>>
                           ELSE IF Len(w) > PathLimits.components THEN cut ELSE w
  <2>1. CASE Len(w) > PathLimits.components
    <3>1. w # <<>>
      BY <1>1, <1>4, <2>1
    <3> QED
      BY <1>3, <1>5, <2>1, <3>1, Zenon DEF OrUnnamed
  <2>2. CASE ~(Len(w) > PathLimits.components)
    BY <1>3, <1>6, <2>2, Zenon DEF OrUnnamed
  <2> QED
    BY <2>1, <2>2
<1> QED
  BY <1>2, <1>7, Zenon DEF w

\* What is kept is the beginning.
LEMMA KeptIs ==
    ASSUME NEW T, NEW w \in Seq(T)
    PROVE  /\ Kept(w) \in Seq(T) /\ Len(Kept(w)) <= Len(w)
           /\ Len(Kept(w)) <= PathLimits.components
           /\ \A i \in 1 .. Len(Kept(w)) : i \in 1 .. Len(w) /\ Kept(w)[i] = w[i]
           /\ Len(w) <= PathLimits.components => Kept(w) = w
<1> PICK k \in Nat : k = PathLimits.components
  BY DefaultPolicyIs
<1>1. CASE Len(w) > k
  <2>1. Kept(w) = SubSeq(w, 1, k)
    BY <1>1 DEF Kept
  <2> QED
    BY <1>1, <2>1
<1>2. CASE ~(Len(w) > k)
  <2>1. Kept(w) = w
    BY <1>2 DEF Kept
  <2> QED
    BY <1>2, <2>1
<1> QED
  BY <1>1, <1>2

\* A path of normal components is left as it is.
LEMMA CleanOfNormal ==
    ASSUME NEW s \in Seq(Component), s # <<>>,
           \A i \in 1 .. Len(s) : Kind(DefaultPolicy, s[i]) = "normal"
    PROVE  CleanComponents(DefaultPolicy, Joined(s)) = s
<1> DEFINE n == Joined(s)
           t == [i \in DOMAIN s |-> Replacement(DefaultPolicy, s[i])]
<1>1. \A i \in 1 .. Len(s) : s[i] \in Component /\ Replacement(DefaultPolicy, s[i]) = s[i]
  BY ReplacementIs
<1>2. t = s
  BY <1>1
<1>3. \A i \in 1 .. Len(s) : s[i] \in Component \ {Empty}
  BY <1>1, NormalIs
<1>4. Within(s, Component \ {Empty}) = s
  BY <1>3, WithinAll
<1>5. n.components = s
  BY DEF Joined
<1> HIDE DEF n, t
<1>6. CleanComponents(DefaultPolicy, n) = Within(t, Component \ {Empty})
  BY <1>5, Zenon DEF CleanComponents, t
<1> QED
  BY <1>2, <1>4, <1>6 DEF n

\* The name given to what has none is normal.
LEMMA UnnamedIsNormal == Kind(DefaultPolicy, Unnamed) = "normal"
<1>1. UnnamedWord \in Words /\ UnnamedWord # NoWord /\ Lexicon[UnnamedWord].ext = NoWord
      /\ ~Lexicon[UnnamedWord].device /\ ~Lexicon[UnnamedWord].drive
      /\ ~Lexicon[UnnamedWord].control
  BY PathsAssumption
<1>2. Unnamed \in Component /\ Unnamed.word = UnnamedWord /\ ~EndsIn(Unnamed, "space")
      /\ ~EndsIn(Unnamed, "dot") /\ ~IsDevice(Unnamed)
  BY <1>1, BareIs DEF Unnamed
<1> QED
  BY <1>1, <1>2, SpecialComponents, NormalIs

\* What is left of a name with one defect in each component.
LEMMA NormalizedStable ==
    ASSUME NEW n \in Name, \A c \in ToSet(n.components) : DefectsFew(c)
    PROVE  Normalized(DefaultPolicy, Normalized(DefaultPolicy, n)) = Normalized(DefaultPolicy, n)
<1> DEFINE w == CleanComponents(DefaultPolicy, n)
           K == OrUnnamed(Kept(w))
<1>1. w \in Seq(Component)
  BY CleanIs
<1>2. \A i \in 1 .. Len(w) : Kind(DefaultPolicy, w[i]) = "normal"
  <2> TAKE i \in 1 .. Len(w)
  <2>1. PICK j \in 1 .. Len(n.components) :
           w[i] # Empty /\ w[i] = Replacement(DefaultPolicy, n.components[j])
    <3> HIDE DEF w
    <3> QED
      BY CleanIs, Zenon DEF w
  <2>2. n.components[j] \in Component /\ DefectsFew(n.components[j])
    BY NameType
  <2> HIDE DEF w
  <2> QED
    BY <2>1, <2>2, ReplacementStable
<1>3. Normalized(DefaultPolicy, n) = Joined(K)
  BY <1>1, NormalizedIs
<1> HIDE DEF w
<1>4. /\ Kept(w) \in Seq(Component) /\ Len(Kept(w)) <= PathLimits.components
      /\ \A i \in 1 .. Len(Kept(w)) : Kind(DefaultPolicy, Kept(w)[i]) = "normal"
  BY <1>1, <1>2, KeptIs
<1>5. CASE Kept(w) # <<>>
  <2>1. K = Kept(w)
    BY <1>5 DEF OrUnnamed
  <2>2. CleanComponents(DefaultPolicy, Joined(K)) = K
    BY <1>4, <1>5, <2>1, CleanOfNormal
  <2>3. Kept(K) = K
    BY <1>4, <2>1, KeptIs
  <2>4. OrUnnamed(K) = K
    BY <1>5, <2>1 DEF OrUnnamed
  <2> HIDE DEF K
  <2>5. CleanComponents(DefaultPolicy, Joined(K)) \in Seq(Component)
    BY <1>4, <2>1, <2>2
  <2>6. Normalized(DefaultPolicy, Joined(K)) = Joined(OrUnnamed(Kept(K)))
    BY <2>2, <2>5, NormalizedIs
  <2> QED
    BY <1>3, <2>3, <2>4, <2>6
<1>6. CASE Kept(w) = <<>>
  <2>1. K = <<Unnamed>>
    BY <1>6 DEF OrUnnamed
  <2> HIDE DEF K
  <2>2. K \in Seq(Component) /\ K # <<>> /\ Len(K) = 1 /\ K[1] = Unnamed
    BY <2>1, SpecialComponents
  <2>3. \A i \in 1 .. Len(K) : Kind(DefaultPolicy, K[i]) = "normal"
    BY <2>2, UnnamedIsNormal
  <2>4. CleanComponents(DefaultPolicy, Joined(K)) = K
    BY <2>2, <2>3, CleanOfNormal
  <2>5. Kept(K) = K \/ Kept(K) = <<>>
    <3>1. Kept(K) \in Seq(Component) /\ Len(Kept(K)) <= 1
          /\ (Len(K) <= PathLimits.components => Kept(K) = K)
          /\ Len(Kept(K)) <= PathLimits.components
      BY <2>2, KeptIs
    <3>2. Len(Kept(K)) \in Nat /\ (Len(Kept(K)) = 0 => Kept(K) = <<>>)
      BY <3>1, EmptySeq
    <3>3. PathLimits.components \in Nat
      BY DefaultPolicyIs
    <3>4. Len(Kept(K)) = 0 \/ Len(K) <= PathLimits.components
      BY <2>2, <3>1, <3>2, <3>3
    <3> QED
      BY <3>1, <3>2, <3>4
  <2>6. OrUnnamed(Kept(K)) = K
    BY <2>1, <2>2, <2>5 DEF OrUnnamed
  <2>7. Normalized(DefaultPolicy, Joined(K)) = Joined(OrUnnamed(Kept(K)))
    BY <2>2, <2>4, NormalizedIs
  <2> QED
    BY <1>3, <2>6, <2>7
<1> QED
  BY <1>5, <1>6
=============================================================================
