-------------------------- MODULE ManifestsProofs ---------------------------
(***************************************************************************)
(* Proofs about Manifests, Listings and Reports, for every lexicon, every  *)
(* set of inputs and options and every bound: what the program says of an  *)
(* archive's entries, one property of the specification after the other.   *)
(*                                                                         *)
(* The order is that of the program: the codes reported of a name and of   *)
(* an entry; the manifest, and what is reported while it is listed; the    *)
(* verdict; the names given out; the sums and shares of a summary; the     *)
(* difference of two archives; the report that is shown; the lists.        *)
(***************************************************************************)
EXTENDS Reports, PathsProofs, FiniteSetTheorems, SequenceTheorems, DataInduction, TLAPS

-----------------------------------------------------------------------------
(* What is reported of a name.                                             *)

\* Every code that the model reports.
AllCodes ==
    ErrorCodes \cup InfoCodes \cup ComponentKinds
      \cup {"path.too_long", "path.absolute", "path.component_too_long",
            "path.too_many_components", "path.not_canonical", "format.unknown_flags",
            "format.name_long", "format.name_control", "format.name_absolute",
            "format.name_dots", "format.name_device", "format.packed_size",
            "format.archive_size", "format.extension_size", "chunk.large_entry",
            "compression.zero_packed", "compression.expansion", "index.unknown_flags",
            "chunk.flag_disagreement", "archive.large"}

\* Lists of tests, each with the code it reports.
Tests == Seq([label : AllCodes, holds : BOOLEAN])

\* What is reported of tests are codes.
LEMMA CodesAreCodes ==
    ASSUME NEW tests \in Tests
    PROVE  Codes(tests) \in Seq(AllCodes)
<1> DEFINE T == [label : AllCodes, holds : BOOLEAN]
           L == {t.label : t \in T}
<1>1. Codes(tests) \in Seq(L)
  <2> HIDE DEF T
  <2> QED
    BY CodesMembers DEF Tests, T
<1>2. L \subseteq AllCodes
  OBVIOUS
<1> HIDE DEF L
<1> PICK s \in Seq(L) : s = Codes(tests)
  BY <1>1
<1>3. \A i \in 1 .. Len(s) : s[i] \in AllCodes
  BY <1>2
<1>4. s \in [1 .. Len(s) -> AllCodes] /\ Len(s) \in Nat
  BY <1>3
<1> QED
  BY <1>4

\* A test is one.
LEMMA TestIs ==
    ASSUME NEW label \in AllCodes, NEW holds \in BOOLEAN
    PROVE  Test(label, holds) \in [label : AllCodes, holds : BOOLEAN]
  BY DEF Test

\* What analyzePath reports of one component, and of the name.
IssueOf(x, p, c) ==
    \/ x = Kind(p, c) /\ ~KindAllowed(p, Kind(p, c))
    \/ x = "path.component_too_long" /\ ComponentSize(c) > p.limits.componentSize

\* What ComponentIssues lists is what IssueOf says.
LEMMA ComponentIssuesAre ==
    ASSUME NEW p, NEW c \in Component
    PROVE  /\ ComponentIssues(p, c) \in Seq(AllCodes)
           /\ \A x : x \in ToSet(ComponentIssues(p, c)) <=> IssueOf(x, p, c)
<1> DEFINE A == ~KindAllowed(p, Kind(p, c))
           B == ComponentSize(c) > p.limits.componentSize
           s == <<Test(Kind(p, c), A), Test("path.component_too_long", B)>>
<1>1. ComponentIssues(p, c) = Codes(s)
  BY Zenon DEF ComponentIssues
<1>2. Kind(p, c) \in AllCodes
  <2>1. Kind(p, c) \in ComponentKinds
    BY KindIs DEF ComponentKinds
  <2> QED
    BY <2>1 DEF AllCodes
<1>3. A \in BOOLEAN /\ B \in BOOLEAN
  OBVIOUS
<1> PICK k \in AllCodes : k = Kind(p, c)
  BY <1>2
<1> HIDE DEF A, B
<1>4. s \in Tests
  <2> PICK T : T = [label : AllCodes, holds : BOOLEAN]
    OBVIOUS
  <2>1. Test(Kind(p, c), A) \in T /\ Test("path.component_too_long", B) \in T
    <3>1. "path.component_too_long" \in AllCodes
      BY DEF AllCodes
    <3> QED
      BY <1>2, <1>3, <3>1, TestIs
  <2> QED
    BY <2>1 DEF Tests
<1>5. \A x : x \in ToSet(Codes(s)) <=>
               (A /\ x = Kind(p, c)) \/ (B /\ x = "path.component_too_long")
  BY <1>3, CodesOf2
<1> QED
  BY <1>1, <1>4, <1>5, CodesAreCodes, Zenon DEF IssueOf, A, B

\* The same of a whole name.
NameIssueOf(x, p, n) ==
    \/ x = "path.empty" /\ n = EmptyName /\ "empty" \notin p.allowed
    \/ x = "path.too_long" /\ NameSize(n) > p.limits.pathSize
    \/ x = "path.absolute" /\ IsAbsolute(n) /\ "absolute" \notin p.allowed
    \/ \E i \in 1 .. Len(n.components) : IssueOf(x, p, n.components[i])
    \/ x = "path.too_many_components" /\ Len(CleanComponents(p, n)) > p.limits.components

\* What PathIssues lists is what NameIssueOf says.
LEMMA PathIssuesAre ==
    ASSUME NEW p, NEW n \in Name
    PROVE  /\ PathIssues(p, n) \in Seq(AllCodes)
           /\ \A x : x \in ToSet(PathIssues(p, n)) <=> NameIssueOf(x, p, n)
<1> DEFINE A == n = EmptyName /\ "empty" \notin p.allowed
           B == NameSize(n) > p.limits.pathSize
           C == IsAbsolute(n) /\ "absolute" \notin p.allowed
           D == Len(CleanComponents(p, n)) > p.limits.components
           s == <<Test("path.empty", A), Test("path.too_long", B), Test("path.absolute", C)>>
           t == <<Test("path.too_many_components", D)>>
           ss == [i \in DOMAIN n.components |-> ComponentIssues(p, n.components[i])]
<1>1. PathIssues(p, n) = Codes(s) \o FlattenSeq(ss) \o Codes(t)
  BY Zenon DEF PathIssues
<1>2. A \in BOOLEAN /\ B \in BOOLEAN /\ C \in BOOLEAN /\ D \in BOOLEAN
  BY DEF IsAbsolute
<1> PICK m \in Nat : m = Len(n.components)
  BY NameType
<1>3. DOMAIN n.components = 1 .. m
  BY NameType
<1>4. \A i \in 1 .. m : ComponentIssues(p, n.components[i]) \in Seq(AllCodes)
  BY NameType, ComponentIssuesAre
<1>5. ss \in Seq(Seq(AllCodes)) /\ Len(ss) = m
  <2> PICK U : U = Seq(AllCodes)
    OBVIOUS
  <2>1. ss \in [1 .. m -> U]
    BY <1>3, <1>4
  <2> HIDE DEF ss
  <2> QED
    BY <2>1
<1>6. \A i \in 1 .. m : ss[i] = ComponentIssues(p, n.components[i])
  BY <1>3
<1> HIDE DEF A, B, C, D, ss
<1>7. s \in Tests /\ t \in Tests
  <2> PICK T : T = [label : AllCodes, holds : BOOLEAN]
    OBVIOUS
  <2>1. /\ Test("path.empty", A) \in T /\ Test("path.too_long", B) \in T
        /\ Test("path.absolute", C) \in T /\ Test("path.too_many_components", D) \in T
    <3>1. {"path.empty", "path.too_long", "path.absolute", "path.too_many_components"}
             \subseteq AllCodes
      BY DEF AllCodes, ErrorCodes
    <3> QED
      BY <1>2, <3>1, TestIs
  <2> QED
    BY <2>1 DEF Tests
<1>8. \A x : x \in ToSet(Codes(s)) <=>
              (A /\ x = "path.empty") \/ (B /\ x = "path.too_long") \/ (C /\ x = "path.absolute")
  BY <1>2, CodesOf3
<1>9. \A x : x \in ToSet(Codes(t)) <=> D /\ x = "path.too_many_components"
  BY <1>2, CodesOf1, Zenon
<1> HIDE DEF s, t
<1>10. Codes(s) \in Seq(AllCodes) /\ Codes(t) \in Seq(AllCodes)
  BY <1>7, CodesAreCodes
<1>11. FlattenSeq(ss) \in Seq(AllCodes)
       /\ \A x : x \in ToSet(FlattenSeq(ss)) <=> \E i \in 1 .. m : x \in ToSet(ss[i])
  BY <1>5, FlattenMembers
<1> PICK a \in Seq(AllCodes), b \in Seq(AllCodes), c \in Seq(AllCodes) :
       a = Codes(s) /\ b = FlattenSeq(ss) /\ c = Codes(t)
  BY <1>10, <1>11
<1>13. a \o b \o c \in Seq(AllCodes)
       /\ ToSet(a \o b \o c) = ToSet(a) \cup ToSet(b) \cup ToSet(c)
  BY MembersOfThree
<1>14. \A x : (\E i \in 1 .. m : x \in ToSet(ss[i]))
               <=> \E i \in 1 .. Len(n.components) : IssueOf(x, p, n.components[i])
  <2>1. \A i \in 1 .. m : n.components[i] \in Component
    BY NameType
  <2> QED
    BY <1>6, <2>1, ComponentIssuesAre, Zenon
<1>15. \A x : x \in ToSet(PathIssues(p, n)) <=> x \in ToSet(a) \/ x \in ToSet(b) \/ x \in ToSet(c)
  BY <1>1, <1>13
<1>16. PathIssues(p, n) \in Seq(AllCodes)
  BY <1>1, <1>13
<1>17. \A x : x \in ToSet(PathIssues(p, n)) <=>
           \/ (A /\ x = "path.empty") \/ (B /\ x = "path.too_long")
           \/ (C /\ x = "path.absolute")
           \/ (\E i \in 1 .. Len(n.components) : IssueOf(x, p, n.components[i]))
           \/ (D /\ x = "path.too_many_components")
  BY <1>8, <1>9, <1>11, <1>14, <1>15, Zenon
<1> QED
  BY <1>16, <1>17, Zenon DEF NameIssueOf, A, B, C, D

\* Of a name that is not empty analyzePath reports no error.
LEMMA PathIssuesNoErrors ==
    ASSUME NEW p, NEW n \in Name, n # EmptyName
    PROVE  ToSet(PathIssues(p, n)) \cap ErrorCodes = {}
<1> SUFFICES ASSUME NEW x \in ErrorCodes, NameIssueOf(x, p, n)
             PROVE  FALSE
  BY PathIssuesAre
<1>1. PICK i \in 1 .. Len(n.components) : IssueOf(x, p, n.components[i])
  BY DEF NameIssueOf, ErrorCodes
<1>2. n.components[i] \in Component
  BY NameType
<1>3. x = Kind(p, n.components[i])
  BY <1>1 DEF IssueOf, ErrorCodes
<1>4. Kind(p, n.components[i]) \in ComponentKinds
  BY <1>2, KindIs DEF ComponentKinds
<1> QED
  BY <1>3, <1>4 DEF ErrorCodes, ComponentKinds

-----------------------------------------------------------------------------
(* The manifest.                                                           *)

\* The program reads what it is given, and what it reads does not change.
Given ==
    /\ \E i \in Inputs : archive = i.archive /\ whole = i.whole /\ other = i.other
    /\ options \in OptionSets

\* What the program is given has the types of the inputs.
LEMMA GivenTypes ==
    ASSUME Given
    PROVE  /\ archive \in Seq(Entry) /\ WellFormed(archive)
           /\ other \in Seq(Entry) /\ WellFormed(other)
           /\ whole \in Whole /\ (~whole.opens => archive = <<>> /\ whole.known)
           /\ options \in Options
  BY ManifestsAssumption DEF Given

\* What inspection may make of an entry.
Descriptions(entries) ==
    {Described(id, entries[id], depth) : id \in 1 .. Len(entries), depth \in 0 .. options.max_depth}

\* A description is that of the entry it has the id of.
LEMMA DescriptionsAre ==
    ASSUME NEW entries, NEW m \in Descriptions(entries)
    PROVE  /\ m.id \in 1 .. Len(entries) /\ m.depth \in 0 .. options.max_depth
           /\ m = Described(m.id, entries[m.id], m.depth)
<1>1. PICK id \in 1 .. Len(entries), depth \in 0 .. options.max_depth :
         m = Described(id, entries[id], depth)
  BY DEF Descriptions
<1>2. m.id = id /\ m.depth = depth
  BY <1>1 DEF Described
<1> QED
  BY <1>1, <1>2, Zenon

\* A listed entry of an archive in the archive has its container before it.
Encloses(list, e, i) == list[i].id = e.owner /\ list[i].opened

\* The list is what inspection makes of the first entries, up to k: in their
\* order, and an entry is listed if and only if nothing around it is closed.
Listing(list, entries, k) ==
    /\ list \in Seq(Descriptions(entries))
    /\ \A i, j \in 1 .. Len(list) : i < j => list[i].id < list[j].id
    /\ \A i \in 1 .. Len(list) : list[i].id < k
    /\ \A i \in 1 .. Len(list) :
          LET e == entries[list[i].id] IN
          IF e.owner = 0 THEN list[i].depth = 0
          ELSE \E j \in 1 .. Len(list) :
                  Encloses(list, e, j) /\ list[i].depth = list[j].depth + 1
    /\ \A id \in 1 .. Len(entries) :
          id < k /\ (\/ entries[id].owner = 0
                     \/ \E j \in 1 .. Len(list) : Encloses(list, entries[id], j))
            => \E i \in 1 .. Len(list) : list[i].id = id

\* Before the first entry nothing is listed.
LEMMA NothingListed ==
    ASSUME NEW entries
    PROVE  Listing(<<>>, entries, 1)
  BY DEF Listing

\* An entry of a well-formed archive has its container before it.
LEMMA EntryOf ==
    ASSUME NEW entries \in Seq(Entry), NEW k \in 1 .. Len(entries), WellFormed(entries)
    PROVE  /\ entries[k] \in Entry
           /\ entries[k].owner \in Nat /\ entries[k].owner < k
           /\ entries[k].content # "plain" => Unpacked(entries[k]) # 0
           /\ entries[k].owner # 0 => entries[entries[k].owner].content = "archive"
<1>1. entries[k] \in Entry /\ k \in DOMAIN entries
  OBVIOUS
<1>2. /\ entries[k].owner < k
      /\ entries[k].content # "plain" => Unpacked(entries[k]) # 0
      /\ entries[k].owner # 0 => entries[entries[k].owner].content = "archive"
  BY <1>1, Zenon DEF WellFormed
<1>3. entries[k].owner \in Nat
  BY <1>1 DEF Entry
<1> QED
  BY <1>1, <1>2, <1>3

\* One entry more: it is listed once, if at all.
LEMMA OneListed ==
    ASSUME NEW entries \in Seq(Entry), NEW k \in 1 .. Len(entries), WellFormed(entries),
           options.max_depth \in Nat, NEW list, Listing(list, entries, k)
    PROVE  \/ /\ entries[k].owner # 0 /\ Extended(list, entries, k) = list
              /\ ~\E j \in 1 .. Len(list) : Encloses(list, entries[k], j)
           \/ /\ entries[k].owner = 0
              /\ Extended(list, entries, k) = Append(list, Described(k, entries[k], 0))
           \/ \E j \in 1 .. Len(list) :
                 /\ entries[k].owner # 0 /\ Encloses(list, entries[k], j)
                 /\ list[j].depth + 1 \in 0 .. options.max_depth
                 /\ Extended(list, entries, k)
                      = Append(list, Described(k, entries[k], list[j].depth + 1))
<1> DEFINE e == entries[k]
           S == {m \in ToSet(list) : m.id = e.owner /\ m.opened}
           D == Descriptions(entries)
           c == Within(list, S)
<1>1. CASE e.owner = 0
  <2>1. Extended(list, entries, k) = Append(list, Described(k, e, 0))
    BY <1>1, Zenon DEF Extended
  <2> QED
    BY <1>1, <2>1
<1>2. CASE e.owner # 0
  <2>1. Extended(list, entries, k)
          = list \o [i \in DOMAIN c |-> Described(k, e, c[i].depth + 1)]
    BY <1>2, Zenon DEF Extended
  <2>2. list \in Seq(D) /\ Len(list) \in Nat
    BY DEF Listing
  <2>3. ToSet(list) = {list[i] : i \in 1 .. Len(list)}
    BY <2>2, MembersOf
  <2>4. \A i \in 1 .. Len(list) : list[i] \in S <=> Encloses(list, e, i)
    BY <2>3 DEF Encloses
  <2>5. \A i \in 1 .. Len(list) : list[i] \in D
    BY <2>2
  <2>6. \A i \in 1 .. Len(list) : list[i].id \in Nat
    BY <2>5, DescriptionsAre
  <2>7. \A i, j \in 1 .. Len(list) : i < j => list[i].id < list[j].id
    BY DEF Listing
  <2>8. \A i, j \in 1 .. Len(list) : list[i] \in S /\ list[j] \in S => i = j
    <3> TAKE i, j \in 1 .. Len(list)
    <3>1. list[i] \in S /\ list[j] \in S => list[i].id = list[j].id
      BY <2>4 DEF Encloses
    <3>2. i < j \/ j < i \/ i = j
      BY <2>2
    <3> QED
      BY <2>6, <2>7, <3>1, <3>2
  <2>9. CASE \E j \in 1 .. Len(list) : Encloses(list, e, j)
    <3>1. PICK j \in 1 .. Len(list) : Encloses(list, e, j)
      BY <2>9
    <3>2. list[j] \in S
      BY <2>4, <3>1
    <3>3. c = <<list[j]>>
      <4> HIDE DEF S, D
      <4> QED
        BY <2>2, <2>8, <3>2, WithinUnique
    <3> HIDE DEF c, e, S, D
    <3>4. [i \in DOMAIN c |-> Described(k, e, c[i].depth + 1)]
            = <<Described(k, e, list[j].depth + 1)>>
      BY <3>3
    <3>5. list \o <<Described(k, e, list[j].depth + 1)>>
            = Append(list, Described(k, e, list[j].depth + 1))
      BY <2>2
    <3>6. list[j].depth + 1 \in 0 .. options.max_depth
      <4>1. list[j].depth \in 0 .. options.max_depth
            /\ list[j] = Described(list[j].id, entries[list[j].id], list[j].depth)
        BY <2>5, DescriptionsAre DEF D
      <4>2. list[j].opened
        BY <3>1 DEF Encloses
      <4> DEFINE d == list[j].depth
      <4>5. Described(list[j].id, entries[list[j].id], d).opened
              = Opened(entries[list[j].id], d)
        BY Zenon DEF Described
      <4>6. Opened(entries[list[j].id], d)
        BY <4>1, <4>2, <4>5, Zenon
      <4>3. list[j].depth < options.max_depth
        BY <4>6 DEF Opened
      <4> QED
        BY <4>1, <4>3
    <3> QED
      BY <1>2, <2>1, <3>1, <3>4, <3>5, <3>6 DEF e
  <2>10. CASE ~\E j \in 1 .. Len(list) : Encloses(list, e, j)
    <3>1. ToSet(list) \cap S = {}
      BY <2>3, <2>4, <2>10
    <3>2. c = <<>>
      <4> HIDE DEF S, D
      <4> QED
        BY <2>2, <2>8, <3>1, WithinUnique
    <3> HIDE DEF c, S, D, e
    <3>3. [i \in DOMAIN c |-> Described(k, e, c[i].depth + 1)] = <<>>
      BY <3>2
    <3>4. list \o <<>> = list
      BY <2>2
    <3> QED
      BY <1>2, <2>1, <2>10, <3>3, <3>4 DEF e
  <2> QED
    BY <2>9, <2>10
<1> QED
  BY <1>1, <1>2

\* What Described makes of an entry is a description of it.
LEMMA DescribedIsDescription ==
    ASSUME NEW entries, NEW k \in 1 .. Len(entries), NEW d \in 0 .. options.max_depth
    PROVE  /\ Described(k, entries[k], d) \in Descriptions(entries)
           /\ Described(k, entries[k], d).id = k
           /\ Described(k, entries[k], d).depth = d
<1>1. Described(k, entries[k], d) \in Descriptions(entries)
  BY DEF Descriptions
<1> QED
  BY <1>1 DEF Described

\* Where what was appended stands.
LEMMA Appended ==
    ASSUME NEW T, NEW s \in Seq(T), NEW x \in T
    PROVE  /\ Append(s, x) \in Seq(T) /\ Len(s) \in Nat
           /\ Len(Append(s, x)) = Len(s) + 1
           /\ Append(s, x)[Len(s) + 1] = x
           /\ \A i \in 1 .. Len(s) : Append(s, x)[i] = s[i]
           /\ \A i \in 1 .. Len(s) + 1 : i \in 1 .. Len(s) \/ i = Len(s) + 1
           /\ \A i \in 1 .. Len(s) : i \in 1 .. Len(s) + 1
           /\ Len(s) + 1 \in 1 .. Len(s) + 1
           /\ Append(s, x) # s /\ Append(s, x) # <<>>
           /\ Last(Append(s, x)) = x
<1>1. /\ Append(s, x) \in Seq(T) /\ Len(s) \in Nat
      /\ Len(Append(s, x)) = Len(s) + 1
      /\ Append(s, x)[Len(s) + 1] = x
      /\ \A i \in 1 .. Len(s) : Append(s, x)[i] = s[i]
  OBVIOUS
<1>2. /\ \A i \in 1 .. Len(s) + 1 : i \in 1 .. Len(s) \/ i = Len(s) + 1
      /\ \A i \in 1 .. Len(s) : i \in 1 .. Len(s) + 1
      /\ Len(s) + 1 \in 1 .. Len(s) + 1
  BY <1>1
<1>3. Append(s, x) # s /\ Append(s, x) # <<>>
  <2>1. Len(s) + 1 # Len(s) /\ Len(s) + 1 # 0
    BY <1>1
  <2>2. Append(s, x) = <<>> => Len(Append(s, x)) = 0
    BY <1>1, EmptySeq
  <2> QED
    BY <1>1, <2>1, <2>2
<1>4. Last(Append(s, x)) = x
  BY <1>1 DEF Last
<1> QED
  BY <1>1, <1>2, <1>3, <1>4

\* An entry that nothing around is closed may be listed, behind the others.
LEMMA ListedAlso ==
    ASSUME NEW entries \in Seq(Entry), NEW k \in 1 .. Len(entries), WellFormed(entries),
           NEW list, Listing(list, entries, k), NEW d \in 0 .. options.max_depth,
           entries[k].owner = 0 => d = 0,
           entries[k].owner # 0 =>
              \E j \in 1 .. Len(list) :
                 Encloses(list, entries[k], j) /\ d = list[j].depth + 1
    PROVE  Listing(Append(list, Described(k, entries[k], d)), entries, k + 1)
<1> DEFINE m == Described(k, entries[k], d)
           D == Descriptions(entries)
           l == Append(list, m)
           N == Len(list)
<1>1. m \in D /\ m.id = k /\ m.depth = d
  BY DescribedIsDescription
<1>2. list \in Seq(D)
  BY DEF Listing
<1>3. /\ l \in Seq(D) /\ N \in Nat
      /\ Len(l) = N + 1
      /\ l[N + 1] = m
      /\ \A i \in 1 .. N : l[i] = list[i]
      /\ \A i \in 1 .. N + 1 : i \in 1 .. N \/ i = N + 1
      /\ \A i \in 1 .. N : i \in 1 .. N + 1
      /\ N + 1 \in 1 .. N + 1
  <2> HIDE DEF m, D
  <2> QED
    BY <1>1, <1>2, Appended
<1> HIDE DEF m, l, N, D
<1>4. k \in Nat /\ \A i \in 1 .. N : list[i].id \in 1 .. Len(entries)
  <2>1. \A i \in 1 .. N : list[i] \in D
    BY <1>2 DEF N
  <2> QED
    BY <2>1, DescriptionsAre DEF D
<1>5. \A i \in 1 .. N : list[i].id < k
  BY DEF Listing, N
<1>6. \A i, j \in 1 .. Len(l) : i < j => l[i].id < l[j].id
  <2>1. \A i, j \in 1 .. N : i < j => list[i].id < list[j].id
    BY DEF Listing, N
  <2> TAKE i, j \in 1 .. Len(l)
  <2>2. i \in 1 .. N \/ i = N + 1
    BY <1>3
  <2>3. j \in 1 .. N \/ j = N + 1
    BY <1>3
  <2>4. CASE i \in 1 .. N /\ j \in 1 .. N
    BY <2>1, <2>4, <1>3
  <2>5. CASE i \in 1 .. N /\ j = N + 1
    BY <2>5, <1>3, <1>5, <1>1
  <2>6. CASE i = N + 1
    BY <2>6, <2>3, <1>3
  <2> QED
    BY <2>2, <2>3, <2>4, <2>5, <2>6
<1>7. \A i \in 1 .. Len(l) : l[i].id < k + 1
  <2> TAKE i \in 1 .. Len(l)
  <2>1. CASE i \in 1 .. N
    <3>1. list[i].id < k /\ list[i].id \in Int /\ l[i] = list[i]
      BY <2>1, <1>3, <1>4, <1>5
    <3> QED
      BY <3>1, <1>4
  <2>2. CASE i = N + 1
    BY <2>2, <1>1, <1>3, <1>4
  <2> QED
    BY <2>1, <2>2, <1>3
<1>8. \A e, j : j \in 1 .. N => (Encloses(l, e, j) <=> Encloses(list, e, j))
  BY <1>3 DEF Encloses
<1>9. ASSUME NEW i \in 1 .. Len(l)
      PROVE  IF entries[l[i].id].owner = 0 THEN l[i].depth = 0
             ELSE \E j \in 1 .. Len(l) :
                     Encloses(l, entries[l[i].id], j) /\ l[i].depth = l[j].depth + 1
  <2>1. CASE i \in 1 .. N
    <3> DEFINE e == entries[list[i].id]
    <3>1. IF e.owner = 0 THEN list[i].depth = 0
          ELSE \E j \in 1 .. N : Encloses(list, e, j) /\ list[i].depth = list[j].depth + 1
      BY <2>1 DEF Listing, N
    <3>2. l[i] = list[i]
      BY <2>1, <1>3
    <3>3. CASE e.owner = 0
      BY <3>1, <3>2, <3>3
    <3>4. CASE e.owner # 0
      <4>1. PICK j \in 1 .. N : Encloses(list, e, j) /\ list[i].depth = list[j].depth + 1
        BY <3>1, <3>4
      <4>2. j \in 1 .. Len(l) /\ l[j] = list[j]
        BY <1>3
      <4>3. Encloses(l, e, j)
        BY <4>1, <1>8
      <4> QED
        BY <3>2, <3>4, <4>1, <4>2, <4>3
    <3> QED
      BY <3>3, <3>4
  <2>2. CASE i = N + 1
    <3>1. l[i].id = k /\ l[i].depth = d
      BY <2>2, <1>1, <1>3
    <3>2. CASE entries[k].owner = 0
      BY <3>1, <3>2
    <3>3. CASE entries[k].owner # 0
      <4>1. PICK j \in 1 .. N : Encloses(list, entries[k], j) /\ d = list[j].depth + 1
        BY <3>3 DEF N
      <4>2. j \in 1 .. Len(l) /\ l[j] = list[j]
        BY <1>3
      <4>3. Encloses(l, entries[k], j)
        BY <4>1, <1>8
      <4> QED
        BY <3>1, <3>3, <4>1, <4>2, <4>3
    <3> QED
      BY <3>2, <3>3
  <2> QED
    BY <2>1, <2>2, <1>3
<1>10. ASSUME NEW id \in 1 .. Len(entries), id < k + 1,
              \/ entries[id].owner = 0
              \/ \E j \in 1 .. Len(l) : Encloses(l, entries[id], j)
       PROVE  \E i \in 1 .. Len(l) : l[i].id = id
  <2>1. CASE id = k
    BY <2>1, <1>1, <1>3
  <2>2. CASE id # k
    <3>1. id < k
      BY <2>2, <1>10, <1>4
    <3>2. entries[id].owner \in Nat /\ entries[id].owner < id
      BY EntryOf
    <3>3. ~Encloses(l, entries[id], N + 1)
      BY <3>1, <3>2, <1>1, <1>3, <1>4 DEF Encloses
    <3>4. \/ entries[id].owner = 0
          \/ \E j \in 1 .. N : Encloses(list, entries[id], j)
      BY <1>10, <1>3, <1>8, <3>3
    <3>5. PICK i \in 1 .. N : list[i].id = id
      BY <3>1, <3>4 DEF Listing, N
    <3> QED
      BY <3>5, <1>3
  <2> QED
    BY <2>1, <2>2
<1>11. l \in Seq(D)
  BY <1>3
<1>12. Listing(l, entries, k + 1)
  BY <1>6, <1>7, <1>9, <1>10, <1>11, Zenon DEF Listing, D
<1> QED
  BY <1>12 DEF l, m

\* Inspection of the next entry: it is listed, and everything around it is.
LEMMA ListingStep ==
    ASSUME NEW entries \in Seq(Entry), NEW k \in 1 .. Len(entries), WellFormed(entries),
           options.max_depth \in Nat, NEW list, Listing(list, entries, k)
    PROVE  /\ Listing(Extended(list, entries, k), entries, k + 1)
           /\ \/ Extended(list, entries, k) = list
              \/ \E d \in 0 .. options.max_depth :
                    Extended(list, entries, k) = Append(list, Described(k, entries[k], d))
<1>1. CASE entries[k].owner # 0 /\ Extended(list, entries, k) = list
           /\ ~\E j \in 1 .. Len(list) : Encloses(list, entries[k], j)
  <2>1. list \in Seq(Descriptions(entries)) /\ k \in Nat
    BY DEF Listing
  <2>2. \A i \in 1 .. Len(list) : list[i].id < k + 1
    <3> TAKE i \in 1 .. Len(list)
    <3>1. list[i] \in Descriptions(entries)
      BY <2>1
    <3>2. list[i].id \in 1 .. Len(entries)
      BY <3>1, DescriptionsAre
    <3>3. list[i].id < k
      BY DEF Listing
    <3> QED
      BY <2>1, <3>2, <3>3
  <2>3. ASSUME NEW id \in 1 .. Len(entries), id < k + 1,
               \/ entries[id].owner = 0
               \/ \E j \in 1 .. Len(list) : Encloses(list, entries[id], j)
        PROVE  \E i \in 1 .. Len(list) : list[i].id = id
    <3>1. id # k
      BY <1>1, <2>3
    <3>2. id < k
      BY <2>1, <2>3, <3>1
    <3> QED
      BY <2>3, <3>2 DEF Listing
  <2>4. Listing(list, entries, k + 1)
    <3> DEFINE Depths == \A i \in 1 .. Len(list) :
          LET e == entries[list[i].id] IN
          IF e.owner = 0 THEN list[i].depth = 0
          ELSE \E j \in 1 .. Len(list) :
                  Encloses(list, e, j) /\ list[i].depth = list[j].depth + 1
    <3>1. Depths /\ \A i, j \in 1 .. Len(list) : i < j => list[i].id < list[j].id
      BY Zenon DEF Listing
    <3> HIDE DEF Depths
    <3>2. Depths
      BY <3>1
    <3> USE DEF Depths
    <3> QED
      BY <2>1, <2>2, <2>3, <3>1, <3>2, Zenon DEF Listing
  <2> QED
    BY <1>1, <2>4
<1>2. ASSUME NEW d \in 0 .. options.max_depth,
             entries[k].owner = 0 => d = 0,
             entries[k].owner # 0 =>
                \E j \in 1 .. Len(list) :
                   Encloses(list, entries[k], j) /\ d = list[j].depth + 1,
             Extended(list, entries, k) = Append(list, Described(k, entries[k], d))
      PROVE  /\ Listing(Extended(list, entries, k), entries, k + 1)
             /\ \E dd \in 0 .. options.max_depth :
                   Extended(list, entries, k) = Append(list, Described(k, entries[k], dd))
  <2>1. Listing(Append(list, Described(k, entries[k], d)), entries, k + 1)
    BY <1>2, ListedAlso
  <2> QED
    BY <1>2, <2>1, Zenon
<1>3. CASE entries[k].owner = 0
           /\ Extended(list, entries, k) = Append(list, Described(k, entries[k], 0))
  <2>1. 0 \in 0 .. options.max_depth
    OBVIOUS
  <2> QED
    BY <2>1, <1>2, <1>3
<1>4. CASE \E j \in 1 .. Len(list) :
                 /\ entries[k].owner # 0 /\ Encloses(list, entries[k], j)
                 /\ list[j].depth + 1 \in 0 .. options.max_depth
                 /\ Extended(list, entries, k)
                      = Append(list, Described(k, entries[k], list[j].depth + 1))
  BY <1>2, <1>4
<1> QED
  BY <1>1, <1>3, <1>4, OneListed

\* An entry's place in the list is not past its place in the archive.
LEMMA PlaceInListing ==
    ASSUME NEW entries \in Seq(Entry), NEW k \in Nat, NEW list, Listing(list, entries, k)
    PROVE  /\ list \in Seq(Descriptions(entries)) /\ Len(list) \in Nat
           /\ \A i \in 1 .. Len(list) : /\ list[i].id \in i .. Len(entries)
                                        /\ list[i].depth \in 0 .. options.max_depth
                                        /\ list[i] = Described(list[i].id, entries[list[i].id], list[i].depth)
           /\ Len(list) <= Len(entries)
           /\ \A i, j \in 1 .. Len(list) : list[i].id = list[j].id => i = j
<1>1. list \in Seq(Descriptions(entries)) /\ Len(list) \in Nat
  BY DEF Listing
<1>2. \A i \in 1 .. Len(list) :
         /\ list[i].id \in 1 .. Len(entries)
         /\ list[i].depth \in 0 .. options.max_depth
         /\ list[i] = Described(list[i].id, entries[list[i].id], list[i].depth)
  <2> TAKE i \in 1 .. Len(list)
  <2>1. list[i] \in Descriptions(entries)
    BY <1>1
  <2> QED
    BY <2>1, DescriptionsAre
<1>3. \A i, j \in 1 .. Len(list) : i < j => list[i].id < list[j].id
  BY DEF Listing
<1> DEFINE S == {i \in Nat : i \in 1 .. Len(list) => list[i].id >= i}
<1>4. 0 \in S
  OBVIOUS
<1>5. ASSUME NEW i \in Nat, i \in S
      PROVE  i + 1 \in S
  <2> SUFFICES ASSUME i + 1 \in 1 .. Len(list)
               PROVE  list[i + 1].id >= i + 1
    OBVIOUS
  <2>1. list[i + 1].id \in Nat \ {0}
    BY <1>2
  <2>2. CASE i = 0
    BY <2>1, <2>2
  <2>3. CASE i # 0
    <3>1. i \in 1 .. Len(list)
      BY <2>3, <1>1
    <3>2. list[i].id >= i /\ list[i].id \in Nat
      BY <3>1, <1>2, <1>5
    <3>3. list[i].id < list[i + 1].id
      BY <1>3, <3>1
    <3> QED
      BY <2>1, <3>2, <3>3
  <2> QED
    BY <2>2, <2>3
<1>6. \A i \in Nat : i \in S
  <2> HIDE DEF S
  <2> QED
    BY <1>4, <1>5, NumbersIn
<1>7. \A i \in 1 .. Len(list) : list[i].id \in i .. Len(entries)
  <2> TAKE i \in 1 .. Len(list)
  <2>1. i \in Nat
    OBVIOUS
  <2>2. list[i].id >= i
    BY <2>1, <1>6
  <2> QED
    BY <2>1, <2>2, <1>2
<1>8. Len(list) <= Len(entries)
  <2>1. CASE Len(list) = 0
    BY <2>1
  <2>2. CASE Len(list) # 0
    <3>1. Len(list) \in 1 .. Len(list)
      BY <1>1, <2>2
    <3>2. list[Len(list)].id \in Len(list) .. Len(entries)
      BY <3>1, <1>7
    <3> QED
      BY <3>2, <1>1
  <2> QED
    BY <2>1, <2>2
<1>9. \A i, j \in 1 .. Len(list) : list[i].id = list[j].id => i = j
  <2> TAKE i, j \in 1 .. Len(list)
  <2>1. i < j \/ j < i \/ i = j
    OBVIOUS
  <2>2. list[i].id \in Nat /\ list[j].id \in Nat
    BY <1>2
  <2> QED
    BY <2>1, <2>2, <1>3
<1> QED
  BY <1>1, <1>2, <1>7, <1>8, <1>9

-----------------------------------------------------------------------------
(* What is reported of an entry.                                           *)

\* Codes of known labels.
LEMMA CodeList1 ==
    ASSUME NEW a \in AllCodes, NEW A \in BOOLEAN
    PROVE  /\ Codes(<<Test(a, A)>>) \in Seq(AllCodes)
           /\ \A x : x \in ToSet(Codes(<<Test(a, A)>>))
                     <=> A /\ x = a
<1> PICK T : T = [label : AllCodes, holds : BOOLEAN]
  OBVIOUS
<1>1. Test(a, A) \in T
  BY TestIs
<1>2. <<Test(a, A)>> \in Tests
  BY <1>1 DEF Tests
<1>3. \A x : x \in ToSet(Codes(<<Test(a, A)>>))
             <=> A /\ x = a
  BY CodesOf1
<1> QED
  BY <1>2, <1>3, CodesAreCodes

\* Two tests.
LEMMA CodeList2 ==
    ASSUME NEW a \in AllCodes, NEW A \in BOOLEAN,
           NEW b \in AllCodes, NEW B \in BOOLEAN
    PROVE  /\ Codes(<<Test(a, A), Test(b, B)>>) \in Seq(AllCodes)
           /\ \A x : x \in ToSet(Codes(<<Test(a, A), Test(b, B)>>))
                     <=> (A /\ x = a) \/ (B /\ x = b)
<1> PICK T : T = [label : AllCodes, holds : BOOLEAN]
  OBVIOUS
<1>1. Test(a, A) \in T /\ Test(b, B) \in T
  BY TestIs
<1>2. <<Test(a, A), Test(b, B)>> \in Tests
  BY <1>1 DEF Tests
<1>3. \A x : x \in ToSet(Codes(<<Test(a, A), Test(b, B)>>))
             <=> (A /\ x = a) \/ (B /\ x = b)
  BY CodesOf2
<1> QED
  BY <1>2, <1>3, CodesAreCodes

\* Three tests.
LEMMA CodeList3 ==
    ASSUME NEW a \in AllCodes, NEW A \in BOOLEAN,
           NEW b \in AllCodes, NEW B \in BOOLEAN,
           NEW c \in AllCodes, NEW C \in BOOLEAN
    PROVE  /\ Codes(<<Test(a, A), Test(b, B), Test(c, C)>>) \in Seq(AllCodes)
           /\ \A x : x \in ToSet(Codes(<<Test(a, A), Test(b, B), Test(c, C)>>))
                     <=> (A /\ x = a) \/ (B /\ x = b) \/ (C /\ x = c)
<1> PICK T : T = [label : AllCodes, holds : BOOLEAN]
  OBVIOUS
<1>1. Test(a, A) \in T /\ Test(b, B) \in T /\ Test(c, C) \in T
  BY TestIs
<1>2. <<Test(a, A), Test(b, B), Test(c, C)>> \in Tests
  BY <1>1 DEF Tests
<1>3. \A x : x \in ToSet(Codes(<<Test(a, A), Test(b, B), Test(c, C)>>))
             <=> (A /\ x = a) \/ (B /\ x = b) \/ (C /\ x = c)
  BY CodesOf3
<1> QED
  BY <1>2, <1>3, CodesAreCodes

\* Four tests.
LEMMA CodeList4 ==
    ASSUME NEW a \in AllCodes, NEW A \in BOOLEAN,
           NEW b \in AllCodes, NEW B \in BOOLEAN,
           NEW c \in AllCodes, NEW C \in BOOLEAN,
           NEW d \in AllCodes, NEW D \in BOOLEAN
    PROVE  /\ Codes(<<Test(a, A), Test(b, B), Test(c, C), Test(d, D)>>) \in Seq(AllCodes)
           /\ \A x : x \in ToSet(Codes(<<Test(a, A), Test(b, B), Test(c, C), Test(d, D)>>))
                     <=> (A /\ x = a) \/ (B /\ x = b) \/ (C /\ x = c) \/ (D /\ x = d)
<1> PICK T : T = [label : AllCodes, holds : BOOLEAN]
  OBVIOUS
<1>1. Test(a, A) \in T /\ Test(b, B) \in T /\ Test(c, C) \in T /\ Test(d, D) \in T
  BY TestIs
<1>2. <<Test(a, A), Test(b, B), Test(c, C), Test(d, D)>> \in Tests
  BY <1>1 DEF Tests
<1>3. \A x : x \in ToSet(Codes(<<Test(a, A), Test(b, B), Test(c, C), Test(d, D)>>))
             <=> (A /\ x = a) \/ (B /\ x = b) \/ (C /\ x = c) \/ (D /\ x = d)
  BY CodesOf4
<1> QED
  BY <1>2, <1>3, CodesAreCodes

\* What is asked of an entry of the manifest has an answer.
LEMMA DescribedTypes ==
    ASSUME NEW entries \in Seq(Entry), WellFormed(entries), options \in Options,
           NEW m \in Descriptions(entries)
    PROVE  /\ entries[m.id] \in Entry
           /\ m.id \in 1 .. Len(entries) /\ m.depth \in 0 .. options.max_depth
           /\ m.name = entries[m.id].name /\ m.name \in Name /\ m.name # EmptyName
           /\ m.normalized = Normalized(DefaultPolicy, m.name)
           /\ m.packed = entries[m.id].packed /\ m.packed \in Size
           /\ m.original = entries[m.id].original /\ m.original \in Size
           /\ m.flags = entries[m.id].flags /\ m.flags \subseteq Flag
           /\ m.compressed = ("compressed" \in entries[m.id].flags)
           /\ m.nested = IsNested(entries[m.id])
           /\ m.readable = Readable(entries[m.id])
           /\ m.payload = IF Readable(entries[m.id]) THEN entries[m.id].length ELSE 0
           /\ m.chunkFlags = IF Readable(entries[m.id]) THEN entries[m.id].chunkFlags ELSE {}
           /\ m.opened = Opened(entries[m.id], m.depth)
<1>1. /\ m.id \in 1 .. Len(entries) /\ m.depth \in 0 .. options.max_depth
      /\ m = Described(m.id, entries[m.id], m.depth)
  BY DescriptionsAre
<1> PICK e \in Entry : e = entries[m.id]
  BY <1>1
<1> PICK d : d = m.depth
  OBVIOUS
<1> PICK id : id = m.id
  OBVIOUS
<1>2. m = Described(id, e, d)
  BY <1>1
<1>3. /\ e.name \in Name /\ e.name # EmptyName /\ e.packed \in Size /\ e.original \in Size
      /\ e.flags \subseteq Flag
  BY DEF Entry
<1>4. /\ Described(id, e, d).name = e.name
      /\ Described(id, e, d).normalized = Normalized(DefaultPolicy, e.name)
      /\ Described(id, e, d).packed = e.packed
      /\ Described(id, e, d).original = e.original
      /\ Described(id, e, d).flags = e.flags
      /\ Described(id, e, d).compressed = ("compressed" \in e.flags)
      /\ Described(id, e, d).nested = IsNested(e)
      /\ Described(id, e, d).readable = Readable(e)
      /\ Described(id, e, d).payload = (IF Readable(e) THEN e.length ELSE 0)
      /\ Described(id, e, d).chunkFlags = (IF Readable(e) THEN e.chunkFlags ELSE {})
      /\ Described(id, e, d).opened = Opened(e, d)
  BY Zenon DEF Described
<1>5. /\ m.name = e.name /\ m.normalized = Normalized(DefaultPolicy, e.name)
      /\ m.packed = e.packed /\ m.original = e.original /\ m.flags = e.flags
      /\ m.compressed = ("compressed" \in e.flags) /\ m.nested = IsNested(e)
      /\ m.readable = Readable(e) /\ m.payload = (IF Readable(e) THEN e.length ELSE 0)
      /\ m.chunkFlags = (IF Readable(e) THEN e.chunkFlags ELSE {})
      /\ m.opened = Opened(e, d)
  BY <1>2, <1>4, Zenon
<1> QED
  BY <1>1, <1>3, <1>5

\* What is reported of an entry, code by code.
LEMMA InspectionIssuesAre ==
    ASSUME NEW e \in Entry, NEW depth \in Nat, options \in Options
    PROVE  /\ InspectionIssues(e, depth) \in Seq(AllCodes)
           /\ \A x : x \in ToSet(InspectionIssues(e, depth)) <=>
                 \/ NameIssueOf(x, DefaultPolicy, e.name)
                 \/ x = "chunk.layout" /\ ~Readable(e)
                 \/ x = "chunk.decode" /\ Readable(e) /\ ~Decodes(e)
                 \/ x = "nesting.depth_limit" /\ Recurses(e) /\ depth >= options.max_depth
                 \/ x = "header.parse" /\ Recurses(e) /\ depth < options.max_depth
                                       /\ e.content # "archive"
<1> DEFINE A == ~Readable(e)
           B == Readable(e) /\ ~Decodes(e)
           C == Recurses(e) /\ depth >= options.max_depth
           D == Recurses(e) /\ depth < options.max_depth /\ e.content # "archive"
           s == Codes(<<Test("chunk.layout", A), Test("chunk.decode", B),
                        Test("nesting.depth_limit", C), Test("header.parse", D)>>)
<1>1. /\ "chunk.layout" \in AllCodes /\ "chunk.decode" \in AllCodes
      /\ "nesting.depth_limit" \in AllCodes /\ "header.parse" \in AllCodes
  BY DEF AllCodes, ErrorCodes
<1>2. A \in BOOLEAN /\ B \in BOOLEAN /\ C \in BOOLEAN /\ D \in BOOLEAN
  BY DEF Readable, Decodes, Recurses
<1>3. InspectionIssues(e, depth) = PathIssues(DefaultPolicy, e.name) \o s
  BY Zenon DEF InspectionIssues
<1> HIDE DEF A, B, C, D
<1>4. s \in Seq(AllCodes)
      /\ \A x : x \in ToSet(s) <=>
            (A /\ x = "chunk.layout") \/ (B /\ x = "chunk.decode")
            \/ (C /\ x = "nesting.depth_limit") \/ (D /\ x = "header.parse")
  BY <1>1, <1>2, CodeList4, SMTT(60)
<1>5. e.name \in Name
  BY DEF Entry
<1> PICK p : p = PathIssues(DefaultPolicy, e.name)
  OBVIOUS
<1>6. p \in Seq(AllCodes) /\ \A x : x \in ToSet(p) <=> NameIssueOf(x, DefaultPolicy, e.name)
  BY <1>5, PathIssuesAre
<1> HIDE DEF s
<1>7. p \o s \in Seq(AllCodes) /\ ToSet(p \o s) = ToSet(p) \cup ToSet(s)
  BY <1>4, <1>6, MembersOfBoth
<1>8. \A x : x \in ToSet(p \o s) <=>
         \/ NameIssueOf(x, DefaultPolicy, e.name)
         \/ x = "chunk.layout" /\ A
         \/ x = "chunk.decode" /\ B
         \/ x = "nesting.depth_limit" /\ C
         \/ x = "header.parse" /\ D
  BY <1>4, <1>6, <1>7, Zenon
<1>9. InspectionIssues(e, depth) = p \o s
  BY <1>3
<1> QED
  BY <1>7, <1>8, <1>9, Zenon DEF A, B, C, D

\* What the name rules report: at most the rule of the name's class.
LEMMA NameIssuesAre ==
    ASSUME NEW n \in Name
    PROVE  /\ NameIssues(n) \in Seq(AllCodes)
           /\ \A x : x \in ToSet(NameIssues(n)) <=>
                 NameClass(n) \in DOMAIN NameRule /\ x = NameRule[NameClass(n)]
<1> PICK c : c = NameClass(n)
  OBVIOUS
<1>1. CASE c \in DOMAIN NameRule
  <2>1. NameRule[c] \in AllCodes
    BY <1>1 DEF NameRule, AllCodes, ErrorCodes
  <2>2. NameIssues(n) = <<NameRule[c]>>
    BY <1>1 DEF NameIssues
  <2> PICK v \in AllCodes : v = NameRule[c]
    BY <2>1
  <2>3. <<v>> \in Seq(AllCodes) /\ ToSet(<<v>>) = {v}
    BY DEF ToSet
  <2> QED
    BY <1>1, <2>2, <2>3
<1>2. CASE c \notin DOMAIN NameRule
  <2>1. NameIssues(n) = <<>>
    BY <1>2 DEF NameIssues
  <2>2. <<>> \in Seq(AllCodes) /\ ToSet(<<>>) = {}
    BY DEF ToSet
  <2> QED
    BY <1>2, <2>1, <2>2
<1> QED
  BY <1>1, <1>2

\* What the format rules report of an entry (format_rules.cc).
LEMMA FormatIssuesAre ==
    ASSUME NEW m, m.name \in Name, m.readable \in BOOLEAN
    PROVE  /\ FormatIssues(m) \in Seq(AllCodes)
           /\ \A x : x \in ToSet(FormatIssues(m)) <=>
                 \/ x = "format.unknown_flags" /\ HasUnknownFlags(m.flags)
                 \/ NameClass(m.name) \in DOMAIN NameRule /\ x = NameRule[NameClass(m.name)]
                 \/ x = "format.packed_size" /\ m.packed > MaxChunkSize
                 \/ x = "format.payload_size" /\ m.readable /\ m.payload # m.packed
                 \/ x = "format.nested_depth" /\ m.depth > FormatDepth
<1> DEFINE A == HasUnknownFlags(m.flags)
           B == m.packed > MaxChunkSize
           C == m.readable /\ m.payload # m.packed
           D == m.depth > FormatDepth
           s == Codes(<<Test("format.unknown_flags", A)>>)
           t == Codes(<<Test("format.packed_size", B), Test("format.payload_size", C),
                        Test("format.nested_depth", D)>>)
<1>1. /\ "format.unknown_flags" \in AllCodes /\ "format.packed_size" \in AllCodes
      /\ "format.payload_size" \in AllCodes /\ "format.nested_depth" \in AllCodes
  BY DEF AllCodes, ErrorCodes
<1>2. A \in BOOLEAN /\ B \in BOOLEAN /\ C \in BOOLEAN /\ D \in BOOLEAN
  BY DEF HasUnknownFlags
<1> PICK n : n = NameIssues(m.name)
  OBVIOUS
<1>3. FormatIssues(m) = s \o n \o t
  BY Zenon DEF FormatIssues
<1> HIDE DEF A, B, C, D
<1>4. s \in Seq(AllCodes) /\ \A x : x \in ToSet(s) <=> A /\ x = "format.unknown_flags"
  BY <1>1, <1>2, CodeList1
<1>5. t \in Seq(AllCodes)
      /\ \A x : x \in ToSet(t) <=>
            (B /\ x = "format.packed_size") \/ (C /\ x = "format.payload_size")
            \/ (D /\ x = "format.nested_depth")
  BY <1>1, <1>2, CodeList3
<1>6. n \in Seq(AllCodes)
      /\ \A x : x \in ToSet(n) <=>
            NameClass(m.name) \in DOMAIN NameRule /\ x = NameRule[NameClass(m.name)]
  BY NameIssuesAre
<1> HIDE DEF s, t
<1>7. s \o n \o t \in Seq(AllCodes)
      /\ ToSet(s \o n \o t) = ToSet(s) \cup ToSet(n) \cup ToSet(t)
  BY <1>4, <1>5, <1>6, MembersOfThree
<1>8. \A x : x \in ToSet(s \o n \o t) <=>
         \/ x = "format.unknown_flags" /\ A
         \/ NameClass(m.name) \in DOMAIN NameRule /\ x = NameRule[NameClass(m.name)]
         \/ x = "format.packed_size" /\ B
         \/ x = "format.payload_size" /\ C
         \/ x = "format.nested_depth" /\ D
  <2>1. \A x : x \in ToSet(s \o n \o t) <=>
                 x \in ToSet(s) \/ x \in ToSet(n) \/ x \in ToSet(t)
    BY <1>7
  <2> QED
    BY <1>4, <1>5, <1>6, <2>1
<1> QED
  BY <1>3, <1>7, <1>8, Zenon DEF A, B, C, D

\* What validation reports of a name under the policy that is asked for.
LEMMA PolicyIssuesAre ==
    ASSUME NEW m, m.name \in Name, options \in Options
    PROVE  /\ PolicyIssues(m) \in Seq(AllCodes)
           /\ \A x : x \in ToSet(PolicyIssues(m)) <=>
                 \/ NameIssueOf(x, options.policy, m.name)
                 \/ /\ x = "path.not_canonical" /\ options.canonical
                    /\ Normalized(options.policy, m.name) # m.name
<1> DEFINE A == options.canonical /\ Normalized(options.policy, m.name) # m.name
           s == Codes(<<Test("path.not_canonical", A)>>)
<1>1. "path.not_canonical" \in AllCodes
  BY DEF AllCodes
<1>2. A \in BOOLEAN
  BY DEF Options
<1> PICK p : p = PathIssues(options.policy, m.name)
  OBVIOUS
<1>3. PolicyIssues(m) = p \o s
  BY Zenon DEF PolicyIssues
<1> HIDE DEF A
<1>4. s \in Seq(AllCodes) /\ \A x : x \in ToSet(s) <=> A /\ x = "path.not_canonical"
  BY <1>1, <1>2, CodeList1
<1>5. p \in Seq(AllCodes) /\ \A x : x \in ToSet(p) <=> NameIssueOf(x, options.policy, m.name)
  BY PathIssuesAre
<1> HIDE DEF s
<1>6. p \o s \in Seq(AllCodes) /\ ToSet(p \o s) = ToSet(p) \cup ToSet(s)
  BY <1>4, <1>5, MembersOfBoth
<1>7. \A x : x \in ToSet(p \o s) <=>
         \/ NameIssueOf(x, options.policy, m.name)
         \/ x = "path.not_canonical" /\ A
  BY <1>4, <1>5, <1>6, Zenon
<1> QED
  BY <1>3, <1>6, <1>7, Zenon DEF A

\* What validation reports of an entry's chunk.
LEMMA LayoutIssuesAre ==
    ASSUME NEW m, m.readable \in BOOLEAN, options \in Options
    PROVE  /\ LayoutIssues(m) \in Seq(AllCodes)
           /\ \A x : x \in ToSet(LayoutIssues(m)) <=>
                 \/ x = "chunk.unreadable" /\ ~m.readable
                 \/ x = "chunk.large_entry" /\ m.readable /\ m.original > MaxEntrySize
                 \/ x = "chunk.empty_entry" /\ m.readable /\ options.empties /\ m.original = 0
                 \/ x = "chunk.size_mismatch" /\ m.readable /\ m.payload # m.packed
<1>1. /\ "chunk.unreadable" \in AllCodes /\ "chunk.large_entry" \in AllCodes
      /\ "chunk.empty_entry" \in AllCodes /\ "chunk.size_mismatch" \in AllCodes
  BY DEF AllCodes, ErrorCodes, InfoCodes
<1>2. CASE ~m.readable
  <2>1. LayoutIssues(m) = <<"chunk.unreadable">>
    BY <1>2, Zenon DEF LayoutIssues
  <2> PICK v \in AllCodes : v = "chunk.unreadable"
    BY <1>1
  <2>2. <<v>> \in Seq(AllCodes) /\ ToSet(<<v>>) = {v}
    BY DEF ToSet
  <2> QED
    BY <1>2, <2>1, <2>2
<1>3. CASE m.readable
  <2> DEFINE A == m.original > MaxEntrySize
             B == options.empties /\ m.original = 0
             C == m.payload # m.packed
             s == Codes(<<Test("chunk.large_entry", A), Test("chunk.empty_entry", B),
                          Test("chunk.size_mismatch", C)>>)
  <2>1. LayoutIssues(m) = s
    BY <1>3, Zenon DEF LayoutIssues
  <2>2. A \in BOOLEAN /\ B \in BOOLEAN /\ C \in BOOLEAN
    BY DEF Options
  <2> HIDE DEF A, B, C
  <2>3. s \in Seq(AllCodes)
        /\ \A x : x \in ToSet(s) <=>
              (A /\ x = "chunk.large_entry") \/ (B /\ x = "chunk.empty_entry")
              \/ (C /\ x = "chunk.size_mismatch")
    BY <1>1, <2>2, CodeList3
  <2> HIDE DEF s
  <2>4. \A x : x \in ToSet(s) <=>
           \/ x = "chunk.unreadable" /\ ~m.readable
           \/ x = "chunk.large_entry" /\ m.readable /\ A
           \/ x = "chunk.empty_entry" /\ m.readable /\ B
           \/ x = "chunk.size_mismatch" /\ m.readable /\ C
    BY <1>3, <2>3, Zenon
  <2> QED
    BY <2>1, <2>3, <2>4, Zenon DEF A, B, C
<1> QED
  BY <1>2, <1>3

\* The codes that depend on what a name ends in, or begins with.
TypeCode == {"compression.already_compressed_type", "name.backup", "name.temporary",
             "name.editor-swap", "name.system-metadata"}

\* What validation may report of an entry's sizes.
LEMMA CompressionIssuesAre ==
    ASSUME NEW m, m.compressed \in BOOLEAN
    PROVE  /\ CompressionIssues(m) \in Seq(AllCodes)
           /\ \A x : x \in ToSet(CompressionIssues(m)) =>
                 \/ x = "compression.zero_packed" /\ m.packed = 0 /\ m.original # 0
                 \/ x = "compression.high_ratio"
                 \/ /\ x = "compression.expansion" /\ m.packed # 0
                    /\ m.packed > Growth * AtLeastOne(m.original)
                 \/ /\ x = "compression.no_savings" /\ m.compressed
                    /\ m.packed >= m.original /\ m.original # 0
                 \/ x \in TypeCode
<1>1. /\ "compression.zero_packed" \in AllCodes /\ "compression.high_ratio" \in AllCodes
      /\ "compression.expansion" \in AllCodes /\ "compression.no_savings" \in AllCodes
  BY DEF AllCodes, ErrorCodes, InfoCodes
<1>2. CASE m.packed = 0 /\ m.original # 0
  <2>1. CompressionIssues(m) = <<"compression.zero_packed">>
    BY <1>2, Zenon DEF CompressionIssues
  <2> PICK v \in AllCodes : v = "compression.zero_packed"
    BY <1>1
  <2>2. <<v>> \in Seq(AllCodes) /\ ToSet(<<v>>) = {v}
    BY DEF ToSet
  <2> QED
    BY <1>2, <2>1, <2>2
<1>3. CASE ~(m.packed = 0 /\ m.original # 0)
  <2> DEFINE A == m.packed # 0 /\ m.compressed /\ m.original > HighRatio * m.packed
             B == m.packed # 0 /\ m.packed > Growth * AtLeastOne(m.original)
             C == m.compressed /\ m.packed >= m.original /\ m.original # 0
             s == Codes(<<Test("compression.high_ratio", A), Test("compression.expansion", B),
                          Test("compression.no_savings", C)>>)
  <2> PICK t : t = TypeIssues(m)
    OBVIOUS
  <2>1. CompressionIssues(m) = s \o t
    BY <1>3, Zenon DEF CompressionIssues
  <2>2. A \in BOOLEAN /\ B \in BOOLEAN /\ C \in BOOLEAN
    OBVIOUS
  <2>3. s \in Seq(AllCodes)
        /\ \A x : x \in ToSet(s) <=>
              (A /\ x = "compression.high_ratio") \/ (B /\ x = "compression.expansion")
              \/ (C /\ x = "compression.no_savings")
    <3> HIDE DEF A, B, C
    <3> QED
      BY <1>1, <2>2, CodeList3
  <2>4. t \in Seq(AllCodes) /\ ToSet(t) \subseteq TypeCode
    <3> DEFINE g == Advisories(m.name)
               AA == m.compressed /\ CommonlyCompressed(m.name)
               BB == "backup" \in g
               CC == "temporary" \in g
               DD == "editor-swap" \in g
               EE == "system-metadata" \in g
               r == Codes(<<Test("compression.already_compressed_type", AA),
                            Test("name.backup", BB), Test("name.temporary", CC),
                            Test("name.editor-swap", DD), Test("name.system-metadata", EE)>>)
    <3>1. t = r
      BY Zenon DEF TypeIssues
    <3>2. /\ AA \in BOOLEAN /\ BB \in BOOLEAN /\ CC \in BOOLEAN /\ DD \in BOOLEAN
          /\ EE \in BOOLEAN
      BY DEF CommonlyCompressed
    <3>3. TypeCode \subseteq AllCodes
      BY DEF TypeCode, AllCodes, InfoCodes
    <3> PICK T : T = [label : TypeCode, holds : BOOLEAN]
      OBVIOUS
    <3>4. /\ Test("compression.already_compressed_type", AA) \in T
          /\ Test("name.backup", BB) \in T /\ Test("name.temporary", CC) \in T
          /\ Test("name.editor-swap", DD) \in T /\ Test("name.system-metadata", EE) \in T
      <4>1. \A label \in TypeCode, holds \in BOOLEAN : Test(label, holds) \in T
        BY DEF Test
      <4> QED
        BY <3>2, <4>1 DEF TypeCode
    <3> HIDE DEF AA, BB, CC, DD, EE
    <3> DEFINE tests == <<Test("compression.already_compressed_type", AA),
                          Test("name.backup", BB), Test("name.temporary", CC),
                          Test("name.editor-swap", DD), Test("name.system-metadata", EE)>>
    <3>10. tests \in Seq(T)
      BY <3>4
    <3>11. r = Codes(tests)
      OBVIOUS
    <3> HIDE DEF tests, r
    <3>5. r \in Seq({u.label : u \in T})
      BY <3>10, <3>11, CodesMembers
    <3>6. {u.label : u \in T} \subseteq TypeCode
      OBVIOUS
    <3>7. \A i \in 1 .. Len(r) : r[i] \in TypeCode /\ r[i] \in AllCodes
      BY <3>3, <3>5, <3>6
    <3>8. r \in Seq(AllCodes) /\ ToSet(r) \subseteq TypeCode
      <4>1. r \in [1 .. Len(r) -> AllCodes] /\ Len(r) \in Nat
        BY <3>5, <3>7
      <4> QED
        BY <4>1, <3>7 DEF ToSet
    <3> QED
      BY <3>1, <3>8
  <2> HIDE DEF s
  <2>5. s \o t \in Seq(AllCodes) /\ ToSet(s \o t) = ToSet(s) \cup ToSet(t)
    BY <2>3, <2>4, MembersOfBoth
  <2>6. \A x : x \in ToSet(s \o t) =>
           (A /\ x = "compression.high_ratio") \/ (B /\ x = "compression.expansion")
              \/ (C /\ x = "compression.no_savings") \/ x \in TypeCode
    <3> HIDE DEF A, B, C
    <3> QED
      BY <2>3, <2>4, <2>5, Zenon
  <2> QED
    BY <2>1, <2>5, <2>6, Zenon
<1> QED
  BY <1>2, <1>3

\* What validation reports of an entry's flags.
LEMMA FlagIssuesAre ==
    ASSUME NEW m, m.compressed \in BOOLEAN
    PROVE  /\ FlagIssues(m) \in Seq(AllCodes)
           /\ \A x : x \in ToSet(FlagIssues(m)) <=>
                 \/ x = "index.unknown_flags" /\ HasUnknownFlags(m.flags)
                 \/ /\ x = "chunk.flag_disagreement"
                    /\ m.compressed # ("compressed" \in m.chunkFlags)
<1> DEFINE A == HasUnknownFlags(m.flags)
           B == m.compressed # ("compressed" \in m.chunkFlags)
           s == Codes(<<Test("index.unknown_flags", A), Test("chunk.flag_disagreement", B)>>)
<1>1. "index.unknown_flags" \in AllCodes /\ "chunk.flag_disagreement" \in AllCodes
  BY DEF AllCodes
<1>2. A \in BOOLEAN /\ B \in BOOLEAN
  BY DEF HasUnknownFlags
<1>3. FlagIssues(m) = s
  BY Zenon DEF FlagIssues
<1> HIDE DEF A, B
<1>4. s \in Seq(AllCodes)
      /\ \A x : x \in ToSet(s) <=>
            (A /\ x = "index.unknown_flags") \/ (B /\ x = "chunk.flag_disagreement")
  BY <1>1, <1>2, CodeList2
<1> HIDE DEF s
<1>5. \A x : x \in ToSet(s) <=>
         \/ x = "index.unknown_flags" /\ A
         \/ x = "chunk.flag_disagreement" /\ B
  BY <1>4
<1> QED
  BY <1>3, <1>4, <1>5, Zenon DEF A, B

-----------------------------------------------------------------------------
(* What is reported.                                                       *)

\* The issues there may be of an archive with n entries.
Issues(n) == [code : AllCodes, entry : 0 .. n]

\* What is reported is added to the issues; those before it stay as they are.
LEMMA ReportedAre ==
    ASSUME NEW n \in Nat, NEW l \in Seq(Issues(n)), NEW codes \in Seq(AllCodes), NEW id \in 0 .. n
    PROVE  /\ l \o Reported(codes, id) \in Seq(Issues(n))
           /\ Len(l) \in Nat /\ Len(l \o Reported(codes, id)) \in Nat
           /\ Len(l) <= Len(l \o Reported(codes, id))
           /\ ToSet(l \o Reported(codes, id))
                = ToSet(l) \cup {[code |-> c, entry |-> id] : c \in ToSet(codes)}
           /\ HasErrors(l \o Reported(codes, id))
                <=> HasErrors(l) \/ \E c \in ToSet(codes) : c \in ErrorCodes
           /\ \A k \in 0 .. Len(l) : SubSeq(l \o Reported(codes, id), 1, k) = SubSeq(l, 1, k)
<1> PICK m \in Nat : m = Len(codes)
  OBVIOUS
<1>0. DOMAIN codes = 1 .. m /\ \A i \in 1 .. m : codes[i] \in AllCodes
  OBVIOUS
<1> DEFINE r == Reported(codes, id)
<1>1. r = [i \in 1 .. m |-> [code |-> codes[i], entry |-> id]]
  BY <1>0 DEF Reported
<1>2. \A i \in 1 .. m : r[i] = [code |-> codes[i], entry |-> id] /\ r[i] \in Issues(n)
  BY <1>0, <1>1 DEF Issues
<1>3. r \in [1 .. m -> Issues(n)]
  BY <1>1, <1>2
<1>4. r \in Seq(Issues(n)) /\ Len(r) = m
  <2> HIDE DEF r
  <2> QED
    BY <1>3
<1> HIDE DEF r
<1>5. l \o r \in Seq(Issues(n)) /\ ToSet(l \o r) = ToSet(l) \cup ToSet(r)
  BY <1>4, MembersOfBoth
<1>6. ToSet(r) = {r[i] : i \in 1 .. m} /\ ToSet(codes) = {codes[i] : i \in 1 .. m}
  BY <1>4, MembersOf
<1>7. ToSet(r) = {[code |-> c, entry |-> id] : c \in ToSet(codes)}
  <2> DEFINE issue(c) == [code |-> c, entry |-> id]
  <2>1. \A i \in 1 .. m : r[i] = issue(codes[i])
    BY <1>2
  <2> HIDE DEF issue
  <2>2. ToSet(r) = {issue(c) : c \in ToSet(codes)}
    BY <1>6, <2>1
  <2> QED
    BY <2>2 DEF issue
<1>8. Len(l) \in Nat /\ Len(l \o r) = Len(l) + m
  BY <1>4
<1>9. \A k \in 0 .. Len(l) : SubSeq(l \o r, 1, k) = SubSeq(l, 1, k)
  <2> TAKE k \in 0 .. Len(l)
  <2> PICK a \in Nat : a = Len(l)
    OBVIOUS
  <2>1. \A i \in 1 .. k : (l \o r)[i] = l[i]
    BY <1>4
  <2>2. /\ SubSeq(l \o r, 1, k) = [i \in 1 .. k |-> (l \o r)[i + 1 - 1]]
        /\ SubSeq(l, 1, k) = [i \in 1 .. k |-> l[i + 1 - 1]]
    <3>1. \A s : SubSeq(s, 1, k) = [i \in 1 .. (1 + k - 1) |-> s[i + 1 - 1]]
      BY SMT
    <3>2. 1 + k - 1 = k
      OBVIOUS
    <3> QED
      BY <3>1, <3>2
  <2>3. \A i \in 1 .. k : (l \o r)[i + 1 - 1] = l[i + 1 - 1]
    BY <2>1
  <2> QED
    BY <2>2, <2>3
<1>10. \A s : s \in Seq(Issues(n)) => (HasErrors(s) <=> \E x \in ToSet(s) : x.code \in ErrorCodes)
  BY MembersOf DEF HasErrors
<1>11. HasErrors(l \o r) <=> HasErrors(l) \/ \E c \in ToSet(codes) : c \in ErrorCodes
  <2>1. \A c : [code |-> c, entry |-> id].code = c
    OBVIOUS
  <2>2. (\E x \in ToSet(r) : x.code \in ErrorCodes) <=> \E c \in ToSet(codes) : c \in ErrorCodes
    BY <1>7, <2>1, Zenon
  <2>3. (\E x \in ToSet(l \o r) : x.code \in ErrorCodes)
          <=> (\E x \in ToSet(l) : x.code \in ErrorCodes) \/ \E x \in ToSet(r) : x.code \in ErrorCodes
    BY <1>5
  <2> QED
    BY <1>5, <1>10, <2>2, <2>3
<1> QED
  BY <1>5, <1>7, <1>8, <1>9, <1>11 DEF r

-----------------------------------------------------------------------------

\* How many entries the list is about, and one more.
ListedTo == IF phase = "inspect" THEN next ELSE Len(archive) + 1

\* Where the program is, and what it has made of the entries it has looked at.
PlaceInv ==
    /\ Given
    /\ phase \in {"inspect", "header", "format", "entries", "summarize", "done"}
    /\ next \in 1 .. Len(archive) + 1
    /\ Listing(manifest, archive, ListedTo)
    /\ diagnostics \in Seq(Issues(Len(archive)))
    /\ inspected \in 0 .. Len(diagnostics)

\* The inputs do not change, and what is listed depends on nothing else.
LEMMA ListingKept ==
    ASSUME UNCHANGED input, NEW list, NEW entries, NEW k
    PROVE  Listing(list, entries, k)' <=> Listing(list, entries, k)
<1>1. options' = options
  BY DEF input
<1>2. Descriptions(entries)' = Descriptions(entries)
  BY <1>1, SMT DEF Descriptions, Described, Opened
<1> QED
  BY <1>1, <1>2, Zenon DEF Listing, Encloses

\* The inputs stay those that were given.
LEMMA GivenKept ==
    ASSUME UNCHANGED input, Given
    PROVE  Given'
  BY DEF input, Given

\* No step changes the inputs.
LEMMA NextKeepsInput == ASSUME Next PROVE UNCHANGED input
<1>1. CASE Finished
  BY <1>1 DEF Finished, vars, input
<1> QED
  BY <1>1, Zenon DEF Next, InspectEntry, EndInspection, CheckHeader, CheckFormat, ValidateTotals,
      ValidateEntry, EndValidation, SummarizeEntry, Compare

\* What the invariant says of the inputs, the list and the issues, one by one.
LEMMA GivenPlaces ==
    ASSUME PlaceInv
    PROVE  /\ archive \in Seq(Entry) /\ WellFormed(archive) /\ Len(archive) \in Nat
           /\ options \in Options /\ options.max_depth \in Nat
           /\ whole \in Whole
           /\ ListedTo \in Nat
           /\ diagnostics \in Seq(Issues(Len(archive)))
           /\ manifest \in Seq(Descriptions(archive)) /\ Len(manifest) \in Nat
           /\ Len(manifest) <= Len(archive)
           /\ \A i \in 1 .. Len(manifest) :
                 /\ manifest[i] \in Descriptions(archive)
                 /\ manifest[i].id \in i .. Len(archive)
                 /\ manifest[i].depth \in 0 .. options.max_depth
           /\ ToSet(manifest) = {manifest[i] : i \in 1 .. Len(manifest)}
<1>1. archive \in Seq(Entry) /\ WellFormed(archive) /\ options \in Options /\ whole \in Whole
  BY GivenTypes DEF PlaceInv
<1>2. Len(archive) \in Nat /\ options.max_depth \in Nat
  BY <1>1 DEF Options
<1>3. ListedTo \in Nat
  BY <1>2 DEF PlaceInv, ListedTo
<1>4. Listing(manifest, archive, ListedTo)
  BY DEF PlaceInv
<1>5. /\ manifest \in Seq(Descriptions(archive)) /\ Len(manifest) \in Nat
      /\ Len(manifest) <= Len(archive)
      /\ \A i \in 1 .. Len(manifest) :
            /\ manifest[i].id \in i .. Len(archive)
            /\ manifest[i].depth \in 0 .. options.max_depth
  BY <1>1, <1>3, <1>4, PlaceInListing
<1>6. ToSet(manifest) = {manifest[i] : i \in 1 .. Len(manifest)}
  BY <1>5, MembersOf
<1> QED
  BY <1>1, <1>2, <1>3, <1>5, <1>6 DEF PlaceInv

\* How each action goes through the entries.
LEMMA NotInspecting ==
    ASSUME PlaceInv, UNCHANGED input, UNCHANGED manifest, ListedTo' = ListedTo
    PROVE  Listing(manifest, archive, ListedTo)'
<1>1. \A l, e, k : Listing(l, e, k)' <=> Listing(l, e, k)
  BY ListingKept
<1>2. archive' = archive
  BY DEF input
<1>3. Listing(manifest, archive, ListedTo)
  BY DEF PlaceInv
<1> QED
  BY <1>1, <1>2, <1>3

\* Four sequences put together.
LEMMA MembersOfFour ==
    ASSUME NEW T, NEW a \in Seq(T), NEW b \in Seq(T), NEW c \in Seq(T), NEW d \in Seq(T)
    PROVE  /\ a \o b \o c \o d \in Seq(T)
           /\ ToSet(a \o b \o c \o d) = ToSet(a) \cup ToSet(b) \cup ToSet(c) \cup ToSet(d)
<1>1. a \o b \o c \in Seq(T) /\ ToSet(a \o b \o c) = ToSet(a) \cup ToSet(b) \cup ToSet(c)
  BY MembersOfThree
<1>2. \A v \in Seq(T) : v \o d \in Seq(T) /\ ToSet(v \o d) = ToSet(v) \cup ToSet(d)
  BY MembersOfBoth
<1>3. /\ a \o b \o c \o d \in Seq(T)
      /\ ToSet(a \o b \o c \o d) = ToSet(a \o b \o c) \cup ToSet(d)
  BY <1>1, <1>2, Zenon
<1> QED
  BY <1>1, <1>3, Zenon

\* A step that reports adds its codes and nothing else.
LEMMA ReportStep ==
    ASSUME PlaceInv, NEW codes \in Seq(AllCodes), NEW id \in 0 .. Len(archive),
           Report(codes, id)
    PROVE  /\ diagnostics' \in Seq(Issues(Len(archive)))
           /\ Len(diagnostics) \in Nat /\ Len(diagnostics') \in Nat
           /\ Len(diagnostics) <= Len(diagnostics')
           /\ ToSet(diagnostics')
                = ToSet(diagnostics) \cup {[code |-> c, entry |-> id] : c \in ToSet(codes)}
           /\ HasErrors(diagnostics')
                <=> HasErrors(diagnostics) \/ \E c \in ToSet(codes) : c \in ErrorCodes
           /\ \A k \in 0 .. Len(diagnostics) :
                 SubSeq(diagnostics', 1, k) = SubSeq(diagnostics, 1, k)
<1>1. Len(archive) \in Nat /\ diagnostics \in Seq(Issues(Len(archive)))
  BY GivenPlaces
<1>2. diagnostics' = diagnostics \o Reported(codes, id)
  BY DEF Report
<1>3. /\ diagnostics \o Reported(codes, id) \in Seq(Issues(Len(archive)))
      /\ Len(diagnostics) \in Nat /\ Len(diagnostics \o Reported(codes, id)) \in Nat
      /\ Len(diagnostics) <= Len(diagnostics \o Reported(codes, id))
      /\ ToSet(diagnostics \o Reported(codes, id))
           = ToSet(diagnostics) \cup {[code |-> c, entry |-> id] : c \in ToSet(codes)}
      /\ HasErrors(diagnostics \o Reported(codes, id))
           <=> HasErrors(diagnostics) \/ \E c \in ToSet(codes) : c \in ErrorCodes
      /\ \A k \in 0 .. Len(diagnostics) :
            SubSeq(diagnostics \o Reported(codes, id), 1, k) = SubSeq(diagnostics, 1, k)
  BY <1>1, ReportedAre
<1>4. HasErrors(diagnostics') <=> HasErrors(diagnostics \o Reported(codes, id))
  BY <1>2, Zenon DEF HasErrors
<1> QED
  BY <1>2, <1>3, <1>4, Zenon

\* Inspection of an entry: it is not listed, or listed and reported on.
LEMMA InspectEntryDoes ==
    ASSUME PlaceInv, InspectEntry
    PROVE  /\ phase = "inspect" /\ phase' = "inspect"
           /\ next \in 1 .. Len(archive) /\ next' = next + 1
           /\ archive[next] \in Entry
           /\ Listing(manifest', archive, next + 1)
           /\ \/ manifest' = manifest /\ diagnostics' = diagnostics
              \/ \E d \in 0 .. options.max_depth :
                    /\ manifest' = Append(manifest, Described(next, archive[next], d))
                    /\ InspectionIssues(archive[next], d) \in Seq(AllCodes)
                    /\ Report(InspectionIssues(archive[next], d), next)
<1>1. /\ archive \in Seq(Entry) /\ WellFormed(archive) /\ options.max_depth \in Nat
      /\ options \in Options /\ manifest \in Seq(Descriptions(archive))
  BY GivenPlaces
<1>2. /\ phase = "inspect" /\ phase' = phase /\ next <= Len(archive) /\ next' = next + 1
      /\ manifest' = Extended(manifest, archive, next)
  BY DEF InspectEntry, At
<1>3. next \in 1 .. Len(archive) /\ ListedTo = next
  BY <1>1, <1>2 DEF PlaceInv, ListedTo
<1>4. Listing(manifest, archive, next)
  BY <1>3 DEF PlaceInv
<1>5. /\ Listing(manifest', archive, next + 1)
      /\ \/ manifest' = manifest
         \/ \E d \in 0 .. options.max_depth :
               manifest' = Append(manifest, Described(next, archive[next], d))
  BY <1>1, <1>2, <1>3, <1>4, ListingStep
<1>6. archive[next] \in Entry
  BY <1>1, <1>3
<1>7. CASE manifest' = manifest
  <2>1. diagnostics' = diagnostics
    BY <1>7 DEF InspectEntry
  <2> QED
    BY <1>2, <1>3, <1>5, <1>6, <1>7, <2>1
<1>8. ASSUME NEW d \in 0 .. options.max_depth,
             manifest' = Append(manifest, Described(next, archive[next], d))
      PROVE  /\ InspectionIssues(archive[next], d) \in Seq(AllCodes)
             /\ Report(InspectionIssues(archive[next], d), next)
  <2> PICK m \in Descriptions(archive) : m = Described(next, archive[next], d) /\ m.depth = d
    BY <1>3, DescribedIsDescription
  <2>1. manifest' # manifest /\ Last(manifest') = m
    BY <1>1, <1>8, Appended
  <2>2. Report(InspectionIssues(archive[next], Last(manifest').depth), next)
    BY <2>1, Zenon DEF InspectEntry
  <2>3. Last(manifest').depth = d
    BY <2>1
  <2>4. InspectionIssues(archive[next], d) \in Seq(AllCodes)
    BY <1>1, <1>6, InspectionIssuesAre
  <2> QED
    BY <2>2, <2>3, <2>4
<1> QED
  BY <1>2, <1>3, <1>5, <1>6, <1>7, <1>8

\* An entry of the manifest.
LEMMA DescribedEntry ==
    ASSUME PlaceInv, NEW m \in Descriptions(archive)
    PROVE  /\ archive[m.id] \in Entry
           /\ m.id \in 1 .. Len(archive) /\ m.depth \in 0 .. options.max_depth
           /\ m.name = archive[m.id].name /\ m.name \in Name /\ m.name # EmptyName
           /\ m.normalized = Normalized(DefaultPolicy, m.name)
           /\ m.packed = archive[m.id].packed /\ m.packed \in Size
           /\ m.original = archive[m.id].original /\ m.original \in Size
           /\ m.flags = archive[m.id].flags /\ m.flags \subseteq Flag
           /\ m.compressed = ("compressed" \in archive[m.id].flags)
           /\ m.nested = IsNested(archive[m.id])
           /\ m.readable = Readable(archive[m.id])
           /\ m.payload = (IF Readable(archive[m.id]) THEN archive[m.id].length ELSE 0)
           /\ m.chunkFlags = (IF Readable(archive[m.id]) THEN archive[m.id].chunkFlags ELSE {})
           /\ m.opened = Opened(archive[m.id], m.depth)
           /\ m.readable \in BOOLEAN /\ m.compressed \in BOOLEAN
<1>1. archive \in Seq(Entry) /\ WellFormed(archive) /\ options \in Options
  BY GivenPlaces
<1> PICK entries : entries = archive
  OBVIOUS
<1>2. /\ entries[m.id] \in Entry
      /\ m.id \in 1 .. Len(entries) /\ m.depth \in 0 .. options.max_depth
      /\ m.name = entries[m.id].name /\ m.name \in Name /\ m.name # EmptyName
      /\ m.normalized = Normalized(DefaultPolicy, m.name)
      /\ m.packed = entries[m.id].packed /\ m.packed \in Size
      /\ m.original = entries[m.id].original /\ m.original \in Size
      /\ m.flags = entries[m.id].flags /\ m.flags \subseteq Flag
      /\ m.compressed = ("compressed" \in entries[m.id].flags)
      /\ m.nested = IsNested(entries[m.id])
      /\ m.readable = Readable(entries[m.id])
      /\ m.payload = (IF Readable(entries[m.id]) THEN entries[m.id].length ELSE 0)
      /\ m.chunkFlags = (IF Readable(entries[m.id]) THEN entries[m.id].chunkFlags ELSE {})
      /\ m.opened = Opened(entries[m.id], m.depth)
  BY <1>1, DescribedTypes, Zenon
<1>3. Readable(archive[m.id]) \in BOOLEAN
  BY DEF Readable
<1>4. m.compressed \in BOOLEAN /\ m.readable \in BOOLEAN
  <2>1. m.compressed = ("compressed" \in entries[m.id].flags) /\ m.readable = Readable(archive[m.id])
    BY <1>2, Zenon
  <2> QED
    BY <2>1, <1>3
<1> QED
  BY <1>2, <1>4, Zenon

\* A step that goes through the list is at one of its entries.
LEMMA EntryAt ==
    ASSUME PlaceInv, NEW p, At(p, manifest)
    PROVE  /\ next \in 1 .. Len(manifest) /\ next' = next + 1 /\ phase' = p /\ phase = p
           /\ next + 1 \in 1 .. Len(archive) + 1
           /\ manifest[next] \in Descriptions(archive)
           /\ manifest[next].id \in 1 .. Len(archive)
           /\ manifest[next].name \in Name
           /\ manifest[next].readable \in BOOLEAN /\ manifest[next].compressed \in BOOLEAN
<1>1. phase = p /\ next <= Len(manifest) /\ next' = next + 1 /\ phase' = phase
  BY DEF At
<1>2. next \in 1 .. Len(manifest)
  BY <1>1, GivenPlaces DEF PlaceInv
<1>3. next + 1 \in 1 .. Len(archive) + 1
  BY <1>2, GivenPlaces
<1>4. manifest[next] \in Descriptions(archive) /\ manifest[next].id \in 1 .. Len(archive)
  BY <1>2, GivenPlaces
<1>5. /\ manifest[next].name \in Name
      /\ manifest[next].readable \in BOOLEAN /\ manifest[next].compressed \in BOOLEAN
  BY <1>4, DescribedEntry
<1> QED
  BY <1>1, <1>2, <1>3, <1>4, <1>5

\* All that validateEntryTree reports of an entry.
EntryIssues(m) ==
    PolicyIssues(m) \o LayoutIssues(m) \o CompressionIssues(m) \o FlagIssues(m)

\* Its codes are those of its four parts.
LEMMA EntryIssuesAre ==
    ASSUME PlaceInv, NEW m \in Descriptions(archive)
    PROVE  /\ EntryIssues(m) \in Seq(AllCodes)
           /\ ToSet(EntryIssues(m)) = ToSet(PolicyIssues(m)) \cup ToSet(LayoutIssues(m))
                                        \cup ToSet(CompressionIssues(m)) \cup ToSet(FlagIssues(m))
           /\ FormatIssues(m) \in Seq(AllCodes)
<1>1. /\ m.name \in Name /\ m.readable \in BOOLEAN /\ m.compressed \in BOOLEAN
      /\ options \in Options
  BY GivenPlaces, DescribedEntry
<1> PICK a \in Seq(AllCodes), b \in Seq(AllCodes), c \in Seq(AllCodes), d \in Seq(AllCodes) :
       a = PolicyIssues(m) /\ b = LayoutIssues(m) /\ c = CompressionIssues(m) /\ d = FlagIssues(m)
  BY <1>1, PolicyIssuesAre, LayoutIssuesAre, CompressionIssuesAre, FlagIssuesAre
<1>2. /\ a \o b \o c \o d \in Seq(AllCodes)
      /\ ToSet(a \o b \o c \o d) = ToSet(a) \cup ToSet(b) \cup ToSet(c) \cup ToSet(d)
  BY MembersOfFour
<1>4. EntryIssues(m) = a \o b \o c \o d
  BY DEF EntryIssues
<1>5. FormatIssues(m) \in Seq(AllCodes)
  BY <1>1, FormatIssuesAre
<1> QED
  BY <1>2, <1>4, <1>5

\* What is reported of the archive as a whole.
InspectionEnd == Codes(<<Test("header.parse", ~whole.opens),
                         Test("extension", whole.opens /\ ~whole.sound)>>)
\* What the format rules report of the header.
HeaderIssues == Codes(<<Test("format.unknown_flags", ~whole.known),
                        Test("format.archive_size", whole.size > FormatSizes.archive),
                        Test("format.extension_size",
                             whole.opens /\ whole.extension > FormatSizes.extension)>>)
\* What validation reports of the archive as a whole.
TotalIssues == Codes(<<Test("archive.large", whole.size > MaxArchiveSize),
                       Test("index.empty", manifest = <<>> /\ ListSucceeds),
                       Test("nesting.depth",
                            \E m \in ToSet(manifest) : m.depth > options.max_depth),
                       Test("layout.overlap", whole.opens /\ whole.overlap)>>)

\* The same of the four tests of the whole archive.
LEMMA TotalIssuesAre ==
    ASSUME NEW A \in BOOLEAN, NEW B \in BOOLEAN, NEW C \in BOOLEAN, NEW D \in BOOLEAN,
           TotalIssues = Codes(<<Test("archive.large", A), Test("index.empty", B),
                                 Test("nesting.depth", C), Test("layout.overlap", D)>>)
    PROVE  /\ TotalIssues \in Seq(AllCodes)
           /\ \A x : x \in ToSet(TotalIssues) <=>
                 (A /\ x = "archive.large") \/ (B /\ x = "index.empty")
                 \/ (C /\ x = "nesting.depth") \/ (D /\ x = "layout.overlap")
<1>1. "archive.large" \in AllCodes /\ "index.empty" \in AllCodes
      /\ "nesting.depth" \in AllCodes /\ "layout.overlap" \in AllCodes
  BY DEF AllCodes, ErrorCodes, InfoCodes
<1>2. TotalIssues \in Seq(AllCodes)
  BY <1>1, CodeList4
<1>3. \A x : x \in ToSet(TotalIssues) <=>
                 (A /\ x = "archive.large") \/ (B /\ x = "index.empty")
                 \/ (C /\ x = "nesting.depth") \/ (D /\ x = "layout.overlap")
  BY CodesOf4
<1> QED
  BY <1>2, <1>3

\* What is reported of no entry is one of these, and why.
LEMMA WholeIssuesAre ==
    ASSUME PlaceInv
    PROVE  /\ InspectionEnd \in Seq(AllCodes)
           /\ \A x : x \in ToSet(InspectionEnd) <=>
                 \/ x = "header.parse" /\ ~whole.opens
                 \/ x = "extension" /\ whole.opens /\ ~whole.sound
           /\ HeaderIssues \in Seq(AllCodes)
           /\ ToSet(HeaderIssues) \subseteq
                {"format.unknown_flags", "format.archive_size", "format.extension_size"}
           /\ TotalIssues \in Seq(AllCodes)
           /\ \A x : x \in ToSet(TotalIssues) =>
                 \/ x \in {"archive.large", "index.empty"}
                 \/ x = "layout.overlap" /\ whole.opens /\ whole.overlap
           /\ whole.opens /\ whole.overlap => "layout.overlap" \in ToSet(TotalIssues)
<1>0. whole.opens \in BOOLEAN /\ whole.known \in BOOLEAN /\ whole.sound \in BOOLEAN
      /\ whole.overlap \in BOOLEAN
  BY GivenPlaces DEF Whole
<1>1. /\ InspectionEnd \in Seq(AllCodes)
      /\ \A x : x \in ToSet(InspectionEnd) <=>
            \/ x = "header.parse" /\ ~whole.opens
            \/ x = "extension" /\ whole.opens /\ ~whole.sound
  <2> DEFINE A == ~whole.opens
             B == whole.opens /\ ~whole.sound
  <2>1. "header.parse" \in AllCodes /\ "extension" \in AllCodes
    BY DEF AllCodes, ErrorCodes
  <2>2. A \in BOOLEAN /\ B \in BOOLEAN
    BY <1>0
  <2>3. InspectionEnd = Codes(<<Test("header.parse", A), Test("extension", B)>>)
    BY DEF InspectionEnd
  <2> HIDE DEF A, B
  <2>4. /\ InspectionEnd \in Seq(AllCodes)
        /\ \A x : x \in ToSet(InspectionEnd) <=>
              (A /\ x = "header.parse") \/ (B /\ x = "extension")
    BY <2>1, <2>2, <2>3, CodeList2
  <2> QED
    BY <2>4 DEF A, B
<1>2. /\ HeaderIssues \in Seq(AllCodes)
      /\ ToSet(HeaderIssues) \subseteq
           {"format.unknown_flags", "format.archive_size", "format.extension_size"}
  <2> DEFINE A == ~whole.known
             B == whole.size > FormatSizes.archive
             C == whole.opens /\ whole.extension > FormatSizes.extension
  <2>1. "format.unknown_flags" \in AllCodes /\ "format.archive_size" \in AllCodes
        /\ "format.extension_size" \in AllCodes
    BY DEF AllCodes
  <2>2. A \in BOOLEAN /\ B \in BOOLEAN /\ C \in BOOLEAN
    BY <1>0
  <2>3. HeaderIssues = Codes(<<Test("format.unknown_flags", A), Test("format.archive_size", B),
                               Test("format.extension_size", C)>>)
    BY DEF HeaderIssues
  <2> HIDE DEF A, B, C
  <2>4. /\ HeaderIssues \in Seq(AllCodes)
        /\ \A x : x \in ToSet(HeaderIssues) <=>
              (A /\ x = "format.unknown_flags") \/ (B /\ x = "format.archive_size")
              \/ (C /\ x = "format.extension_size")
    BY <2>1, <2>2, <2>3, CodeList3
  <2> QED
    BY <2>4
<1>3. /\ TotalIssues \in Seq(AllCodes)
      /\ \A x : x \in ToSet(TotalIssues) =>
            \/ x \in {"archive.large", "index.empty"}
            \/ x = "layout.overlap" /\ whole.opens /\ whole.overlap
      /\ whole.opens /\ whole.overlap => "layout.overlap" \in ToSet(TotalIssues)
  <2> DEFINE A == whole.size > MaxArchiveSize
             B == manifest = <<>> /\ ListSucceeds
             C == \E m \in ToSet(manifest) : m.depth > options.max_depth
             D == whole.opens /\ whole.overlap
  <2>2. A \in BOOLEAN /\ B \in BOOLEAN /\ C \in BOOLEAN /\ D \in BOOLEAN
    BY <1>0 DEF ListSucceeds
  <2>3. ~C
    BY GivenPlaces
  <2>4. TotalIssues = Codes(<<Test("archive.large", A), Test("index.empty", B),
                              Test("nesting.depth", C), Test("layout.overlap", D)>>)
    BY Zenon DEF TotalIssues
  <2> HIDE DEF A, B, C, D
  <2>5. /\ TotalIssues \in Seq(AllCodes)
        /\ \A x : x \in ToSet(TotalIssues) <=>
              (A /\ x = "archive.large") \/ (B /\ x = "index.empty")
              \/ (C /\ x = "nesting.depth") \/ (D /\ x = "layout.overlap")
    BY <2>2, <2>4, TotalIssuesAre
  <2> QED
    BY <2>3, <2>5 DEF D
<1> QED
  BY <1>1, <1>2, <1>3

\* PlaceInv holds when nothing has been inspected,
LEMMA PlaceInit == Init => PlaceInv
<1> SUFFICES ASSUME Init PROVE PlaceInv
  OBVIOUS
<1>1. Given
  BY DEF Init, Given
<1>2. archive \in Seq(Entry)
  BY <1>1, GivenTypes
<1>3. phase = "inspect" /\ next = 1 /\ manifest = <<>> /\ diagnostics = <<>> /\ inspected = 0
  BY DEF Init
<1>4. next \in 1 .. Len(archive) + 1
  BY <1>2, <1>3
<1>5. Listing(manifest, archive, ListedTo)
  <2>1. \A a : Listing(<<>>, a, 1)
    BY NothingListed
  <2>2. ListedTo = 1
    BY <1>3 DEF ListedTo
  <2> QED
    BY <1>3, <2>1, <2>2
<1>6. diagnostics \in Seq(Issues(Len(archive))) /\ inspected \in 0 .. Len(diagnostics)
  BY <1>3
<1> QED
  BY <1>1, <1>3, <1>4, <1>5, <1>6 DEF PlaceInv

\* is kept by every step,
LEMMA PlaceStep == PlaceInv /\ Next => PlaceInv'
<1> SUFFICES ASSUME PlaceInv, Next PROVE PlaceInv'
  OBVIOUS
<1>1. UNCHANGED input /\ archive' = archive
  BY NextKeepsInput DEF input
<1>2. Given'
  BY <1>1, GivenKept DEF PlaceInv
<1>3. Len(archive) \in Nat /\ Len(diagnostics) \in Nat
      /\ diagnostics \in Seq(Issues(Len(archive)))
      /\ Len(manifest) \in Nat /\ Len(manifest) <= Len(archive)
  BY GivenPlaces
<1>4. /\ phase \in {"inspect", "header", "format", "entries", "summarize", "done"}
      /\ next \in 1 .. Len(archive) + 1 /\ inspected \in 0 .. Len(diagnostics)
  BY DEF PlaceInv
<1>5. \A l, e, k : Listing(l, e, k)' <=> Listing(l, e, k)
  BY <1>1, ListingKept
<1> DEFINE Behind == /\ phase' \in {"inspect", "header", "format", "entries", "summarize", "done"}
                   /\ next' \in 1 .. Len(archive) + 1
                   /\ diagnostics' \in Seq(Issues(Len(archive)))
                   /\ inspected' \in 0 .. Len(diagnostics')
<1>6. ASSUME Behind, UNCHANGED manifest, ListedTo' = ListedTo
      PROVE  PlaceInv'
  <2>1. Listing(manifest, archive, ListedTo)'
    BY <1>1, <1>6, NotInspecting
  <2> QED
    BY <1>1, <1>2, <1>6, <2>1 DEF PlaceInv
<1>7. ASSUME Behind, UNCHANGED manifest, phase # "inspect", phase' # "inspect"
      PROVE  PlaceInv'
  BY <1>1, <1>6, <1>7 DEF ListedTo
<1>8. ASSUME NEW codes \in Seq(AllCodes), NEW id \in 0 .. Len(archive), Report(codes, id),
             inspected' = inspected
      PROVE  /\ diagnostics' \in Seq(Issues(Len(archive)))
             /\ inspected' \in 0 .. Len(diagnostics')
  BY <1>4, <1>8, ReportStep
<1>9. CASE InspectEntry
  <2>1. /\ phase = "inspect" /\ phase' = "inspect"
        /\ next \in 1 .. Len(archive) /\ next' = next + 1
        /\ Listing(manifest', archive, next + 1)
        /\ \/ manifest' = manifest /\ diagnostics' = diagnostics
           \/ \E d \in 0 .. options.max_depth :
                 /\ InspectionIssues(archive[next], d) \in Seq(AllCodes)
                 /\ Report(InspectionIssues(archive[next], d), next)
    BY <1>9, InspectEntryDoes
  <2>2. inspected' = inspected
    BY <1>9 DEF InspectEntry
  <2>3. next' \in 1 .. Len(archive) + 1
    BY <1>3, <2>1
  <2>4. diagnostics' \in Seq(Issues(Len(archive))) /\ inspected' \in 0 .. Len(diagnostics')
    <3>1. CASE diagnostics' = diagnostics
      BY <1>3, <1>4, <2>2, <3>1
    <3>2. CASE \E d \in 0 .. options.max_depth :
                 /\ InspectionIssues(archive[next], d) \in Seq(AllCodes)
                 /\ Report(InspectionIssues(archive[next], d), next)
      <4>1. next \in 0 .. Len(archive)
        BY <2>1
      <4> QED
        BY <1>8, <2>2, <3>2, <4>1
    <3> QED
      BY <2>1, <3>1, <3>2
  <2>5. ListedTo' = next + 1
    BY <2>1 DEF ListedTo
  <2>6. Listing(manifest, archive, ListedTo)'
    BY <1>1, <1>5, <2>1, <2>5
  <2> QED
    BY <1>1, <1>2, <2>1, <2>3, <2>4, <2>6 DEF PlaceInv
<1>10. CASE EndInspection
  <2>1. /\ phase = "inspect" /\ next > Len(archive) /\ next' = 1 /\ phase' = "header"
        /\ Report(InspectionEnd, 0) /\ inspected' = Len(diagnostics') /\ UNCHANGED manifest
    BY <1>10 DEF EndInspection, Past, InspectionEnd
  <2>2. InspectionEnd \in Seq(AllCodes)
    BY WholeIssuesAre
  <2>3. 0 \in 0 .. Len(archive)
    BY <1>3
  <2>4. diagnostics' \in Seq(Issues(Len(archive))) /\ Len(diagnostics') \in Nat
    BY <2>1, <2>2, <2>3, ReportStep
  <2>5. inspected' \in 0 .. Len(diagnostics')
    BY <2>1, <2>4
  <2>6. next' \in 1 .. Len(archive) + 1
    BY <1>3, <2>1
  <2>7. ListedTo' = ListedTo
    BY <1>1, <1>3, <1>4, <2>1 DEF ListedTo
  <2> QED
    BY <1>6, <2>1, <2>4, <2>5, <2>6, <2>7
<1>11. CASE CheckHeader
  <2>1. /\ phase = "header" /\ phase' = "format" /\ next' = next
        /\ Report(HeaderIssues, 0) /\ inspected' = inspected /\ UNCHANGED manifest
    BY <1>11 DEF CheckHeader, HeaderIssues
  <2>2. HeaderIssues \in Seq(AllCodes) /\ 0 \in 0 .. Len(archive)
    BY <1>3, WholeIssuesAre
  <2> QED
    BY <1>4, <1>7, <1>8, <2>1, <2>2
<1>12. CASE CheckFormat
  <2>1. /\ At("format", manifest) /\ inspected' = inspected /\ UNCHANGED manifest
        /\ Report(FormatIssues(manifest[next]), manifest[next].id)
    BY <1>12 DEF CheckFormat
  <2>2. /\ phase = "format" /\ phase' = "format" /\ next' = next + 1
        /\ next + 1 \in 1 .. Len(archive) + 1
        /\ manifest[next] \in Descriptions(archive) /\ manifest[next].id \in 1 .. Len(archive)
    BY <2>1, EntryAt
  <2>3. FormatIssues(manifest[next]) \in Seq(AllCodes) /\ manifest[next].id \in 0 .. Len(archive)
    BY <2>2, EntryIssuesAre
  <2>4. diagnostics' \in Seq(Issues(Len(archive))) /\ inspected' \in 0 .. Len(diagnostics')
    BY <1>8, <2>1, <2>3
  <2> QED
    BY <1>7, <2>1, <2>2, <2>4
<1>13. CASE ValidateTotals
  <2>1. /\ phase = "format" /\ phase' = "entries" /\ next' = 1
        /\ Report(TotalIssues, 0) /\ inspected' = inspected /\ UNCHANGED manifest
    BY <1>13 DEF ValidateTotals, Past, TotalIssues
  <2>2. TotalIssues \in Seq(AllCodes) /\ 0 \in 0 .. Len(archive)
    BY <1>3, WholeIssuesAre
  <2>3. next' \in 1 .. Len(archive) + 1
    BY <1>3, <2>1
  <2> QED
    BY <1>7, <1>8, <2>1, <2>2, <2>3
<1>14. CASE ValidateEntry
  <2>1. /\ At("entries", manifest) /\ inspected' = inspected /\ UNCHANGED manifest
        /\ Report(EntryIssues(manifest[next]), manifest[next].id)
    BY <1>14 DEF ValidateEntry, EntryIssues
  <2>2. /\ phase = "entries" /\ phase' = "entries" /\ next' = next + 1
        /\ next + 1 \in 1 .. Len(archive) + 1
        /\ manifest[next] \in Descriptions(archive) /\ manifest[next].id \in 1 .. Len(archive)
    BY <2>1, EntryAt
  <2>3. EntryIssues(manifest[next]) \in Seq(AllCodes) /\ manifest[next].id \in 0 .. Len(archive)
    BY <2>2, EntryIssuesAre
  <2>4. diagnostics' \in Seq(Issues(Len(archive))) /\ inspected' \in 0 .. Len(diagnostics')
    BY <1>8, <2>1, <2>3
  <2> QED
    BY <1>7, <2>1, <2>2, <2>4
<1>15. CASE EndValidation
  <2>1. /\ phase = "entries" /\ phase' = "summarize" /\ next' = 1 /\ diagnostics' = diagnostics
        /\ inspected' = inspected /\ UNCHANGED manifest
    BY <1>15 DEF EndValidation, Past
  <2>2. next' \in 1 .. Len(archive) + 1
    BY <1>3, <2>1
  <2> QED
    BY <1>3, <1>4, <1>7, <2>1, <2>2
<1>16. CASE SummarizeEntry
  <2>1. /\ At("summarize", manifest) /\ inspected' = inspected /\ UNCHANGED manifest
        /\ diagnostics' = diagnostics
    BY <1>16 DEF SummarizeEntry
  <2>2. /\ phase = "summarize" /\ phase' = "summarize" /\ next' = next + 1
        /\ next + 1 \in 1 .. Len(archive) + 1
    BY <2>1, EntryAt
  <2> QED
    BY <1>3, <1>4, <1>7, <2>1, <2>2
<1>17. CASE Compare
  <2>1. /\ phase = "summarize" /\ phase' = "done" /\ next' = 1 /\ diagnostics' = diagnostics
        /\ inspected' = inspected /\ UNCHANGED manifest
    BY <1>17 DEF Compare, Past
  <2>2. next' \in 1 .. Len(archive) + 1
    BY <1>3, <2>1
  <2> QED
    BY <1>3, <1>4, <1>7, <2>1, <2>2
<1>18. CASE Finished
  <2>1. /\ phase = "done" /\ phase' = "done" /\ next' = next /\ diagnostics' = diagnostics
        /\ inspected' = inspected /\ UNCHANGED manifest
    BY <1>18 DEF Finished, vars
  <2> QED
    BY <1>3, <1>4, <1>7, <2>1
<1> QED
  BY <1>9, <1>10, <1>11, <1>12, <1>13, <1>14, <1>15, <1>16, <1>17, <1>18 DEF Next

\* by steps that change nothing,
LEMMA PlaceStutters == PlaceInv /\ UNCHANGED vars => PlaceInv'
<1> SUFFICES ASSUME PlaceInv, UNCHANGED vars PROVE PlaceInv'
  OBVIOUS
<1>1. UNCHANGED input /\ UNCHANGED <<phase, next, manifest, diagnostics, inspected>>
      /\ archive' = archive
  BY DEF vars, input
<1>2. Given'
  BY <1>1, GivenKept DEF PlaceInv
<1>3. Listing(manifest, archive, ListedTo)'
  BY <1>1, NotInspecting DEF ListedTo
<1> QED
  BY <1>1, <1>2, <1>3 DEF PlaceInv

\* and so holds always.
LEMMA PlaceTheorem == Spec => []PlaceInv
<1>1. PlaceInv /\ [Next]_vars => PlaceInv'
  BY PlaceStep, PlaceStutters
<1> QED
  BY PlaceInit, <1>1, PTL DEF Spec

-----------------------------------------------------------------------------
(* Types.                                                                  *)

\* What may be kept about compression,
CompressionType ==
    [compressed : Tally, uncompressed : [count : Nat, original : Size],
     best : 0 .. Len(archive), worst : 0 .. Len(archive)]

\* and in the summary,
StatsType ==
    [all : Tally, compressed : Nat, nested : Nat, max_depth : Nat, changed : Nat,
     largest : Nat, largest_entry : 0 .. Len(archive)]

\* and that it is.
TalliesInv ==
    /\ stats \in StatsType
    /\ compression \in CompressionType
    /\ DOMAIN breakdowns = Breakdowns
    /\ \A b \in Breakdowns : \A g \in DOMAIN breakdowns[b] : breakdowns[b][g] \in Tally

\* Nothing counted is a tally.
LEMMA NoTallyIs == NoTally \in Tally /\ 0 \in Size
<1>1. Word \in Nat \ {0}
  BY ManifestsAssumption
<1> QED
  BY <1>1 DEF NoTally, Tally, Size

\* addSaturating keeps sums sizes.
LEMMA AddSizeIs ==
    ASSUME NEW a \in Nat, NEW b \in Nat
    PROVE  AddSize(a, b) \in Size
<1>1. Word \in Nat \ {0}
  BY ManifestsAssumption
<1>2. \A n \in Nat, w \in Nat \ {0} : n % w \in 0 .. w - 1
  OBVIOUS
<1>3. a + b \in Nat
  OBVIOUS
<1> QED
  BY <1>1, <1>2, <1>3 DEF AddSize, Size

\* An entry added to a tally makes a tally.
LEMMA AddedIs ==
    ASSUME NEW t \in Tally, NEW m, m.packed \in Size, m.original \in Size
    PROVE  Added(t, m) \in Tally
<1>1. t.count \in Nat /\ t.packed \in Nat /\ t.original \in Nat
  BY DEF Tally, Size
<1>2. m.packed \in Nat /\ m.original \in Nat
  BY DEF Size
<1>3. AddSize(t.packed, m.packed) \in Size /\ AddSize(t.original, m.original) \in Size
  BY <1>1, <1>2, AddSizeIs
<1> QED
  BY <1>1, <1>3 DEF Added, Tally

\* TalliesInv holds before anything is summarized,
LEMMA TalliesInit == Init => TalliesInv
<1> SUFFICES ASSUME Init PROVE TalliesInv
  OBVIOUS
<1>1. archive \in Seq(Entry)
  BY GivenTypes DEF Init, Given
<1>2. stats = NoStats /\ compression = NoCompression /\ breakdowns = NoBreakdowns
  BY DEF Init
<1>3. 0 \in 0 .. Len(archive)
  BY <1>1
<1>4. stats \in StatsType
  BY <1>2, <1>3, NoTallyIs DEF NoStats, StatsType
<1>5. compression \in CompressionType
  BY <1>2, <1>3, NoTallyIs DEF NoCompression, CompressionType
<1>6. DOMAIN breakdowns = Breakdowns
      /\ \A b \in Breakdowns : \A g \in DOMAIN breakdowns[b] : breakdowns[b][g] \in Tally
  BY <1>2 DEF NoBreakdowns
<1> QED
  BY <1>4, <1>5, <1>6 DEF TalliesInv

\* a breakdown with one entry more has tallies,
LEMMA TalliesWith ==
    ASSUME NEW groups, \A x \in DOMAIN groups : groups[x] \in Tally, NEW g, NEW m,
           m.packed \in Size, m.original \in Size
    PROVE  \A h \in DOMAIN WithEntry(groups, g, m) : WithEntry(groups, g, m)[h] \in Tally
<1>1. /\ DOMAIN WithEntry(groups, g, m) = DOMAIN groups \cup {g}
      /\ g \in DOMAIN groups => WithEntry(groups, g, m)[g] = Added(groups[g], m)
      /\ g \notin DOMAIN groups => WithEntry(groups, g, m)[g] = Added(NoTally, m)
      /\ \A x \in DOMAIN groups : x # g => WithEntry(groups, g, m)[x] = groups[x]
  BY Zenon DEF WithEntry
<1>3. WithEntry(groups, g, m)[g] \in Tally
  BY <1>1, NoTallyIs, AddedIs
<1> QED
  BY <1>1, <1>3

\* a step that summarizes keeps it,
LEMMA TalliesSummarize ==
    ASSUME PlaceInv, TalliesInv, SummarizeEntry
    PROVE  TalliesInv'
<1> PICK m : m = manifest[next]
  OBVIOUS
<1>1. /\ At("summarize", manifest) /\ stats' = WithStats(stats, m)
      /\ compression' = WithCompression(compression, m)
      /\ breakdowns' = [b \in Breakdowns |-> WithEntry(breakdowns[b], Group(m)[b], m)]
      /\ archive' = archive
  BY DEF SummarizeEntry, input
<1>2. m \in Descriptions(archive)
  BY <1>1, EntryAt
<1>3. /\ m.packed \in Size /\ m.original \in Size /\ m.id \in 1 .. Len(archive)
      /\ m.depth \in Nat /\ m.compressed \in BOOLEAN
  BY <1>2, DescribedEntry
<1>4. m.original \in Nat /\ m.id \in 0 .. Len(archive)
  BY <1>3 DEF Size
<1>5. stats' \in StatsType
  <2>1. stats \in StatsType
    BY DEF TalliesInv
  <2>2. Added(stats.all, m) \in Tally
    BY <1>3, <2>1, AddedIs DEF StatsType
  <2>3. WithStats(stats, m) \in StatsType
    BY <1>3, <1>4, <2>1, <2>2 DEF StatsType, WithStats
  <2> QED
    BY <1>1, <2>3
<1>6. compression' \in CompressionType
  <2>1. compression \in CompressionType
    BY DEF TalliesInv
  <2>2. /\ compression.compressed \in Tally
        /\ compression.uncompressed.count \in Nat /\ compression.uncompressed.original \in Nat
    BY <2>1 DEF CompressionType, Size
  <2>3. Added(compression.compressed, m) \in Tally
    BY <1>3, <2>2, AddedIs
  <2>4. AddSize(compression.uncompressed.original, m.original) \in Size
    BY <1>4, <2>2, AddSizeIs
  <2> DEFINE best == IF compression.best = 0 \/ Below(Ratio(Listed(compression.best)), Ratio(m))
                       THEN m.id ELSE compression.best
             worst == IF compression.worst = 0 \/ Below(Ratio(m), Ratio(Listed(compression.worst)))
                        THEN m.id ELSE compression.worst
  <2>5. best \in 0 .. Len(archive) /\ worst \in 0 .. Len(archive)
    BY <1>4, <2>1 DEF CompressionType
  <2>6. CASE m.compressed
    <3>1. compression' = [compression EXCEPT !.compressed = Added(compression.compressed, m),
                                             !.best = best, !.worst = worst]
      BY <1>1, <2>6 DEF WithCompression
    <3> HIDE DEF best, worst
    <3> QED
      BY <2>1, <2>3, <2>5, <3>1 DEF CompressionType
  <2>7. CASE ~m.compressed
    <3>1. compression' = [compression EXCEPT !.uncompressed =
             [count |-> compression.uncompressed.count + 1,
              original |-> AddSize(compression.uncompressed.original, m.original)]]
      BY <1>1, <2>7 DEF WithCompression
    <3> QED
      BY <2>1, <2>2, <2>4, <3>1 DEF CompressionType
  <2> QED
    BY <2>6, <2>7
<1>7. DOMAIN breakdowns' = Breakdowns
      /\ \A b \in Breakdowns : \A g \in DOMAIN breakdowns'[b] : breakdowns'[b][g] \in Tally
  <2>1. DOMAIN breakdowns' = Breakdowns
    BY <1>1
  <2>2. ASSUME NEW b \in Breakdowns, NEW h \in DOMAIN breakdowns'[b]
        PROVE  breakdowns'[b][h] \in Tally
    <3>1. breakdowns'[b] = WithEntry(breakdowns[b], Group(m)[b], m)
      BY <1>1
    <3>2. \A x \in DOMAIN breakdowns[b] : breakdowns[b][x] \in Tally
      BY DEF TalliesInv
    <3>3. \A x \in DOMAIN WithEntry(breakdowns[b], Group(m)[b], m) :
             WithEntry(breakdowns[b], Group(m)[b], m)[x] \in Tally
      BY <1>3, <3>2, TalliesWith
    <3> QED
      BY <3>1, <3>3
  <2> QED
    BY <2>1, <2>2
<1> QED
  BY <1>1, <1>5, <1>6, <1>7 DEF TalliesInv, StatsType, CompressionType

\* and so does every step.
LEMMA TalliesStep == PlaceInv /\ TalliesInv /\ [Next]_vars => TalliesInv'
<1> SUFFICES ASSUME PlaceInv, TalliesInv, [Next]_vars PROVE TalliesInv'
  OBVIOUS
<1>1. ASSUME UNCHANGED <<archive, stats, compression, breakdowns>>
      PROVE  TalliesInv'
  BY <1>1 DEF TalliesInv, StatsType, CompressionType
<1>2. CASE SummarizeEntry
  BY <1>2, TalliesSummarize
<1>3. CASE UNCHANGED vars
  BY <1>1, <1>3 DEF vars
<1>4. CASE InspectEntry \/ EndInspection \/ CheckHeader \/ CheckFormat \/ ValidateTotals
           \/ ValidateEntry \/ EndValidation \/ Compare
  BY <1>1, <1>4 DEF InspectEntry, EndInspection, CheckHeader, CheckFormat, ValidateTotals,
                    ValidateEntry, EndValidation, Compare, input, summaries
<1>5. CASE Finished
  BY <1>1, <1>5 DEF Finished, vars
<1> QED
  BY <1>2, <1>3, <1>4, <1>5 DEF Next

\* The types of all variables follow.
LEMMA TypesFollow == PlaceInv /\ TalliesInv => TypeInvariant
<1> SUFFICES ASSUME PlaceInv, TalliesInv PROVE TypeInvariant
  OBVIOUS
<1>1. /\ phase \in {"inspect", "header", "format", "entries", "summarize", "done"}
      /\ next \in 1 .. Len(archive) + 1 /\ inspected \in 0 .. Len(diagnostics)
  BY DEF PlaceInv
<1>2. \A k \in DOMAIN manifest : /\ manifest[k].id \in k .. Len(archive)
                                 /\ manifest[k].depth \in 0 .. options.max_depth
  BY GivenPlaces
<1>3. \A i \in DOMAIN diagnostics : diagnostics[i].entry \in 0 .. Len(archive)
  <2>1. diagnostics \in Seq(Issues(Len(archive)))
    BY GivenPlaces
  <2>2. \A i \in DOMAIN diagnostics : diagnostics[i] \in Issues(Len(archive))
    BY <2>1
  <2> QED
    BY <2>2 DEF Issues
<1>4. /\ stats.all \in Tally /\ compression.compressed \in Tally
      /\ compression.uncompressed.original \in Size
      /\ \A b \in Breakdowns : \A g \in DOMAIN breakdowns[b] : breakdowns[b][g] \in Tally
  BY DEF TalliesInv, StatsType, CompressionType
<1> QED
  BY <1>1, <1>2, <1>3, <1>4 DEF TypeInvariant

\* The variables of the analysis (lib.cc, manifest.cc, archive_stats.cc) have
\* their types, whatever is analysed.
THEOREM ManifestTypesTheorem == Spec => []TypeInvariant
<1>1. Init => PlaceInv /\ TalliesInv
  BY PlaceInit, TalliesInit
<1>2. PlaceInv /\ TalliesInv /\ [Next]_vars => (PlaceInv /\ TalliesInv)'
  BY PlaceStep, PlaceStutters, TalliesStep
<1> QED
  BY <1>1, <1>2, TypesFollow, PTL DEF Spec

-----------------------------------------------------------------------------
(* Verdicts.                                                               *)

\* What list has against an entry, and what verify has against it besides.
FaultAt(e, depth) == ~Decodes(e) \/ (Recurses(e) /\ ~Opened(e, depth))
\* The same of what is listed,
Fault(m) == FaultAt(archive[m.id], m.depth)
\* and of all of it.
Faulty == \E m \in ToSet(manifest) : Fault(m)
\* Of the entries before place k one lies deeper than the format rules allow.
DeepBefore(k) == \E i \in 1 .. Len(manifest) : i < k /\ manifest[i].depth > FormatDepth

\* No issue about a name that is not empty is an error.
LEMMA NoErrorOfNames ==
    ASSUME NEW p, NEW n \in Name, n # EmptyName, NEW x, NameIssueOf(x, p, n)
    PROVE  x \notin ErrorCodes
<1>1. x \in ToSet(PathIssues(p, n))
  BY PathIssuesAre
<1>2. ToSet(PathIssues(p, n)) \cap ErrorCodes = {}
  BY PathIssuesNoErrors
<1> QED
  BY <1>1, <1>2

\* Inspection reports an error of an entry if and only if there is a fault in it.
LEMMA InspectionErrors ==
    ASSUME NEW e \in Entry, NEW depth \in Nat, options \in Options
    PROVE  (\E c \in ToSet(InspectionIssues(e, depth)) : c \in ErrorCodes) <=> FaultAt(e, depth)
<1>1. e.name \in Name /\ e.name # EmptyName
  BY DEF Entry
<1>2. \A x : x \in ToSet(InspectionIssues(e, depth)) <=>
         \/ NameIssueOf(x, DefaultPolicy, e.name)
         \/ x = "chunk.layout" /\ ~Readable(e)
         \/ x = "chunk.decode" /\ Readable(e) /\ ~Decodes(e)
         \/ x = "nesting.depth_limit" /\ Recurses(e) /\ depth >= options.max_depth
         \/ x = "header.parse" /\ Recurses(e) /\ depth < options.max_depth
                               /\ e.content # "archive"
  BY InspectionIssuesAre
<1>3. \A x : NameIssueOf(x, DefaultPolicy, e.name) => x \notin ErrorCodes
  BY <1>1, NoErrorOfNames
<1>4. /\ "chunk.layout" \in ErrorCodes /\ "chunk.decode" \in ErrorCodes
      /\ "nesting.depth_limit" \in ErrorCodes /\ "header.parse" \in ErrorCodes
  BY DEF ErrorCodes
<1>5. Decodes(e) => Readable(e)
  BY DEF Decodes
<1>6. options.max_depth \in Nat
  BY DEF Options
<1>7. ~(depth < options.max_depth) <=> depth >= options.max_depth
  BY <1>6
<1>8. FaultAt(e, depth) <=> \/ ~Readable(e)
                            \/ Readable(e) /\ ~Decodes(e)
                            \/ Recurses(e) /\ depth >= options.max_depth
                            \/ Recurses(e) /\ depth < options.max_depth /\ e.content # "archive"
  BY <1>5, <1>7, Zenon DEF FaultAt, Opened
<1> QED
  BY <1>2, <1>3, <1>4, <1>8

\* The format rules report an error only of depth.
LEMMA FormatErrors ==
    ASSUME PlaceInv, NEW m \in Descriptions(archive)
    PROVE  (\E c \in ToSet(FormatIssues(m)) : c \in ErrorCodes) <=> m.depth > FormatDepth
<1>1. m.name \in Name /\ m.name # EmptyName /\ m.readable \in BOOLEAN
  BY DescribedEntry
<1>2. \A x : x \in ToSet(FormatIssues(m)) <=>
         \/ x = "format.unknown_flags" /\ HasUnknownFlags(m.flags)
         \/ NameClass(m.name) \in DOMAIN NameRule /\ x = NameRule[NameClass(m.name)]
         \/ x = "format.packed_size" /\ m.packed > MaxChunkSize
         \/ x = "format.payload_size" /\ m.readable /\ m.payload # m.packed
         \/ x = "format.nested_depth" /\ m.depth > FormatDepth
  BY <1>1, FormatIssuesAre
<1>3. ~(m.readable /\ m.payload # m.packed)
  <2>1. /\ m.readable = Readable(archive[m.id]) /\ m.packed = archive[m.id].packed
        /\ m.payload = (IF Readable(archive[m.id]) THEN archive[m.id].length ELSE 0)
    BY DescribedEntry
  <2> QED
    BY <2>1, Zenon DEF Readable
<1>4. NameClass(m.name) # "empty"
  BY <1>1, NameClassIs
<1>5. NameClass(m.name) \in DOMAIN NameRule => NameRule[NameClass(m.name)] \notin ErrorCodes
  BY <1>4 DEF NameRule, ErrorCodes
<1>6. "format.unknown_flags" \notin ErrorCodes /\ "format.packed_size" \notin ErrorCodes
      /\ "format.nested_depth" \in ErrorCodes
  BY DEF ErrorCodes
<1> QED
  BY <1>2, <1>3, <1>5, <1>6

\* Validation reports no error of an entry that inspection has not reported.
LEMMA EntryErrors ==
    ASSUME PlaceInv, NEW m \in Descriptions(archive),
           NEW c \in ToSet(EntryIssues(m)), c \in ErrorCodes
    PROVE  Fault(m)
<1>1. /\ m.name \in Name /\ m.name # EmptyName /\ m.readable \in BOOLEAN
      /\ m.compressed \in BOOLEAN /\ options \in Options
      /\ m.readable = Readable(archive[m.id]) /\ m.packed = archive[m.id].packed
      /\ m.payload = (IF Readable(archive[m.id]) THEN archive[m.id].length ELSE 0)
  BY DescribedEntry, GivenPlaces
<1>2. c \in ToSet(PolicyIssues(m)) => FALSE
  <2>1. c \in ToSet(PolicyIssues(m)) <=>
           \/ NameIssueOf(c, options.policy, m.name)
           \/ /\ c = "path.not_canonical" /\ options.canonical
              /\ Normalized(options.policy, m.name) # m.name
    BY <1>1, PolicyIssuesAre
  <2>2. NameIssueOf(c, options.policy, m.name) => c \notin ErrorCodes
    BY <1>1, NoErrorOfNames
  <2>3. "path.not_canonical" \notin ErrorCodes
    BY DEF ErrorCodes
  <2> QED
    BY <2>1, <2>2, <2>3
<1>3. c \in ToSet(LayoutIssues(m)) => ~m.readable
  <2>1. c \in ToSet(LayoutIssues(m)) <=>
           \/ c = "chunk.unreadable" /\ ~m.readable
           \/ c = "chunk.large_entry" /\ m.readable /\ m.original > MaxEntrySize
           \/ c = "chunk.empty_entry" /\ m.readable /\ options.empties /\ m.original = 0
           \/ c = "chunk.size_mismatch" /\ m.readable /\ m.payload # m.packed
    BY <1>1, LayoutIssuesAre
  <2>2. "chunk.large_entry" \notin ErrorCodes /\ "chunk.empty_entry" \notin ErrorCodes
    BY DEF ErrorCodes
  <2>3. m.readable => m.payload = m.packed
    BY <1>1, Zenon DEF Readable
  <2> QED
    BY <2>1, <2>2, <2>3
<1>4. c \in ToSet(CompressionIssues(m)) => FALSE
  <2>1. c \in ToSet(CompressionIssues(m)) =>
           c \in {"compression.zero_packed", "compression.high_ratio", "compression.expansion",
                  "compression.no_savings"} \cup TypeCode
    BY <1>1, CompressionIssuesAre
  <2> QED
    BY <2>1 DEF ErrorCodes, TypeCode
<1>5. c \in ToSet(FlagIssues(m)) => FALSE
  <2>1. c \in ToSet(FlagIssues(m)) => c \in {"index.unknown_flags", "chunk.flag_disagreement"}
    BY <1>1, FlagIssuesAre
  <2> QED
    BY <2>1 DEF ErrorCodes
<1>6. ~m.readable
  BY <1>2, <1>3, <1>4, <1>5, EntryIssuesAre
<1> QED
  BY <1>1, <1>6 DEF Fault, FaultAt, Decodes

\* Of the archive as a whole errors are: it does not open, its extension is
\* not sound, entries overlap.
LEMMA WholeErrors ==
    ASSUME PlaceInv
    PROVE  /\ (\E c \in ToSet(InspectionEnd) : c \in ErrorCodes) <=> ~(whole.opens /\ whole.sound)
           /\ ~\E c \in ToSet(HeaderIssues) : c \in ErrorCodes
           /\ (\E c \in ToSet(TotalIssues) : c \in ErrorCodes) <=> whole.opens /\ whole.overlap
<1>1. "header.parse" \in ErrorCodes /\ "extension" \in ErrorCodes /\ "layout.overlap" \in ErrorCodes
  BY DEF ErrorCodes
<1>2. (\E c \in ToSet(InspectionEnd) : c \in ErrorCodes) <=> ~(whole.opens /\ whole.sound)
  BY <1>1, WholeIssuesAre
<1>3. ~\E c \in ToSet(HeaderIssues) : c \in ErrorCodes
  BY WholeIssuesAre DEF ErrorCodes
<1>4. "archive.large" \notin ErrorCodes /\ "index.empty" \notin ErrorCodes
  BY DEF ErrorCodes
<1>5. (\E c \in ToSet(TotalIssues) : c \in ErrorCodes) <=> whole.opens /\ whole.overlap
  BY <1>1, <1>4, WholeIssuesAre
<1> QED
  BY <1>2, <1>3, <1>5

\* What errors there are when the program is where it is, and why.
VerdictInv ==
    /\ phase = "header" => next = 1
    /\ phase = "inspect" => (HasErrors(diagnostics) <=> Faulty)
    /\ phase # "inspect" => (ListSucceeds <=> whole.opens /\ whole.sound /\ ~Faulty)
    /\ phase = "header" => (HasErrors(diagnostics) <=> ~ListSucceeds)
    /\ phase = "format" => (HasErrors(diagnostics) <=> ~ListSucceeds \/ DeepBefore(next))
    /\ phase \in {"entries", "summarize", "done"} =>
          (HasErrors(diagnostics) <=>
             ~ListSucceeds \/ DeepBefore(Len(manifest) + 1) \/ (whole.opens /\ whole.overlap))

\* A fault stays one.
LEMMA FaultKept ==
    ASSUME UNCHANGED input
    PROVE  \A m : Fault(m)' <=> Fault(m)
<1>1. options' = options /\ archive' = archive
  BY DEF input
<1> QED
  BY <1>1, Zenon DEF Fault, FaultAt, Opened

\* So do those of the list while the list stays.
LEMMA FaultyKept ==
    ASSUME UNCHANGED input, UNCHANGED manifest
    PROVE  /\ Faulty' <=> Faulty
           /\ \A k : DeepBefore(k)' <=> DeepBefore(k)
<1>1. \A m : Fault(m)' <=> Fault(m)
  BY FaultKept
<1> QED
  BY <1>1, Zenon DEF Faulty, DeepBefore

\* What inspection reported stays.
LEMMA InspectedKept ==
    ASSUME PlaceInv, NEW codes \in Seq(AllCodes), NEW id \in 0 .. Len(archive),
           Report(codes, id), inspected' = inspected
    PROVE  /\ ListSucceeds' <=> ListSucceeds
           /\ InspectionDiagnostics' = InspectionDiagnostics
           /\ HasErrors(diagnostics') <=>
                 HasErrors(diagnostics) \/ \E c \in ToSet(codes) : c \in ErrorCodes
<1>1. inspected \in 0 .. Len(diagnostics)
  BY DEF PlaceInv
<1>2. SubSeq(diagnostics', 1, inspected) = SubSeq(diagnostics, 1, inspected)
  BY <1>1, ReportStep
<1>3. InspectionDiagnostics' = InspectionDiagnostics
  BY <1>2 DEF InspectionDiagnostics
<1>4. ListSucceeds' <=> ListSucceeds
  BY <1>3 DEF ListSucceeds
<1> QED
  BY <1>3, <1>4, ReportStep

\* One entry more.
LEMMA DeepNext ==
    ASSUME PlaceInv, NEW p, At(p, manifest)
    PROVE  DeepBefore(next + 1) <=> DeepBefore(next) \/ manifest[next].depth > FormatDepth
<1>1. next \in 1 .. Len(manifest) /\ Len(manifest) \in Nat
  BY EntryAt, GivenPlaces
<1>2. \A i \in 1 .. Len(manifest) : i < next + 1 <=> i < next \/ i = next
  BY <1>1
<1> QED
  BY <1>1, <1>2 DEF DeepBefore

\* All entries.
LEMMA DeepAll ==
    ASSUME PlaceInv, next > Len(manifest)
    PROVE  DeepBefore(Len(manifest) + 1) <=> DeepBefore(next)
<1>1. next \in Nat /\ Len(manifest) \in Nat
  BY GivenPlaces DEF PlaceInv
<1>2. \A i \in 1 .. Len(manifest) : i < next /\ i < Len(manifest) + 1
  BY <1>1
<1> QED
  BY <1>2 DEF DeepBefore

\* VerdictInv holds when nothing has been inspected,
LEMMA VerdictInit == Init => VerdictInv
<1> SUFFICES ASSUME Init PROVE VerdictInv
  OBVIOUS
<1>1. phase = "inspect" /\ manifest = <<>> /\ diagnostics = <<>>
  BY DEF Init
<1>2. ~HasErrors(diagnostics)
  BY <1>1 DEF HasErrors
<1>3. ~Faulty
  BY <1>1 DEF Faulty, ToSet
<1> QED
  BY <1>1, <1>2, <1>3 DEF VerdictInv

\* is kept by the inspection of an entry,
LEMMA VerdictInspect ==
    ASSUME PlaceInv, VerdictInv, InspectEntry, UNCHANGED input
    PROVE  VerdictInv'
<1>1. /\ phase = "inspect" /\ phase' = "inspect" /\ next \in 1 .. Len(archive)
      /\ archive[next] \in Entry
      /\ \/ manifest' = manifest /\ diagnostics' = diagnostics
         \/ \E d \in 0 .. options.max_depth :
               /\ manifest' = Append(manifest, Described(next, archive[next], d))
               /\ InspectionIssues(archive[next], d) \in Seq(AllCodes)
               /\ Report(InspectionIssues(archive[next], d), next)
  BY InspectEntryDoes
<1>2. HasErrors(diagnostics) <=> Faulty
  BY <1>1 DEF VerdictInv
<1>3. CASE manifest' = manifest /\ diagnostics' = diagnostics
  <2>1. Faulty' <=> Faulty
    BY <1>3, FaultyKept
  <2>2. HasErrors(diagnostics') <=> HasErrors(diagnostics)
    BY <1>3
  <2> QED
    BY <1>1, <1>2, <2>1, <2>2 DEF VerdictInv
<1>4. ASSUME NEW d \in 0 .. options.max_depth,
             manifest' = Append(manifest, Described(next, archive[next], d)),
             InspectionIssues(archive[next], d) \in Seq(AllCodes),
             Report(InspectionIssues(archive[next], d), next)
      PROVE  VerdictInv'
  <2> PICK m \in Descriptions(archive) :
         m = Described(next, archive[next], d) /\ m.id = next /\ m.depth = d
    BY <1>1, DescribedIsDescription
  <2>1. ToSet(manifest') = ToSet(manifest) \cup {m}
    BY <1>4, GivenPlaces, MembersWith
  <2>2. options \in Options /\ d \in Nat /\ next \in 0 .. Len(archive)
    BY <1>1, GivenPlaces
  <2>3. HasErrors(diagnostics') <=>
          HasErrors(diagnostics)
          \/ \E c \in ToSet(InspectionIssues(archive[next], d)) : c \in ErrorCodes
    BY <1>4, <2>2, ReportStep
  <2>4. (\E c \in ToSet(InspectionIssues(archive[next], d)) : c \in ErrorCodes)
          <=> FaultAt(archive[next], d)
    BY <1>1, <2>2, InspectionErrors
  <2>5. Fault(m) <=> FaultAt(archive[next], d)
    BY DEF Fault
  <2>6. Faulty' <=> Faulty \/ Fault(m)
    <3>1. \A x : Fault(x)' <=> Fault(x)
      BY FaultKept
    <3>2. Faulty' <=> \E x \in ToSet(manifest') : Fault(x)'
      BY DEF Faulty
    <3> QED
      BY <2>1, <3>1, <3>2 DEF Faulty
  <2> QED
    BY <1>1, <1>2, <2>3, <2>4, <2>5, <2>6 DEF VerdictInv
<1> QED
  BY <1>1, <1>3, <1>4

\* by every step,
LEMMA VerdictStep == PlaceInv /\ VerdictInv /\ Next => VerdictInv'
<1> SUFFICES ASSUME PlaceInv, VerdictInv, Next PROVE VerdictInv'
  OBVIOUS
<1>1. UNCHANGED input /\ whole' = whole
  BY NextKeepsInput DEF input
<1>2. 0 \in 0 .. Len(archive)
  BY GivenPlaces
<1>3. CASE InspectEntry
  BY <1>1, <1>3, VerdictInspect
<1>4. ASSUME UNCHANGED manifest
      PROVE  /\ Faulty' <=> Faulty
             /\ \A k : DeepBefore(k)' <=> DeepBefore(k)
  BY <1>1, <1>4, FaultyKept
<1>5. CASE EndInspection
  <2>1. /\ phase = "inspect" /\ phase' = "header" /\ next' = 1 /\ UNCHANGED manifest
        /\ Report(InspectionEnd, 0) /\ inspected' = Len(diagnostics')
    BY <1>5 DEF EndInspection, Past, InspectionEnd
  <2>2. /\ diagnostics' \in Seq(Issues(Len(archive)))
        /\ HasErrors(diagnostics') <=>
              HasErrors(diagnostics) \/ \E c \in ToSet(InspectionEnd) : c \in ErrorCodes
    BY <1>2, <2>1, WholeIssuesAre, ReportStep
  <2>3. HasErrors(diagnostics') <=> Faulty \/ ~(whole.opens /\ whole.sound)
    BY <2>1, <2>2, WholeErrors DEF VerdictInv
  <2>4. SubSeq(diagnostics', 1, Len(diagnostics')) = diagnostics'
    BY <2>2
  <2>5. ListSucceeds' <=> ~HasErrors(diagnostics')
    BY <2>1, <2>4 DEF ListSucceeds, InspectionDiagnostics
  <2> QED
    BY <1>1, <1>4, <2>1, <2>3, <2>5 DEF VerdictInv
<1>6. CASE CheckHeader
  <2>1. /\ phase = "header" /\ phase' = "format" /\ next' = next
        /\ Report(HeaderIssues, 0) /\ inspected' = inspected /\ UNCHANGED manifest
    BY <1>6 DEF CheckHeader, HeaderIssues
  <2>2. /\ ListSucceeds' <=> ListSucceeds
        /\ HasErrors(diagnostics') <=>
              HasErrors(diagnostics) \/ \E c \in ToSet(HeaderIssues) : c \in ErrorCodes
    BY <1>2, <2>1, WholeIssuesAre, InspectedKept
  <2>3. HasErrors(diagnostics') <=> HasErrors(diagnostics)
    BY <2>2, WholeErrors
  <2>4. next = 1 /\ (HasErrors(diagnostics) <=> ~ListSucceeds)
        /\ (ListSucceeds <=> whole.opens /\ whole.sound /\ ~Faulty)
    BY <2>1 DEF VerdictInv
  <2>5. ~DeepBefore(next)'
    <3>1. \A i \in 1 .. Len(manifest) : ~(i < 1)
      OBVIOUS
    <3> QED
      BY <2>1, <2>4, <3>1 DEF DeepBefore
  <2> QED
    BY <1>1, <1>4, <2>1, <2>2, <2>3, <2>4, <2>5 DEF VerdictInv
<1>7. CASE CheckFormat
  <2>1. /\ At("format", manifest) /\ inspected' = inspected /\ UNCHANGED manifest
        /\ Report(FormatIssues(manifest[next]), manifest[next].id)
    BY <1>7 DEF CheckFormat
  <2>2. /\ phase = "format" /\ phase' = "format" /\ next' = next + 1
        /\ manifest[next] \in Descriptions(archive) /\ manifest[next].id \in 0 .. Len(archive)
    BY <2>1, EntryAt
  <2>3. FormatIssues(manifest[next]) \in Seq(AllCodes)
    BY <2>2, EntryIssuesAre
  <2>4. /\ ListSucceeds' <=> ListSucceeds
        /\ HasErrors(diagnostics') <=>
              HasErrors(diagnostics)
              \/ \E c \in ToSet(FormatIssues(manifest[next])) : c \in ErrorCodes
    BY <2>1, <2>2, <2>3, InspectedKept
  <2>5. (\E c \in ToSet(FormatIssues(manifest[next])) : c \in ErrorCodes)
          <=> manifest[next].depth > FormatDepth
    BY <2>2, FormatErrors
  <2>6. DeepBefore(next + 1) <=> DeepBefore(next) \/ manifest[next].depth > FormatDepth
    BY <2>1, DeepNext
  <2>7. DeepBefore(next)' <=> DeepBefore(next + 1)
    BY <2>1, <2>2 DEF DeepBefore
  <2>8. (HasErrors(diagnostics) <=> ~ListSucceeds \/ DeepBefore(next))
        /\ (ListSucceeds <=> whole.opens /\ whole.sound /\ ~Faulty)
    BY <2>2 DEF VerdictInv
  <2> QED
    BY <1>1, <1>4, <2>1, <2>2, <2>4, <2>5, <2>6, <2>7, <2>8 DEF VerdictInv
<1>8. CASE ValidateTotals
  <2>1. /\ phase = "format" /\ phase' = "entries" /\ next > Len(manifest)
        /\ Report(TotalIssues, 0) /\ inspected' = inspected /\ UNCHANGED manifest
    BY <1>8 DEF ValidateTotals, Past, TotalIssues
  <2>2. /\ ListSucceeds' <=> ListSucceeds
        /\ HasErrors(diagnostics') <=>
              HasErrors(diagnostics) \/ \E c \in ToSet(TotalIssues) : c \in ErrorCodes
    BY <1>2, <2>1, WholeIssuesAre, InspectedKept
  <2>3. HasErrors(diagnostics') <=> HasErrors(diagnostics) \/ (whole.opens /\ whole.overlap)
    BY <2>2, WholeErrors
  <2>4. DeepBefore(Len(manifest) + 1) <=> DeepBefore(next)
    BY <2>1, DeepAll
  <2>5. DeepBefore(Len(manifest) + 1)' <=> DeepBefore(Len(manifest) + 1)
    BY <2>1 DEF DeepBefore
  <2>6. (HasErrors(diagnostics) <=> ~ListSucceeds \/ DeepBefore(next))
        /\ (ListSucceeds <=> whole.opens /\ whole.sound /\ ~Faulty)
    BY <2>1 DEF VerdictInv
  <2> QED
    BY <1>1, <1>4, <2>1, <2>2, <2>3, <2>4, <2>5, <2>6 DEF VerdictInv
<1>9. ASSUME phase \in {"entries", "summarize", "done"}, phase' \in {"entries", "summarize", "done"},
             UNCHANGED manifest, ListSucceeds' <=> ListSucceeds,
             HasErrors(diagnostics') <=> HasErrors(diagnostics)
      PROVE  VerdictInv'
  <2>1. DeepBefore(Len(manifest) + 1)' <=> DeepBefore(Len(manifest) + 1)
    BY <1>9 DEF DeepBefore
  <2>2. /\ HasErrors(diagnostics) <=>
             ~ListSucceeds \/ DeepBefore(Len(manifest) + 1) \/ (whole.opens /\ whole.overlap)
        /\ ListSucceeds <=> whole.opens /\ whole.sound /\ ~Faulty
    BY <1>9 DEF VerdictInv
  <2> QED
    BY <1>1, <1>4, <1>9, <2>1, <2>2 DEF VerdictInv
<1>10. CASE ValidateEntry
  <2>1. /\ At("entries", manifest) /\ inspected' = inspected /\ UNCHANGED manifest
        /\ Report(EntryIssues(manifest[next]), manifest[next].id)
    BY <1>10 DEF ValidateEntry, EntryIssues
  <2>2. /\ phase = "entries" /\ phase' = "entries" /\ next \in 1 .. Len(manifest)
        /\ manifest[next] \in Descriptions(archive) /\ manifest[next].id \in 0 .. Len(archive)
    BY <2>1, EntryAt
  <2>3. EntryIssues(manifest[next]) \in Seq(AllCodes)
    BY <2>2, EntryIssuesAre
  <2>4. /\ ListSucceeds' <=> ListSucceeds
        /\ HasErrors(diagnostics') <=>
              HasErrors(diagnostics)
              \/ \E c \in ToSet(EntryIssues(manifest[next])) : c \in ErrorCodes
    BY <2>1, <2>2, <2>3, InspectedKept
  <2>5. ASSUME NEW c \in ToSet(EntryIssues(manifest[next])), c \in ErrorCodes
        PROVE  HasErrors(diagnostics)
    <3>1. Fault(manifest[next])
      BY <2>2, <2>5, EntryErrors
    <3>2. Faulty
      BY <2>2, <3>1, GivenPlaces DEF Faulty
    <3>3. ~ListSucceeds
      BY <2>2, <3>2 DEF VerdictInv
    <3> QED
      BY <2>2, <3>3 DEF VerdictInv
  <2> QED
    BY <1>9, <2>1, <2>2, <2>4, <2>5
<1>11. CASE EndValidation
  <2>1. /\ phase = "entries" /\ phase' = "summarize" /\ diagnostics' = diagnostics
        /\ inspected' = inspected /\ UNCHANGED manifest
    BY <1>11 DEF EndValidation, Past
  <2> QED
    BY <1>9, <2>1 DEF ListSucceeds, InspectionDiagnostics
<1>12. CASE SummarizeEntry
  <2>1. /\ phase = "summarize" /\ phase' = "summarize" /\ diagnostics' = diagnostics
        /\ inspected' = inspected /\ UNCHANGED manifest
    BY <1>12 DEF SummarizeEntry, At
  <2> QED
    BY <1>9, <2>1 DEF ListSucceeds, InspectionDiagnostics
<1>13. CASE Compare
  <2>1. /\ phase = "summarize" /\ phase' = "done" /\ diagnostics' = diagnostics
        /\ inspected' = inspected /\ UNCHANGED manifest
    BY <1>13 DEF Compare, Past
  <2> QED
    BY <1>9, <2>1 DEF ListSucceeds, InspectionDiagnostics
<1>14. CASE Finished
  <2>1. /\ phase = "done" /\ phase' = "done" /\ diagnostics' = diagnostics
        /\ inspected' = inspected /\ UNCHANGED manifest
    BY <1>14 DEF Finished, vars
  <2> QED
    BY <1>9, <2>1 DEF ListSucceeds, InspectionDiagnostics
<1> QED
  BY <1>3, <1>5, <1>6, <1>7, <1>8, <1>10, <1>11, <1>12, <1>13, <1>14 DEF Next

\* and by steps that change nothing.
LEMMA VerdictStutters == VerdictInv /\ UNCHANGED vars => VerdictInv'
<1> SUFFICES ASSUME VerdictInv, UNCHANGED vars PROVE VerdictInv'
  OBVIOUS
<1>1. /\ UNCHANGED input
      /\ UNCHANGED <<archive, whole, options, phase, next, manifest, diagnostics, inspected>>
  BY DEF vars, input
<1>2. (Faulty' <=> Faulty) /\ \A k : DeepBefore(k)' <=> DeepBefore(k)
  BY <1>1, FaultyKept
<1>3. (DeepBefore(next)' <=> DeepBefore(next))
      /\ (DeepBefore(Len(manifest) + 1)' <=> DeepBefore(Len(manifest) + 1))
  BY <1>1, <1>2 DEF DeepBefore
<1>4. ListSucceeds' <=> ListSucceeds
  BY <1>1 DEF ListSucceeds, InspectionDiagnostics
<1> QED
  BY <1>1, <1>2, <1>3, <1>4 DEF VerdictInv

\* The limit on depth is a number.
LEMMA DepthLimits == FormatDepth \in Nat
  BY ManifestsAssumption

\* An entry that looks like an archive is not empty, if it can be read at all.
LEMMA NestedHasBytes ==
    ASSUME PlaceInv, NEW i \in 1 .. Len(archive), Decodes(archive[i]),
           archive[i].content # "plain"
    PROVE  archive[i].original # 0 /\ IsNested(archive[i]) /\ Recurses(archive[i])
<1>1. Unpacked(archive[i]) # 0
  BY GivenPlaces, EntryOf
<1>2. archive[i].original = Unpacked(archive[i])
  BY DEF Decodes
<1> QED
  BY <1>1, <1>2 DEF IsNested, LooksNested, Recurses

\* If nothing is at fault, everything is listed.
LEMMA AllListed ==
    ASSUME PlaceInv, phase # "inspect", ~Faulty
    PROVE  \A n \in 1 .. Len(archive) : \E i \in 1 .. Len(manifest) : manifest[i].id = n
<1> DEFINE S == {n \in Nat : n \in 1 .. Len(archive) =>
                    \E i \in 1 .. Len(manifest) : manifest[i].id = n}
<1>1. archive \in Seq(Entry) /\ WellFormed(archive)
  BY GivenPlaces
<1>2. \A id \in 1 .. Len(archive) :
         (\/ archive[id].owner = 0
          \/ \E j \in 1 .. Len(manifest) : Encloses(manifest, archive[id], j))
         => \E i \in 1 .. Len(manifest) : manifest[i].id = id
  <2>1. Listing(manifest, archive, ListedTo) /\ ListedTo = Len(archive) + 1
    BY DEF PlaceInv, ListedTo
  <2>2. \A id \in 1 .. Len(archive) : id < Len(archive) + 1
    BY <1>1
  <2> QED
    BY <2>1, <2>2 DEF Listing
<1>3. ASSUME NEW n \in Nat, \A k \in 0 .. n - 1 : k \in S
      PROVE  n \in S
  <2> SUFFICES ASSUME n \in 1 .. Len(archive)
               PROVE  \E i \in 1 .. Len(manifest) : manifest[i].id = n
    OBVIOUS
  <2>1. CASE archive[n].owner = 0
    BY <1>2, <2>1
  <2>2. CASE archive[n].owner # 0
    <3> PICK o : o = archive[n].owner
      OBVIOUS
    <3>1. /\ o \in 1 .. Len(archive) /\ o \in 0 .. n - 1 /\ archive[o].content = "archive"
      BY <1>1, <2>2, EntryOf
    <3>2. PICK j \in 1 .. Len(manifest) : manifest[j].id = o
      BY <1>3, <3>1
    <3>3. manifest[j] \in ToSet(manifest) /\ manifest[j] \in Descriptions(archive)
      BY GivenPlaces
    <3>4. ~Fault(manifest[j])
      BY <3>3 DEF Faulty
    <3>5. Decodes(archive[o]) /\ (Recurses(archive[o]) => Opened(archive[o], manifest[j].depth))
      BY <3>2, <3>4 DEF Fault, FaultAt
    <3>6. Recurses(archive[o])
      BY <3>1, <3>5, NestedHasBytes
    <3>7. manifest[j].opened = Opened(archive[o], manifest[j].depth)
      BY <3>2, <3>3, DescribedEntry
    <3>8. Encloses(manifest, archive[n], j)
      BY <3>2, <3>5, <3>6, <3>7 DEF Encloses
    <3> QED
      BY <1>2, <3>8
  <2> QED
    BY <2>1, <2>2
<1>4. \A n \in Nat : n \in S
  <2> HIDE DEF S
  <2> QED
    BY <1>3, NumbersInFromSmaller
<1> QED
  BY <1>4

\* VerdictInv is all that VerdictExact needs.
LEMMA VerdictFollows == PlaceInv /\ VerdictInv => VerdictExact
<1> SUFFICES ASSUME PlaceInv, VerdictInv, Validated PROVE VerdictExact
  BY DEF VerdictExact
<1> DEFINE shallow == \A m \in ToSet(manifest) : m.depth <= FormatDepth
<1>1. /\ phase # "inspect" /\ phase \in {"entries", "summarize", "done"}
      /\ ListSucceeds <=> whole.opens /\ whole.sound /\ ~Faulty
      /\ HasErrors(diagnostics) <=>
           ~ListSucceeds \/ DeepBefore(Len(manifest) + 1) \/ (whole.opens /\ whole.overlap)
  BY DEF VerdictInv, Validated
<1>2. shallow <=> ~DeepBefore(Len(manifest) + 1)
  <2>1. /\ ToSet(manifest) = {manifest[i] : i \in 1 .. Len(manifest)} /\ Len(manifest) \in Nat
        /\ \A i \in 1 .. Len(manifest) : manifest[i].depth \in Nat
        /\ FormatDepth \in Nat
    BY GivenPlaces, DepthLimits
  <2>2. \A i \in 1 .. Len(manifest) : i < Len(manifest) + 1
    BY <2>1
  <2>3. \A i \in 1 .. Len(manifest) :
           manifest[i].depth <= FormatDepth <=> ~(manifest[i].depth > FormatDepth)
    BY <2>1
  <2> QED
    BY <2>1, <2>2, <2>3 DEF DeepBefore
<1>3. ~Faulty <=> \A m \in ToSet(manifest) :
                     Decodes(archive[m.id]) /\ (Recurses(archive[m.id]) => m.opened)
  <2>1. \A m \in ToSet(manifest) : m.opened = Opened(archive[m.id], m.depth)
    BY GivenPlaces, DescribedEntry
  <2> QED
    BY <2>1, Zenon DEF Faulty, Fault, FaultAt
<1>4. ListSucceeds => {m.id : m \in ToSet(manifest)} = DOMAIN archive
  <2>1. DOMAIN archive = 1 .. Len(archive) /\ \A m \in ToSet(manifest) : m.id \in 1 .. Len(archive)
    BY GivenPlaces
  <2>2. \A i \in 1 .. Len(manifest) : manifest[i] \in ToSet(manifest)
    BY GivenPlaces
  <2> QED
    BY <1>1, <2>1, <2>2, AllListed
<1>6. Verified <=> ListSucceeds /\ ~(whole.opens /\ whole.overlap) /\ shallow
  BY <1>1, <1>2 DEF Verified
<1> HIDE DEF shallow
<1> USE DEF shallow
<1> QED
  BY <1>1, <1>3, <1>4, <1>6, Zenon DEF VerdictExact

\* The verdicts of inspection, format rules and validation are what
\* VerdictExact says, for every archive and every limit.
THEOREM VerdictTheorem == Spec => []VerdictExact
<1>1. Init => PlaceInv /\ VerdictInv
  BY PlaceInit, VerdictInit
<1>2. PlaceInv /\ VerdictInv /\ [Next]_vars => (PlaceInv /\ VerdictInv)'
  BY PlaceStep, PlaceStutters, VerdictStep, VerdictStutters
<1> QED
  BY <1>1, <1>2, VerdictFollows, PTL DEF Spec

-----------------------------------------------------------------------------
(* The names given out.                                                    *)

\* A name that analyzePath has nothing to say against.
LEMMA ValidName ==
    ASSUME NEW n \in Name, PathIssues(DefaultPolicy, n) = <<>>
    PROVE  /\ NameSize(n) <= PathLimits.pathSize /\ ~IsAbsolute(n)
           /\ \A i \in 1 .. Len(n.components) :
                 /\ n.components[i] \in Component
                 /\ Kind(DefaultPolicy, n.components[i]) \in {"normal", "current"}
                 /\ ComponentSize(n.components[i]) <= PathLimits.componentSize
           /\ Len(CleanComponents(DefaultPolicy, n)) <= PathLimits.components
<1>1. \A x : ~NameIssueOf(x, DefaultPolicy, n)
  <2>1. ToSet(PathIssues(DefaultPolicy, n)) = {}
    BY PathIssuesAre, NoneIsEmpty
  <2> QED
    BY <2>1, PathIssuesAre
<1>2. /\ PathLimits.components \in Nat /\ PathLimits.componentSize \in Nat
      /\ PathLimits.pathSize \in Nat /\ DefaultPolicy.limits = PathLimits
      /\ DefaultPolicy.allowed = {"current", "wildcard"}
  BY DefaultPolicyIs
<1>3. NameSize(n) \in Int
  <2> PICK N \in Nat : N = Len(n.components)
    BY NameType
  <2>1. PICK f : (\A k \in 0 .. N : f[k] \in Nat) /\ NameSize(n) = f[N] - 1
    BY NameSizeIs
  <2> QED
    BY <2>1
<1>4. ~(NameSize(n) > PathLimits.pathSize)
  <2>1. ~NameIssueOf("path.too_long", DefaultPolicy, n)
    BY <1>1
  <2> QED
    BY <1>2, <2>1 DEF NameIssueOf
<1>5. ~IsAbsolute(n)
  <2>1. ~NameIssueOf("path.absolute", DefaultPolicy, n)
    BY <1>1
  <2> QED
    BY <1>2, <2>1 DEF NameIssueOf
<1>6. ~(Len(CleanComponents(DefaultPolicy, n)) > PathLimits.components)
  <2>1. ~NameIssueOf("path.too_many_components", DefaultPolicy, n)
    BY <1>1
  <2> QED
    BY <1>2, <2>1 DEF NameIssueOf
<1>7. Len(CleanComponents(DefaultPolicy, n)) \in Nat
  <2>1. CleanComponents(DefaultPolicy, n) \in Seq(Component)
    BY CleanIs
  <2> QED
    BY <2>1
<1>8. \A i \in 1 .. Len(n.components) :
                 /\ n.components[i] \in Component
                 /\ Kind(DefaultPolicy, n.components[i]) \in {"normal", "current"}
                 /\ ComponentSize(n.components[i]) <= PathLimits.componentSize
  <2> TAKE i \in 1 .. Len(n.components)
  <2>1. \A x : ~IssueOf(x, DefaultPolicy, n.components[i])
    BY <1>1 DEF NameIssueOf
  <2> PICK c \in Component : c = n.components[i]
    BY NameType
  <2>2. KindAllowed(DefaultPolicy, Kind(DefaultPolicy, c))
    BY <2>1 DEF IssueOf
  <2>3. Kind(DefaultPolicy, c) \in {"normal", "current"}
    BY <1>2, <2>2, ReplacementIs DEF KindAllowed
  <2>4. ~(ComponentSize(c) > PathLimits.componentSize)
    BY <1>2, <2>1 DEF IssueOf
  <2>5. ComponentSize(c) <= PathLimits.componentSize
    BY <1>2, <2>4, SizesAre
  <2> QED
    BY <2>3, <2>5
<1> QED
  BY <1>2, <1>3, <1>4, <1>5, <1>6, <1>7, <1>8

\* It is extracted under the name it was given.
LEMMA ValidOutput ==
    ASSUME NEW n \in Name, PathIssues(DefaultPolicy, n) = <<>>, ~n.back
    PROVE  Output(n) = Normalized(DefaultPolicy, n)
<1> DEFINE t == [i \in DOMAIN n.components |-> Replacement(DefaultPolicy, n.components[i])]
<1> PICK s \in Seq(Component) : s = n.components
  BY NameType
<1>1. /\ t \in Seq(Component) /\ Len(t) = Len(s)
      /\ \A i \in 1 .. Len(s) : t[i] = Replacement(DefaultPolicy, s[i])
      /\ CleanComponents(DefaultPolicy, n) = Within(t, Component \ {Empty})
  BY CleanIs
<1> HIDE DEF t
<1>2. \A i \in 1 .. Len(s) : s[i] \in Component /\ Kind(DefaultPolicy, s[i]) \in {"normal", "current"}
  BY ValidName
<1>3. \A i \in 1 .. Len(s) :
         /\ s[i] \in Rest <=> t[i] \in Component \ {Empty}
         /\ s[i] \in Rest => s[i] = t[i]
         /\ s[i] # Parent
  <2> TAKE i \in 1 .. Len(s)
  <2>1. CASE Kind(DefaultPolicy, s[i]) = "normal"
    <3>1. s[i] \notin {Empty, Current, Parent} /\ t[i] = s[i]
      BY <1>1, <1>2, <2>1, NormalIs, ReplacementIs
    <3> QED
      BY <1>2, <3>1 DEF Rest
  <2>2. CASE Kind(DefaultPolicy, s[i]) = "current"
    <3>1. s[i] = Current /\ t[i] = Empty
      BY <1>1, <1>2, <2>2, NormalIs, ReplacementIs
    <3> QED
      BY <3>1, SpecialComponents DEF Rest
  <2> QED
    BY <1>2, <2>1, <2>2
<1>4. LexicallyNormal(s) = Within(s, Rest)
  BY <1>3, NormalWithoutParent
<1>5. Within(s, Rest) = CleanComponents(DefaultPolicy, n)
  <2> DEFINE B == Component \ {Empty}
  <2>1. \A i \in 1 .. Len(s) : (s[i] \in Rest <=> t[i] \in B) /\ (s[i] \in Rest => s[i] = t[i])
    BY <1>3
  <2> HIDE DEF B
  <2>2. Len(s) = Len(t) /\ t \in Seq(Component)
    BY <1>1
  <2>3. Within(s, Rest) = Within(t, B)
    BY <2>1, <2>2, WithinAlike
  <2> QED
    BY <1>1, <2>3, Zenon DEF B
<1> PICK w \in Seq(Component) : w = Within(s, Rest)
  BY WithinMembers
<1>6. \A i \in 1 .. Len(w) : w[i] \in Component \ {Parent}
  <2>1. ToSet(w) = ToSet(s) \cap Rest /\ ToSet(s) = {s[i] : i \in 1 .. Len(s)}
        /\ \A i \in 1 .. Len(w) : w[i] \in ToSet(w)
    BY WithinMembers, MembersOf
  <2> QED
    BY <1>2, <1>3, <2>1
<1>7. BelowRoot(n) = w
  <2>1. Within(w, Component \ {Parent}) = w
    BY <1>6, WithinAll
  <2> QED
    BY <1>4, <2>1, Zenon DEF BelowRoot
<1>8. Kept(w) = w
  <2>1. Len(w) <= PathLimits.components
    BY <1>5, ValidName
  <2> QED
    BY <2>1, KeptIs
<1>9. Normalized(DefaultPolicy, n) = Joined(IF w = <<>> THEN <<Unnamed>> ELSE w)
  BY <1>5, <1>8, NormalizedIs, Zenon DEF OrUnnamed
<1> QED
  BY <1>7, <1>9, Zenon DEF Output

\* And if it keeps its name, the format rules do not warn of it.
LEMMA ValidClass ==
    ASSUME NEW n \in Name, n # EmptyName, PathIssues(DefaultPolicy, n) = <<>>,
           Normalized(DefaultPolicy, n) = n
    PROVE  NameClass(n) \notin DOMAIN NameRule
<1> PICK s \in Seq(Component) : s = n.components /\ Len(s) # 0 /\ Len(s) \in Nat
  BY NameType
<1>0. ToSet(s) = {s[i] : i \in 1 .. Len(s)}
  BY MembersOf
<1>1. \A i \in 1 .. Len(s) : s[i] \in Component /\ Kind(DefaultPolicy, s[i]) \in {"normal", "current"}
  BY ValidName
<1>2. ~(NameSize(n) > PathLimits.pathSize) /\ ~IsAbsolute(n)
  <2> PICK N \in Nat : N = Len(n.components)
    BY NameType
  <2>1. PICK f : (\A k \in 0 .. N : f[k] \in Nat) /\ NameSize(n) = f[N] - 1
    BY NameSizeIs
  <2>2. NameSize(n) \in Int
    BY <2>1
  <2> QED
    BY <2>2, ValidName, DefaultPolicyIs
<1>3. ~Lexicon[NoWord].control
  BY PathsAssumption
<1>4. \A i \in 1 .. Len(s) : ~Lexicon[s[i].word].control /\ s[i] # Parent
  <2> TAKE i \in 1 .. Len(s)
  <2>1. CASE Kind(DefaultPolicy, s[i]) = "normal"
    BY <1>1, <2>1, NormalIs
  <2>2. CASE Kind(DefaultPolicy, s[i]) = "current"
    <3>1. s[i] = Current
      BY <1>1, <2>2, NormalIs
    <3> QED
      BY <1>3, <3>1, SpecialComponents DEF Current
  <2> QED
    BY <1>1, <2>1, <2>2
<1>5. \A i \in 1 .. Len(s) : s[i] # Current
  <2> DEFINE w == CleanComponents(DefaultPolicy, n)
             K == OrUnnamed(Kept(w))
  <2>1. n = Joined(K)
    BY CleanIs, NormalizedIs
  <2>2. s = K
    BY <2>1 DEF Joined
  <2>3. w \in Seq(Component)
    BY CleanIs
  <2>4. \A i \in 1 .. Len(w) : w[i] # Current
    <3> TAKE i \in 1 .. Len(w)
    <3>1. PICK j \in 1 .. Len(s) : w[i] # Empty /\ w[i] = Replacement(DefaultPolicy, s[j])
      <4> HIDE DEF w
      <4> QED
        BY CleanIs, Zenon DEF w
    <3> HIDE DEF w
    <3>2. CASE Kind(DefaultPolicy, s[j]) = "normal"
      BY <1>1, <3>1, <3>2, NormalIs, ReplacementIs
    <3>3. CASE Kind(DefaultPolicy, s[j]) = "current"
      BY <1>1, <3>1, <3>3, ReplacementIs
    <3> QED
      BY <1>1, <3>2, <3>3
  <2> HIDE DEF w
  <2>5. Kept(w) = <<>> \/ s = Kept(w)
    BY <2>2 DEF OrUnnamed
  <2>6. CASE s = Kept(w)
    BY <2>3, <2>4, <2>6, KeptIs
  <2>7. CASE Kept(w) = <<>>
    <3>1. s = <<Unnamed>>
      BY <2>2, <2>7 DEF OrUnnamed
    <3>2. Len(s) = 1 /\ s[1] = Unnamed
      BY <3>1
    <3> QED
      BY <3>2, SpecialComponents
  <2> QED
    BY <2>5, <2>6, <2>7
<1>6. ~IsDevice(Last(s))
  <2>1. Len(s) \in 1 .. Len(s) /\ Last(s) = s[Len(s)]
    BY DEF Last
  <2>2. Kind(DefaultPolicy, s[Len(s)]) = "normal"
    BY <1>1, <1>5, <2>1, NormalIs
  <2> QED
    BY <1>1, <2>1, <2>2, NormalIs
<1>7. ~\E c \in ToSet(s) : Lexicon[c.word].control
  BY <1>0, <1>4
<1>8. ToSet(s) \cap {Current, Parent} = {}
  BY <1>0, <1>4, <1>5
<1>9. NameClass(n) \in {"directory", "simple"}
  <2>1. NameClass(n) = IF Len(s) > 1 THEN "directory" ELSE "simple"
    BY <1>2, <1>6, <1>7, <1>8, NameClassIs, Zenon
  <2> QED
    BY <2>1
<1>10. DOMAIN NameRule = {"empty", "long", "control", "absolute", "dots", "device"}
  BY DEF NameRule
<1> QED
  BY <1>9, <1>10

\* NamesJudgedAlike follows from what is listed.
LEMMA NamesFollow == PlaceInv => NamesJudgedAlike
<1> SUFFICES ASSUME PlaceInv, NEW m \in ToSet(manifest)
             PROVE  LET valid == PathIssues(DefaultPolicy, m.name) = <<>> IN
                    /\ valid /\ ~m.name.back => Output(m.name) = m.normalized
                    /\ NameClass(m.name) \in DOMAIN NameRule => ~valid \/ NameChanged(m)
                    /\ (\A c \in ToSet(m.name.components) :
                          Cardinality(Defects(c)) <= IF c.word = NoWord THEN 0 ELSE 1)
                       => Normalized(DefaultPolicy, m.normalized) = m.normalized
                    /\ BelowRoot(m.name) # <<>> => Output(PackedName(m.name)) = PackedName(m.name)
  BY Zenon DEF NamesJudgedAlike
<1>1. m \in Descriptions(archive)
  BY GivenPlaces
<1> PICK n \in Name : n = m.name
  BY <1>1, DescribedEntry
<1>2. n # EmptyName /\ m.normalized = Normalized(DefaultPolicy, n)
  BY <1>1, DescribedEntry
<1>3. PathIssues(DefaultPolicy, n) = <<>> /\ ~n.back => Output(n) = m.normalized
  BY <1>2, ValidOutput
<1>4. NameClass(n) \in DOMAIN NameRule => PathIssues(DefaultPolicy, n) # <<>> \/ NameChanged(m)
  BY <1>2, ValidClass DEF NameChanged
<1>5. (\A c \in ToSet(n.components) : DefectsFew(c))
         => Normalized(DefaultPolicy, m.normalized) = m.normalized
  BY <1>2, NormalizedStable
<1>6. BelowRoot(n) # <<>> => Output(PackedName(n)) = PackedName(n)
  BY PackedNameKept
<1> QED
  BY <1>3, <1>4, <1>5, <1>6, Zenon DEF DefectsFew

\* The three judgements on names, of the policy, of the format rules and of
\* extraction, relate as NamesJudgedAlike says, for every lexicon of words.
THEOREM NamesTheorem == Spec => []NamesJudgedAlike
  BY PlaceTheorem, NamesFollow, PTL

-----------------------------------------------------------------------------
(* Where an issue comes from.                                              *)

\* A code is reported of an entry by one of its three examinations.
SourceOf(m, x) ==
    \/ x \in ToSet(InspectionIssues(archive[m.id], m.depth))
    \/ x \in ToSet(FormatIssues(m))
    \/ x \in ToSet(EntryIssues(m))

\* What is reported of an entry is reported of one that is listed.
Sourced ==
    \A d \in ToSet(diagnostics) :
       d.entry # 0 => \E m \in ToSet(manifest) : SourceOf(m, d.code)

\* What is reported of an entry depends on the inputs only.
LEMMA SourceKept ==
    ASSUME UNCHANGED input
    PROVE  \A m, x : SourceOf(m, x)' <=> SourceOf(m, x)
<1>1. options' = options /\ archive' = archive
  BY DEF input
<1>2. \A e, d : InspectionIssues(e, d)' = InspectionIssues(e, d)
  BY <1>1, Zenon DEF InspectionIssues
<1>3. \A m : EntryIssues(m)' = EntryIssues(m)
  BY <1>1, Zenon DEF EntryIssues, PolicyIssues, LayoutIssues
<1>4. \A m : InspectionIssues(archive[m.id], m.depth)' = InspectionIssues(archive[m.id], m.depth)
  BY <1>1, Zenon DEF InspectionIssues
<1> QED
  BY <1>3, <1>4, Zenon DEF SourceOf

\* Sourced holds when nothing has been reported,
LEMMA SourcedInit == Init => Sourced
<1> SUFFICES ASSUME Init PROVE Sourced
  OBVIOUS
<1>1. diagnostics = <<>>
  BY DEF Init
<1>2. ToSet(<<>>) = {}
  BY DEF ToSet
<1> QED
  BY <1>1, <1>2 DEF Sourced

\* A report about the archive, or about an entry that is listed by then.
LEMMA SourcedReport ==
    ASSUME PlaceInv, Sourced, UNCHANGED input, NEW codes \in Seq(AllCodes),
           NEW id \in 0 .. Len(archive), Report(codes, id),
           ToSet(manifest) \subseteq ToSet(manifest'),
           id = 0 \/ \E m \in ToSet(manifest') : \A x \in ToSet(codes) : SourceOf(m, x)
    PROVE  Sourced'
<1>1. ToSet(diagnostics') = ToSet(diagnostics) \cup {[code |-> c, entry |-> id] : c \in ToSet(codes)}
  BY ReportStep
<1>2. \A m, x : SourceOf(m, x)' <=> SourceOf(m, x)
  BY SourceKept
<1>3. \A d \in ToSet(diagnostics') : d.entry # 0 => \E m \in ToSet(manifest') : SourceOf(m, d.code)
  <2> TAKE d \in ToSet(diagnostics')
  <2> SUFFICES ASSUME d.entry # 0
               PROVE  \E m \in ToSet(manifest') : SourceOf(m, d.code)
    OBVIOUS
  <2>1. CASE d \in ToSet(diagnostics)
    BY <2>1, Zenon DEF Sourced
  <2>2. CASE d \in {[code |-> c, entry |-> id] : c \in ToSet(codes)}
    <3>1. PICK c \in ToSet(codes) : d = [code |-> c, entry |-> id]
      BY <2>2, Zenon
    <3>2. d.code = c /\ d.entry = id
      BY <3>1
    <3> QED
      BY <3>2, Zenon
  <2> QED
    BY <1>1, <2>1, <2>2, Zenon
<1> QED
  BY <1>2, <1>3, Zenon DEF Sourced

\* stays when nothing is,
LEMMA SourcedSame ==
    ASSUME Sourced, UNCHANGED input, UNCHANGED manifest, UNCHANGED diagnostics
    PROVE  Sourced'
<1>1. \A m, x : SourceOf(m, x)' <=> SourceOf(m, x)
  BY SourceKept
<1> QED
  BY <1>1, Zenon DEF Sourced

\* and is kept by every step.
LEMMA SourcedStep == PlaceInv /\ Sourced /\ [Next]_vars => Sourced'
<1> SUFFICES ASSUME PlaceInv, Sourced, [Next]_vars PROVE Sourced'
  OBVIOUS
<1>1. UNCHANGED input
  BY NextKeepsInput DEF vars, input
<1>2. 0 \in 0 .. Len(archive) /\ ToSet(manifest) = {manifest[i] : i \in 1 .. Len(manifest)}
  BY GivenPlaces
<1>3. CASE InspectEntry
  <2>1. /\ next \in 1 .. Len(archive) /\ archive[next] \in Entry
        /\ \/ manifest' = manifest /\ diagnostics' = diagnostics
           \/ \E d \in 0 .. options.max_depth :
                 /\ manifest' = Append(manifest, Described(next, archive[next], d))
                 /\ InspectionIssues(archive[next], d) \in Seq(AllCodes)
                 /\ Report(InspectionIssues(archive[next], d), next)
    BY <1>3, InspectEntryDoes
  <2>2. CASE manifest' = manifest /\ diagnostics' = diagnostics
    BY <1>1, <2>2, SourcedSame
  <2>3. CASE \E d \in 0 .. options.max_depth :
                 /\ manifest' = Append(manifest, Described(next, archive[next], d))
                 /\ InspectionIssues(archive[next], d) \in Seq(AllCodes)
                 /\ Report(InspectionIssues(archive[next], d), next)
    <3>1. PICK d \in 0 .. options.max_depth :
                 /\ manifest' = Append(manifest, Described(next, archive[next], d))
                 /\ InspectionIssues(archive[next], d) \in Seq(AllCodes)
                 /\ Report(InspectionIssues(archive[next], d), next)
      BY <2>3
    <3> DEFINE m == Described(next, archive[next], d)
    <3>2. m \in Descriptions(archive) /\ m.id = next /\ m.depth = d
      BY <2>1, DescribedIsDescription
    <3> HIDE DEF m
    <3>3. ToSet(manifest') = ToSet(manifest) \cup {m}
      BY <3>1, <3>2, GivenPlaces, MembersWith DEF m
    <3>4. \A x \in ToSet(InspectionIssues(archive[next], d)) : SourceOf(m, x)
      BY <3>2, Zenon DEF SourceOf
    <3>5. next \in 0 .. Len(archive)
      BY <2>1
    <3>6. m \in ToSet(manifest') /\ ToSet(manifest) \subseteq ToSet(manifest')
      BY <3>3
    <3> QED
      BY <1>1, <3>1, <3>4, <3>5, <3>6, SourcedReport
  <2> QED
    BY <2>1, <2>2, <2>3
<1>4. ASSUME UNCHANGED manifest, NEW codes \in Seq(AllCodes), Report(codes, 0)
      PROVE  Sourced'
  BY <1>1, <1>2, <1>4, SourcedReport
<1>5. CASE EndInspection
  <2>1. UNCHANGED manifest /\ Report(InspectionEnd, 0)
    BY <1>5 DEF EndInspection, InspectionEnd
  <2> QED
    BY <1>4, <2>1, WholeIssuesAre
<1>6. CASE CheckHeader
  <2>1. UNCHANGED manifest /\ Report(HeaderIssues, 0)
    BY <1>6 DEF CheckHeader, HeaderIssues
  <2> QED
    BY <1>4, <2>1, WholeIssuesAre
<1>7. CASE CheckFormat
  <2>1. /\ At("format", manifest) /\ UNCHANGED manifest
        /\ Report(FormatIssues(manifest[next]), manifest[next].id)
    BY <1>7 DEF CheckFormat
  <2>2. /\ next \in 1 .. Len(manifest) /\ manifest[next] \in Descriptions(archive)
        /\ manifest[next].id \in 0 .. Len(archive)
    BY <2>1, EntryAt
  <2>3. FormatIssues(manifest[next]) \in Seq(AllCodes)
    BY <2>2, EntryIssuesAre
  <2>4. manifest[next] \in ToSet(manifest')
        /\ \A x \in ToSet(FormatIssues(manifest[next])) : SourceOf(manifest[next], x)
    BY <1>2, <2>1, <2>2 DEF SourceOf
  <2> QED
    BY <1>1, <2>1, <2>2, <2>3, <2>4, SourcedReport
<1>8. CASE ValidateTotals
  <2>1. UNCHANGED manifest /\ Report(TotalIssues, 0)
    BY <1>8 DEF ValidateTotals, TotalIssues
  <2> QED
    BY <1>4, <2>1, WholeIssuesAre
<1>9. CASE ValidateEntry
  <2>1. /\ At("entries", manifest) /\ UNCHANGED manifest
        /\ Report(EntryIssues(manifest[next]), manifest[next].id)
    BY <1>9 DEF ValidateEntry, EntryIssues
  <2>2. /\ next \in 1 .. Len(manifest) /\ manifest[next] \in Descriptions(archive)
        /\ manifest[next].id \in 0 .. Len(archive)
    BY <2>1, EntryAt
  <2>3. EntryIssues(manifest[next]) \in Seq(AllCodes)
    BY <2>2, EntryIssuesAre
  <2>4. manifest[next] \in ToSet(manifest')
        /\ \A x \in ToSet(EntryIssues(manifest[next])) : SourceOf(manifest[next], x)
    BY <1>2, <2>1, <2>2 DEF SourceOf
  <2> QED
    BY <1>1, <2>1, <2>2, <2>3, <2>4, SourcedReport
<1>10. CASE EndValidation
  BY <1>1, <1>10, SourcedSame DEF EndValidation
<1>11. CASE SummarizeEntry
  BY <1>1, <1>11, SourcedSame DEF SummarizeEntry
<1>12. CASE Compare
  BY <1>1, <1>12, SourcedSame DEF Compare
<1>13. CASE UNCHANGED vars
  BY <1>1, <1>13, SourcedSame DEF vars
<1> QED
  BY <1>3, <1>5, <1>6, <1>7, <1>8, <1>9, <1>10, <1>11, <1>12, <1>13 DEF Next, Finished

-----------------------------------------------------------------------------
(* Entries that pack() wrote.                                              *)

\* The permissive policy makes of a valid name what the default policy does.
LEMMA PermissiveClean ==
    ASSUME NEW n \in Name, PathIssues(DefaultPolicy, n) = <<>>
    PROVE  /\ CleanComponents(PermissivePolicy, n) = CleanComponents(DefaultPolicy, n)
           /\ Normalized(PermissivePolicy, n) = Normalized(DefaultPolicy, n)
<1>1. \A i \in 1 .. Len(n.components) :
         /\ n.components[i] \in Component
         /\ Kind(DefaultPolicy, n.components[i]) \in {"normal", "current"}
  BY ValidName
<1>2. DOMAIN n.components = 1 .. Len(n.components)
  BY NameType
<1>3. PermissivePolicy.allowed = ComponentKinds \cup {"absolute"}
      /\ PermissivePolicy.limits = PermissiveLimits
  BY DEF PermissivePolicy
<1>4. \A c \in Component : Kind(DefaultPolicy, c) \in {"normal", "current"} =>
         Replacement(PermissivePolicy, c) = Replacement(DefaultPolicy, c)
  <2> SUFFICES ASSUME NEW c \in Component, Kind(DefaultPolicy, c) \in {"normal", "current"}
               PROVE  Replacement(PermissivePolicy, c) = Replacement(DefaultPolicy, c)
    OBVIOUS
  <2>1. {"device", "control", "space", "dot", "wildcard"} \subseteq PermissivePolicy.allowed
    BY <1>3 DEF ComponentKinds
  <2>2. CASE Kind(DefaultPolicy, c) = "current"
    <3>1. c = Current
      BY <2>2, NormalIs
    <3>2. Kind(PermissivePolicy, c) = "current"
      BY <3>1, KindIs, SpecialComponents
    <3> QED
      BY <2>2, <3>2, Zenon DEF Replacement
  <2>3. CASE Kind(DefaultPolicy, c) = "normal"
    <3>1. c \notin {Empty, Current, Parent} /\ ~Lexicon[c.word].drive
      BY <2>3, NormalIs
    <3>2. Kind(PermissivePolicy, c) = "normal"
      BY <2>1, <3>1, KindIs
    <3> QED
      BY <2>3, <3>2, Zenon DEF Replacement
  <2> QED
    BY <2>2, <2>3
<1>5. [i \in DOMAIN n.components |-> Replacement(PermissivePolicy, n.components[i])]
        = [i \in DOMAIN n.components |-> Replacement(DefaultPolicy, n.components[i])]
  BY <1>1, <1>2, <1>4
<1>6. CleanComponents(PermissivePolicy, n) = CleanComponents(DefaultPolicy, n)
  BY <1>5, Zenon DEF CleanComponents
<1>7. Normalized(PermissivePolicy, n) = Normalized(DefaultPolicy, n)
  <2> DEFINE w == CleanComponents(DefaultPolicy, n)
  <2>1. w \in Seq(Component) /\ Len(w) <= PathLimits.components
    BY CleanIs, ValidName
  <2>2. PathLimits.components \in Nat /\ PermissiveLimits.components \in Nat
        /\ PathLimits.components <= PermissiveLimits.components
    BY PathsAssumption DEF Limits
  <2> HIDE DEF w
  <2>3. /\ ~(Len(w) > PathLimits.components) /\ ~(Len(w) > PermissiveLimits.components)
        /\ PathLimits.components = 0 \/ PermissiveLimits.components = 0 => w = <<>>
    BY <2>1, <2>2, EmptySeq
  <2>4. Normalized(DefaultPolicy, n) = Joined(IF w = <<>> THEN <<Unnamed>> ELSE w)
    BY <2>3, DefaultPolicyIs, Zenon DEF Normalized, w
  <2>5. Normalized(PermissivePolicy, n) = Joined(IF w = <<>> THEN <<Unnamed>> ELSE w)
    BY <1>3, <1>6, <2>3, Zenon DEF Normalized, w
  <2> QED
    BY <2>4, <2>5
<1> QED
  BY <1>6, <1>7

\* A name that the default policy says nothing against, the permissive one says
\* nothing against.
LEMMA PermissiveIssues ==
    ASSUME NEW n \in Name, PathIssues(DefaultPolicy, n) = <<>>, NEW x
    PROVE  ~NameIssueOf(x, PermissivePolicy, n)
<1>1. PermissivePolicy.allowed = ComponentKinds \cup {"absolute"}
      /\ PermissivePolicy.limits = PermissiveLimits
  BY DEF PermissivePolicy
<1>2. /\ PathLimits.components \in Nat /\ PathLimits.componentSize \in Nat
      /\ PathLimits.pathSize \in Nat /\ PermissiveLimits.components \in Nat
      /\ PermissiveLimits.componentSize \in Nat /\ PermissiveLimits.pathSize \in Nat
      /\ PathLimits.components <= PermissiveLimits.components
      /\ PathLimits.componentSize <= PermissiveLimits.componentSize
      /\ PathLimits.pathSize <= PermissiveLimits.pathSize
  BY PathsAssumption DEF Limits
<1>3. "empty" \in PermissivePolicy.allowed /\ "absolute" \in PermissivePolicy.allowed
  BY <1>1 DEF ComponentKinds
<1>4. ~(NameSize(n) > PermissiveLimits.pathSize)
  <2> PICK N \in Nat : N = Len(n.components)
    BY NameType
  <2>1. PICK f : (\A k \in 0 .. N : f[k] \in Nat) /\ NameSize(n) = f[N] - 1
    BY NameSizeIs
  <2>2. NameSize(n) \in Int
    BY <2>1
  <2> QED
    BY <1>2, <2>2, ValidName
<1>5. ~(Len(CleanComponents(PermissivePolicy, n)) > PermissiveLimits.components)
  <2>1. Len(CleanComponents(DefaultPolicy, n)) \in Nat
    <3>1. CleanComponents(DefaultPolicy, n) \in Seq(Component)
      BY CleanIs
    <3> QED
      BY <3>1
  <2> QED
    BY <1>2, <2>1, ValidName, PermissiveClean
<1>6. \A i \in 1 .. Len(n.components) : ~IssueOf(x, PermissivePolicy, n.components[i])
  <2> TAKE i \in 1 .. Len(n.components)
  <2> PICK c \in Component : c = n.components[i]
    BY NameType
  <2>1. Kind(PermissivePolicy, c) \in ComponentKinds
    BY KindIs DEF ComponentKinds
  <2>2. KindAllowed(PermissivePolicy, Kind(PermissivePolicy, c))
    BY <1>1, <2>1 DEF KindAllowed
  <2>3. ComponentSize(c) <= PathLimits.componentSize /\ ComponentSize(c) \in Nat
    BY ValidName, SizesAre
  <2>4. ~(ComponentSize(c) > PermissiveLimits.componentSize)
    BY <1>2, <2>3
  <2> QED
    BY <1>1, <2>2, <2>4 DEF IssueOf
<1> QED
  BY <1>1, <1>3, <1>4, <1>5, <1>6 DEF NameIssueOf

\* The codes that may be reported of what was packed.
Quiet == {"chunk.large_entry", "chunk.empty_entry", "compression.high_ratio",
          "compression.already_compressed_type", "name.backup",
          "name.temporary", "name.editor-swap", "name.system-metadata",
          "nesting.depth_limit", "format.nested_depth"}

\* An entry that pack() wrote has the name it is extracted under, which no policy
\* and no format rule objects to.
LEMMA PackedNameQuiet ==
    ASSUME NEW n \in Name, n # EmptyName, ~n.back, BelowRoot(n) # <<>>, PackedName(n) = n,
           PathIssues(DefaultPolicy, n) = <<>>
    PROVE  /\ \A p \in {DefaultPolicy, PermissivePolicy} :
                 Normalized(p, n) = n /\ \A x : ~NameIssueOf(x, p, n)
           /\ NameClass(n) \notin DOMAIN NameRule
<1>1. Output(n) = n
  <2>1. Output(PackedName(n)) = PackedName(n)
    BY PackedNameKept
  <2> QED
    BY <2>1, Zenon
<1>2. Output(n) = Normalized(DefaultPolicy, n)
  BY ValidOutput
<1>3. Normalized(DefaultPolicy, n) = n
  BY <1>1, <1>2, Zenon
<1>4. Normalized(PermissivePolicy, n) = n
  BY <1>3, PermissiveClean, Zenon
<1>5. \A x : ~NameIssueOf(x, DefaultPolicy, n)
  <2>1. ToSet(PathIssues(DefaultPolicy, n)) = {}
    BY PathIssuesAre, NoneIsEmpty
  <2> QED
    BY <2>1, PathIssuesAre
<1>6. \A x : ~NameIssueOf(x, PermissivePolicy, n)
  BY PermissiveIssues
<1>7. NameClass(n) \notin DOMAIN NameRule
  BY <1>3, ValidClass
<1> QED
  BY <1>3, <1>4, <1>5, <1>6, <1>7, Zenon

\* What pack() writes of an entry.
LEMMA AsPackedIs ==
    ASSUME NEW e \in Entry, AsPacked(e)
    PROVE  /\ Readable(e) /\ Decodes(e) /\ (Recurses(e) => e.content = "archive")
           /\ e.packed <= MaxChunkSize /\ e.length = e.packed /\ e.chunkFlags = e.flags
           /\ ~HasUnknownFlags(e.flags)
           /\ e.packed = 0 => e.original = 0
           /\ e.packed <= e.original
           /\ "compressed" \in e.flags => e.packed < e.original
<1>1. /\ e.inside /\ e.length = e.packed /\ e.packed <= MaxChunkSize
      /\ e.chunkFlags = e.flags /\ "unknown" \notin e.flags
      /\ "nested" \in e.flags <=> e.content # "plain"
      /\ e.content # "broken"
  BY DEF AsPacked
<1>2. IF "compressed" \in e.flags
         THEN e.packed < e.original /\ e.packed # 0 /\ e.expansion = e.original
         ELSE e.packed = e.original
  BY DEF AsPacked
<1>3. e.packed \in Nat /\ e.original \in Nat /\ e.content \in Contents
  BY ManifestsAssumption DEF Entry, Size
<1>4. Readable(e)
  BY <1>1 DEF Readable
<1>5. Unpacked(e) = e.original
  BY <1>1, <1>2 DEF Unpacked
<1>6. Decodes(e)
  BY <1>1, <1>4, <1>5 DEF Decodes
<1>7. Recurses(e) => e.content = "archive"
  BY <1>1, <1>3 DEF Recurses, IsNested, LooksNested, Contents
<1>8. (e.packed = 0 => e.original = 0) /\ e.packed <= e.original
      /\ ("compressed" \in e.flags => e.packed < e.original)
  BY <1>2, <1>3
<1> QED
  BY <1>1, <1>4, <1>6, <1>7, <1>8 DEF HasUnknownFlags

\* What is not larger than it was does not expand.
LEMMA NoExpansion ==
    ASSUME NEW p \in Nat, NEW o \in Nat, p <= o
    PROVE  ~(p > Growth * AtLeastOne(o))
<1>1. Growth \in Nat /\ Growth >= 1
  BY ManifestsAssumption
<1> PICK a \in Nat : a = AtLeastOne(o) /\ p <= a
  BY DEF AtLeastOne
<1>2. \A g \in Nat : g >= 1 => g * a >= a
  OBVIOUS
<1>3. Growth * a >= a /\ Growth * a \in Nat
  BY <1>1, <1>2
<1>4. ~(p > Growth * a)
  BY <1>3
<1> QED
  BY <1>4

\* Of an entry that was packed only such codes are reported.
LEMMA PackedEntryQuiet ==
    ASSUME PlaceInv, NEW m \in Descriptions(archive), AsPacked(archive[m.id]), NEW x,
           SourceOf(m, x)
    PROVE  x \in Quiet
<1> PICK e \in Entry : e = archive[m.id]
  BY DescribedEntry
<1>1. /\ m.id \in 1 .. Len(archive) /\ m.depth \in 0 .. options.max_depth
      /\ m.name = e.name /\ m.name \in Name /\ m.name # EmptyName
      /\ m.packed = e.packed /\ m.packed \in Nat
      /\ m.original = e.original /\ m.original \in Nat
      /\ m.flags = e.flags
      /\ m.compressed = ("compressed" \in e.flags)
      /\ m.readable = Readable(e)
      /\ m.payload = (IF Readable(e) THEN e.length ELSE 0)
      /\ m.chunkFlags = (IF Readable(e) THEN e.chunkFlags ELSE {})
      /\ m.readable \in BOOLEAN /\ m.compressed \in BOOLEAN
  BY DescribedEntry, ManifestsAssumption DEF Size
<1>2. /\ Readable(e) /\ Decodes(e) /\ (Recurses(e) => e.content = "archive")
      /\ e.packed <= MaxChunkSize /\ e.length = e.packed /\ e.chunkFlags = e.flags
      /\ ~HasUnknownFlags(e.flags)
      /\ e.packed = 0 => e.original = 0
      /\ e.packed <= e.original
      /\ "compressed" \in e.flags => e.packed < e.original
  BY AsPackedIs
<1>3. /\ \A p \in {DefaultPolicy, PermissivePolicy} :
            Normalized(p, m.name) = m.name /\ \A y : ~NameIssueOf(y, p, m.name)
      /\ NameClass(m.name) \notin DOMAIN NameRule
  <2>1. ~e.name.back /\ BelowRoot(e.name) # <<>> /\ PackedName(e.name) = e.name
        /\ PathIssues(DefaultPolicy, e.name) = <<>>
    BY DEF AsPacked
  <2>2. ~m.name.back /\ BelowRoot(m.name) # <<>> /\ PackedName(m.name) = m.name
        /\ PathIssues(DefaultPolicy, m.name) = <<>>
    BY <1>1, <2>1
  <2> QED
    BY <1>1, <2>2, PackedNameQuiet
<1>4. options \in Options /\ options.policy \in {DefaultPolicy, PermissivePolicy}
      /\ options.max_depth \in Nat /\ m.depth \in Nat
  BY <1>1, GivenPlaces DEF Options
<1>5. CASE x \in ToSet(InspectionIssues(e, m.depth))
  <2>1. ~NameIssueOf(x, DefaultPolicy, e.name)
    BY <1>1, <1>3
  <2> QED
    BY <1>2, <1>4, <1>5, <2>1, InspectionIssuesAre DEF Quiet
<1>6. CASE x \in ToSet(FormatIssues(m))
  <2>1. ~HasUnknownFlags(m.flags) /\ ~(m.packed > MaxChunkSize)
        /\ ~(m.readable /\ m.payload # m.packed)
    <3>1. MaxChunkSize \in Nat
      BY ManifestsAssumption
    <3> QED
      BY <1>1, <1>2, <3>1
  <2>2. x = "format.nested_depth"
    BY <1>1, <1>3, <1>6, <2>1, FormatIssuesAre
  <2> QED
    BY <2>2 DEF Quiet
<1>7. CASE x \in ToSet(PolicyIssues(m))
  <2>1. ~NameIssueOf(x, options.policy, m.name) /\ Normalized(options.policy, m.name) = m.name
    BY <1>3, <1>4, Zenon
  <2> QED
    BY <1>1, <1>4, <1>7, <2>1, PolicyIssuesAre
<1>8. CASE x \in ToSet(LayoutIssues(m))
  <2>1. m.readable /\ m.payload = m.packed
    BY <1>1, <1>2
  <2>2. m.readable \in BOOLEAN
    BY <1>1
  <2>3. \/ x = "chunk.unreadable" /\ ~m.readable
        \/ x = "chunk.large_entry" /\ m.readable /\ m.original > MaxEntrySize
        \/ x = "chunk.empty_entry" /\ m.readable /\ options.empties /\ m.original = 0
        \/ x = "chunk.size_mismatch" /\ m.readable /\ m.payload # m.packed
    BY <1>4, <1>8, <2>2, LayoutIssuesAre
  <2> QED
    BY <2>1, <2>3, Zenon DEF Quiet
<1>9. CASE x \in ToSet(CompressionIssues(m))
  <2>1. ~(m.packed > Growth * AtLeastOne(m.original))
    BY <1>1, <1>2, NoExpansion
  <2>2. ~(m.packed = 0 /\ m.original # 0)
        /\ ~(m.compressed /\ m.packed >= m.original /\ m.original # 0)
    <3>1. m.compressed => "compressed" \in e.flags
      BY <1>1, Zenon
    <3>2. e.packed = m.packed /\ e.original = m.original /\ m.packed \in Nat /\ m.original \in Nat
      BY <1>1
    <3>3. (m.packed = 0 => m.original = 0) /\ (m.compressed => m.packed < m.original)
      BY <1>2, <3>1, <3>2, Zenon
    <3> QED
      BY <3>2, <3>3
  <2>3. x = "compression.high_ratio" \/ x \in TypeCode
    <3>1. m.compressed \in BOOLEAN
      BY <1>1
    <3>2. \/ x = "compression.zero_packed" /\ m.packed = 0 /\ m.original # 0
          \/ x = "compression.high_ratio"
          \/ /\ x = "compression.expansion" /\ m.packed # 0
             /\ m.packed > Growth * AtLeastOne(m.original)
          \/ /\ x = "compression.no_savings" /\ m.compressed
             /\ m.packed >= m.original /\ m.original # 0
          \/ x \in TypeCode
      BY <1>9, <3>1, CompressionIssuesAre
    <3> QED
      BY <2>1, <2>2, <3>2, Zenon
  <2> QED
    BY <2>3 DEF Quiet, TypeCode
<1>10. CASE x \in ToSet(FlagIssues(m))
  <2>1. ~HasUnknownFlags(m.flags) /\ m.compressed = ("compressed" \in m.chunkFlags)
    BY <1>1, <1>2
  <2>2. m.compressed \in BOOLEAN
    BY <1>1
  <2>3. \/ x = "index.unknown_flags" /\ HasUnknownFlags(m.flags)
        \/ x = "chunk.flag_disagreement" /\ m.compressed # ("compressed" \in m.chunkFlags)
    BY <1>10, <2>2, FlagIssuesAre
  <2> QED
    BY <2>1, <2>3
<1>11. ToSet(EntryIssues(m)) = ToSet(PolicyIssues(m)) \cup ToSet(LayoutIssues(m))
                                 \cup ToSet(CompressionIssues(m)) \cup ToSet(FlagIssues(m))
  BY EntryIssuesAre
<1> QED
  BY <1>5, <1>6, <1>7, <1>8, <1>9, <1>10, <1>11 DEF SourceOf

\* PackedIsQuiet follows.
LEMMA QuietFollows == PlaceInv /\ Sourced => PackedIsQuiet
<1> SUFFICES ASSUME PlaceInv, Sourced, \A i \in DOMAIN archive : AsPacked(archive[i]),
                    NEW d \in ToSet(diagnostics), d.entry # 0
             PROVE  d.code \in Quiet
  BY DEF PackedIsQuiet, Quiet
<1>1. PICK m \in ToSet(manifest) : SourceOf(m, d.code)
  BY Zenon DEF Sourced
<1>2. m \in Descriptions(archive)
  BY GivenPlaces
<1>3. m.id \in DOMAIN archive
  BY <1>2, DescribedEntry, GivenPlaces
<1>4. AsPacked(archive[m.id])
  BY <1>3
<1> QED
  BY <1>1, <1>2, <1>4, PackedEntryQuiet

\* Of entries as pack() writes them verification (lib.cc) says nothing but what
\* the size, the depth and the type of a file give rise to, for every lexicon.
THEOREM PackedTheorem == Spec => []PackedIsQuiet
<1>1. Init => PlaceInv /\ Sourced
  BY PlaceInit, SourcedInit
<1>2. PlaceInv /\ Sourced /\ [Next]_vars => PlaceInv' /\ Sourced'
  BY PlaceStep, PlaceStutters, SourcedStep
<1>3. PlaceInv /\ Sourced => PackedIsQuiet
  BY QuietFollows
<1> QED
  BY <1>1, <1>2, <1>3, PTL DEF Spec

-----------------------------------------------------------------------------
(* Sums over finite sets.                                                  *)

\* F gives each part of D the sum of f over it, whatever is taken out first.
SumsOf(F, f, D) ==
    /\ F[{}] = 0
    /\ \A s \in SUBSET D : /\ F[s] \in Nat
                           /\ \A x \in s : F[s] = f[x] + F[s \ {x}]

\* The same, taking out some member first.
SumsByChoice(F, f, D) ==
    /\ F[{}] = 0
    /\ \A s \in SUBSET D : s # {} => \E x \in s : F[s] = f[x] + F[s \ {x}]

\* A sum over one place more.
LEMMA SumAdded ==
    ASSUME NEW D, NEW f, NEW a \in D, \A x \in D : f[x] \in Nat, NEW G, SumsOf(G, f, D \ {a})
    PROVE  SumsOf([s \in SUBSET D |-> IF a \in s THEN f[a] + G[s \ {a}] ELSE G[s]], f, D)
<1> DEFINE F == [s \in SUBSET D |-> IF a \in s THEN f[a] + G[s \ {a}] ELSE G[s]]
<1>1. \A s \in SUBSET (D \ {a}) : G[s] \in Nat /\ \A x \in s : G[s] = f[x] + G[s \ {x}]
  BY Zenon DEF SumsOf
<1>2. G[{}] = 0
  BY DEF SumsOf
<1>3. \A s \in SUBSET D : F[s] = IF a \in s THEN f[a] + G[s \ {a}] ELSE G[s]
  OBVIOUS
<1> HIDE DEF F
<1>4. F[{}] = 0
  BY <1>2, <1>3
<1>5. ASSUME NEW s \in SUBSET D
      PROVE  F[s] \in Nat /\ \A x \in s : F[s] = f[x] + F[s \ {x}]
  <2>1. CASE a \in s
    <3>1. s \ {a} \in SUBSET (D \ {a}) /\ s \ {a} \in SUBSET D
      OBVIOUS
    <3>2. F[s] = f[a] + G[s \ {a}] /\ G[s \ {a}] \in Nat
      BY <1>1, <1>3, <2>1, <3>1
    <3>3. ASSUME NEW x \in s, x # a
          PROVE  F[s] = f[x] + F[s \ {x}]
      <4>1. x \in s \ {a} /\ a \in s \ {x} /\ s \ {x} \in SUBSET D
            /\ (s \ {a}) \ {x} = (s \ {x}) \ {a} /\ (s \ {a}) \ {x} \in SUBSET (D \ {a})
        BY <2>1, <3>3
      <4>2. G[s \ {a}] = f[x] + G[(s \ {a}) \ {x}]
        BY <1>1, <3>1, <4>1, Zenon
      <4>3. F[s \ {x}] = f[a] + G[(s \ {x}) \ {a}]
        BY <1>3, <4>1, Zenon
      <4>4. PICK h \in Nat : h = G[(s \ {a}) \ {x}]
        BY <1>1, <4>1
      <4>5. F[s \ {x}] = f[a] + h
        BY <4>1, <4>3, <4>4, Zenon
      <4>6. PICK g \in Nat : g = G[s \ {a}]
        BY <3>2
      <4>7. g = f[x] + h
        BY <4>2, <4>4, <4>6, Zenon
      <4>8. F[s] = f[a] + g
        BY <3>2, <4>6, Zenon
      <4>9. f[x] \in Nat /\ f[a] \in Nat
        OBVIOUS
      <4> QED
        BY <4>5, <4>7, <4>8, <4>9
    <3>4. F[s] = f[a] + F[s \ {a}]
      BY <1>3, <3>1, <3>2
    <3>5. \A x \in s : F[s] = f[x] + F[s \ {x}]
      BY <3>3, <3>4, Zenon
    <3>6. F[s] \in Nat
      BY <3>2
    <3> QED
      BY <3>5, <3>6
  <2>2. CASE a \notin s
    <3>1. s \in SUBSET (D \ {a})
      BY <2>2
    <3>2. \A x \in s : s \ {x} \in SUBSET D /\ a \notin s \ {x}
      BY <2>2
    <3>3. F[s] = G[s] /\ \A x \in s : F[s \ {x}] = G[s \ {x}]
      BY <1>3, <2>2, <3>2
    <3>4. G[s] \in Nat /\ \A x \in s : G[s] = f[x] + G[s \ {x}]
      BY <1>1, <3>1, Zenon
    <3> QED
      BY <3>3, <3>4, Zenon
  <2> QED
    BY <2>1, <2>2
<1> HIDE DEF F
<1>6. SumsOf(F, f, D)
  BY <1>4, <1>5 DEF SumsOf
<1> QED
  BY <1>6 DEF F

\* There are sums over every finite set.
LEMMA SumExists ==
    ASSUME NEW D, IsFiniteSet(D), NEW f, \A x \in D : f[x] \in Nat
    PROVE  \E F : SumsOf(F, f, D)
<1> DEFINE S == {n \in Nat : \A E \in SUBSET D : Cardinality(E) = n => \E F : SumsOf(F, f, E)}
<1>1. \A E \in SUBSET D : IsFiniteSet(E) /\ Cardinality(E) \in Nat
  BY FS_Subset, FS_CardinalityType
<1>2. 0 \in S
  <2> SUFFICES ASSUME NEW E \in SUBSET D, Cardinality(E) = 0
               PROVE  \E F : SumsOf(F, f, E)
    OBVIOUS
  <2>1. E = {}
    BY <1>1, FS_EmptySet
  <2> DEFINE F == [s \in SUBSET E |-> 0]
  <2>2. SumsOf(F, f, E)
    BY <2>1 DEF SumsOf
  <2> QED
    BY <2>2, Zenon
<1>3. ASSUME NEW n \in Nat, n \in S
      PROVE  n + 1 \in S
  <2> SUFFICES ASSUME NEW E \in SUBSET D, Cardinality(E) = n + 1
               PROVE  \E F : SumsOf(F, f, E)
    OBVIOUS
  <2>1. E # {}
    BY <1>1, FS_EmptySet
  <2>2. PICK a \in E : TRUE
    BY <2>1
  <2>3. E \ {a} \in SUBSET D /\ Cardinality(E \ {a}) = n
    <3>1. Cardinality(E \ {a}) = Cardinality(E) - 1
      BY <1>1, FS_RemoveElement
    <3> QED
      BY <3>1
  <2>4. PICK G : SumsOf(G, f, E \ {a})
    BY <1>3, <2>3
  <2>5. a \in E /\ \A x \in E : f[x] \in Nat
    OBVIOUS
  <2> HIDE DEF S
  <2> QED
    BY <2>4, <2>5, SumAdded, Zenon
<1> HIDE DEF S
<1>4. \A n \in Nat : n \in S
  BY <1>2, <1>3, NumbersIn
<1>5. Cardinality(D) \in S /\ D \in SUBSET D
  BY <1>1, <1>4
<1> QED
  BY <1>5 DEF S

\* Sums of what is alike are alike.
LEMMA SumAlike ==
    ASSUME NEW D, IsFiniteSet(D), NEW f, NEW F, NEW g, NEW G, NEW E, NEW C,
           D \subseteq E, D \subseteq C, SumsByChoice(F, f, E), SumsOf(G, g, C),
           \A x \in D : f[x] = g[x]
    PROVE  \A s \in SUBSET D : F[s] = G[s]
<1> DEFINE S == {n \in Nat : \A s \in SUBSET D : Cardinality(s) = n => F[s] = G[s]}
<1>1. \A s \in SUBSET D : IsFiniteSet(s) /\ Cardinality(s) \in Nat
  BY FS_Subset, FS_CardinalityType
<1>2. F[{}] = G[{}]
  BY DEF SumsByChoice, SumsOf
<1>3. 0 \in S
  <2> SUFFICES ASSUME NEW s \in SUBSET D, Cardinality(s) = 0
               PROVE  F[s] = G[s]
    OBVIOUS
  <2>1. s = {}
    BY <1>1, FS_EmptySet
  <2> QED
    BY <1>2, <2>1, Zenon
<1>4. ASSUME NEW n \in Nat, n \in S
      PROVE  n + 1 \in S
  <2> SUFFICES ASSUME NEW s \in SUBSET D, Cardinality(s) = n + 1
               PROVE  F[s] = G[s]
    OBVIOUS
  <2>1. s # {} /\ s \in SUBSET E /\ s \in SUBSET C
    BY <1>1, FS_EmptySet
  <2>2. PICK a \in s : F[s] = f[a] + F[s \ {a}]
    BY <2>1, Zenon DEF SumsByChoice
  <2>3. s \ {a} \in SUBSET D /\ Cardinality(s \ {a}) = n
    <3>1. Cardinality(s \ {a}) = Cardinality(s) - 1
      BY <1>1, FS_RemoveElement
    <3> QED
      BY <3>1
  <2>4. F[s \ {a}] = G[s \ {a}]
    BY <1>4, <2>3
  <2>5. G[s] = g[a] + G[s \ {a}]
    BY <2>1, Zenon DEF SumsOf
  <2>6. f[a] = g[a]
    OBVIOUS
  <2> QED
    BY <2>2, <2>4, <2>5, <2>6, Zenon
<1> HIDE DEF S
<1>5. \A n \in Nat : n \in S
  BY <1>3, <1>4, NumbersIn
<1> SUFFICES ASSUME NEW s \in SUBSET D
             PROVE  F[s] = G[s]
  OBVIOUS
<1>6. Cardinality(s) \in S
  BY <1>1, <1>5
<1> QED
  BY <1>6 DEF S

\* What MapThenSumSet chooses, takes out the members in an order of its own.
SumsByPick(F, f, D) ==
    \A s \in SUBSET D :
       F[s] = IF s = {} THEN 0
              ELSE f[CHOOSE x \in s : TRUE] + F[s \ {CHOOSE x \in s : TRUE}]

\* There is one that takes the summands in the order they are chosen in,
LEMMA SumFixed ==
    ASSUME NEW D, IsFiniteSet(D), NEW f, \A x \in D : f[x] \in Nat
    PROVE  \E G : G = [s \in SUBSET D |-> G[s]] /\ SumsByPick(G, f, D)
<1>1. PICK F : SumsOf(F, f, D)
  BY SumExists
<1> DEFINE G == [s \in SUBSET D |-> F[s]]
<1>2. \A s \in SUBSET D : s # {} => /\ (CHOOSE x \in s : TRUE) \in s
                                     /\ s \ {CHOOSE x \in s : TRUE} \in SUBSET D
  OBVIOUS
<1>3. \A s \in SUBSET D : s # {} =>
         F[s] = f[CHOOSE x \in s : TRUE] + F[s \ {CHOOSE x \in s : TRUE}]
  BY <1>1, <1>2, Zenon DEF SumsOf
<1>4. F[{}] = 0
  BY <1>1 DEF SumsOf
<1>5. \A s \in SUBSET D : G[s] = IF s = {} THEN 0
                        ELSE f[CHOOSE x \in s : TRUE] + G[s \ {CHOOSE x \in s : TRUE}]
  BY <1>2, <1>3, <1>4, Zenon
<1>6. G = [s \in SUBSET D |-> G[s]]
  OBVIOUS
<1> HIDE DEF G
<1>7. SumsByPick(G, f, D)
  BY <1>5, Zenon DEF SumsByPick
<1> QED
  BY <1>6, <1>7, Zenon

\* and what takes them in that order is a sum.
LEMMA SumChosen ==
    ASSUME NEW D, IsFiniteSet(D), NEW f, \A x \in D : f[x] \in Nat, NEW F,
           SumsByPick(F, f, D)
    PROVE  SumsOf(F, f, D)
<1>1. PICK G : SumsOf(G, f, D)
  BY SumExists
<1>2. \A s \in SUBSET D : F[s] = IF s = {} THEN 0
                        ELSE f[CHOOSE x \in s : TRUE] + F[s \ {CHOOSE x \in s : TRUE}]
  BY Zenon DEF SumsByPick
<1>3. SumsByChoice(F, f, D)
  <2>1. F[{}] = 0
    <3>1. {} \in SUBSET D
      OBVIOUS
    <3> QED
      BY <1>2, <3>1, Zenon
  <2>2. \A s \in SUBSET D : s # {} => (CHOOSE x \in s : TRUE) \in s
    OBVIOUS
  <2>3. \A s \in SUBSET D : s # {} => \E x \in s : F[s] = f[x] + F[s \ {x}]
    BY <1>2, <2>2, Zenon
  <2> QED
    BY <2>1, <2>3 DEF SumsByChoice
<1>4. \A s \in SUBSET D : F[s] = G[s]
  <2>1. D \subseteq D /\ \A x \in D : f[x] = f[x]
    OBVIOUS
  <2> QED
    BY <1>1, <1>3, <2>1, SumAlike
<1>5. \A s \in SUBSET D : \A x \in s : s \ {x} \in SUBSET D
  OBVIOUS
<1>6. \A s \in SUBSET D : G[s] \in Nat /\ \A x \in s : G[s] = f[x] + G[s \ {x}]
  BY <1>1, Zenon DEF SumsOf
<1>7. \A s \in SUBSET D : F[s] \in Nat /\ \A x \in s : F[s] = f[x] + F[s \ {x}]
  BY <1>4, <1>5, <1>6, Zenon
<1>8. F[{}] = 0
  BY <1>3 DEF SumsByChoice
<1> QED
  BY <1>7, <1>8 DEF SumsOf

\* SumOf is a sum of a field,
LEMMA SumOfIs ==
    ASSUME NEW groups, IsFiniteSet(DOMAIN groups), NEW field,
           \A x \in DOMAIN groups : groups[x][field] \in Nat
    PROVE  \E F : /\ SumsOf(F, [x \in DOMAIN groups |-> groups[x][field]], DOMAIN groups)
                  /\ SumOf(groups, field) = F[DOMAIN groups]
<1> DEFINE D == DOMAIN groups
           f == [x \in D |-> groups[x][field]]
           Body(G) == [s \in SUBSET D |->
                         IF s = {} THEN 0
                         ELSE groups[CHOOSE x \in s : TRUE][field]
                                + G[s \ {CHOOSE x \in s : TRUE}]]
           F == CHOOSE G : G = Body(G)
<1>1. SumOf(groups, field) = F[D]
  BY Zenon DEF SumOf, MapThenSumSet, MapThenFoldSet
<1>2. \A x \in D : f[x] = groups[x][field]
  OBVIOUS
<1>3. \A x \in D : f[x] \in Nat
  OBVIOUS
<1> HIDE DEF f
<1>4. \A s \in SUBSET D : s # {} =>
           groups[CHOOSE x \in s : TRUE][field] = f[CHOOSE x \in s : TRUE]
  <2> HIDE DEF D
  <2>1. \A s \in SUBSET D : s # {} => (CHOOSE x \in s : TRUE) \in D
    OBVIOUS
  <2> QED
    BY <1>2, <2>1, Zenon
<1> HIDE DEF D
<1>5. PICK G : G = [s \in SUBSET D |-> G[s]] /\ SumsByPick(G, f, D)
  BY <1>3, SumFixed DEF D
<1>6. G = Body(G)
  <2>1. \A s \in SUBSET D :
           G[s] = IF s = {} THEN 0
                  ELSE groups[CHOOSE x \in s : TRUE][field] + G[s \ {CHOOSE x \in s : TRUE}]
    BY <1>4, <1>5, Zenon DEF SumsByPick
  <2> QED
    BY <1>5, <2>1, Zenon
<1> HIDE DEF Body
<1>7. F = Body(F)
  BY <1>6, Zenon
<1> HIDE DEF F
<1>8. SumsByPick(F, f, D)
  <2>1. \A s \in SUBSET D :
           F[s] = IF s = {} THEN 0
                  ELSE groups[CHOOSE x \in s : TRUE][field] + F[s \ {CHOOSE x \in s : TRUE}]
    BY <1>7, Zenon DEF Body
  <2> QED
    BY <1>4, <2>1, Zenon DEF SumsByPick
<1>9. SumsOf(F, f, D)
  BY <1>3, <1>8, SumChosen DEF D
<1> QED
  BY <1>1, <1>9, Zenon DEF D, f

\* and CountWhere one of the counts of some groups.
LEMMA CountWhereIs ==
    ASSUME NEW groups, IsFiniteSet(DOMAIN groups), NEW flag,
           \A x \in DOMAIN groups : groups[x].count \in Nat
    PROVE  \E F : /\ SumsOf(F, [x \in DOMAIN groups |-> groups[x].count],
                            {x \in DOMAIN groups : x[flag]})
                  /\ CountWhere(groups, flag) = F[{x \in DOMAIN groups : x[flag]}]
<1> DEFINE D == {x \in DOMAIN groups : x[flag]}
           f == [x \in DOMAIN groups |-> groups[x].count]
           Body(G) == [s \in SUBSET D |->
                         IF s = {} THEN 0
                         ELSE groups[CHOOSE x \in s : TRUE].count
                                + G[s \ {CHOOSE x \in s : TRUE}]]
           F == CHOOSE G : G = Body(G)
<1>1. CountWhere(groups, flag) = F[D]
  BY Zenon DEF CountWhere, MapThenSumSet, MapThenFoldSet
<1>2. \A x \in D : f[x] = groups[x].count
  OBVIOUS
<1>3. \A x \in D : f[x] \in Nat
  OBVIOUS
<1>10. IsFiniteSet(D)
  <2>1. D \in SUBSET (DOMAIN groups)
    OBVIOUS
  <2> HIDE DEF D
  <2> QED
    BY <2>1, FS_Subset
<1> HIDE DEF f
<1>4. \A s \in SUBSET D : s # {} =>
           groups[CHOOSE x \in s : TRUE].count = f[CHOOSE x \in s : TRUE]
  <2> HIDE DEF D
  <2>1. \A s \in SUBSET D : s # {} => (CHOOSE x \in s : TRUE) \in D
    OBVIOUS
  <2> QED
    BY <1>2, <2>1, Zenon
<1> HIDE DEF D
<1>5. PICK G : G = [s \in SUBSET D |-> G[s]] /\ SumsByPick(G, f, D)
  BY <1>3, <1>10, SumFixed
<1>6. G = Body(G)
  <2>1. \A s \in SUBSET D :
           G[s] = IF s = {} THEN 0
                  ELSE groups[CHOOSE x \in s : TRUE].count + G[s \ {CHOOSE x \in s : TRUE}]
    BY <1>4, <1>5, Zenon DEF SumsByPick
  <2> QED
    BY <1>5, <2>1, Zenon
<1> HIDE DEF Body
<1>7. F = Body(F)
  BY <1>6, Zenon
<1> HIDE DEF F
<1>8. SumsByPick(F, f, D)
  <2>1. \A s \in SUBSET D :
           F[s] = IF s = {} THEN 0
                  ELSE groups[CHOOSE x \in s : TRUE].count + F[s \ {CHOOSE x \in s : TRUE}]
    BY <1>7, Zenon DEF Body
  <2> QED
    BY <1>4, <2>1, Zenon DEF SumsByPick
<1>9. SumsOf(F, f, D)
  BY <1>3, <1>8, <1>10, SumChosen
<1> QED
  BY <1>1, <1>9, Zenon DEF D, f

\* Summands that agree, but perhaps at one place.
AlikeApart(f, h, D, a) == \A x \in D \ {a} : f[x] = h[x]

\* What sums say that differ by the summand at one place.
SumGrew(f, F, D, h, H, E, a) ==
    \E r \in Nat : /\ H[E] = h[a] + r
                   /\ a \in D => F[D] = f[a] + r
                   /\ a \notin D => F[D] = r

\* One summand is changed or added: all others add up to the same.
LEMMA SumChanged ==
    ASSUME NEW D, IsFiniteSet(D), NEW f, NEW F, SumsOf(F, f, D), NEW a, NEW E, E = D \cup {a},
           NEW h, NEW H, SumsOf(H, h, E), AlikeApart(f, h, D, a)
    PROVE  SumGrew(f, F, D, h, H, E, a)
<1> DEFINE B == D \ {a}
<1>1. B \in SUBSET D /\ B \in SUBSET E /\ D \in SUBSET D /\ E \in SUBSET E /\ a \in E
      /\ B \subseteq D /\ B \subseteq E
  OBVIOUS
<1>2. IsFiniteSet(B)
  BY FS_RemoveElement
<1>3. E \ {a} = B /\ (a \notin D => D = B)
  OBVIOUS
<1>4. \A x \in B : f[x] = h[x]
  BY DEF AlikeApart
<1>5. SumsByChoice(F, f, D)
  BY Zenon DEF SumsByChoice, SumsOf
<1>6. F[B] \in Nat /\ (a \in D => F[D] = f[a] + F[D \ {a}])
  BY <1>1, Zenon DEF SumsOf
<1>7. H[E] = h[a] + H[E \ {a}]
  BY <1>1, Zenon DEF SumsOf
<1> HIDE DEF B
<1>8. F[B] = H[B]
  <2>1. \A s \in SUBSET B : F[s] = H[s]
    BY <1>1, <1>2, <1>4, <1>5, SumAlike
  <2> QED
    BY <2>1
<1>9. H[E] = h[a] + F[B] /\ (a \in D => F[D] = f[a] + F[B]) /\ (a \notin D => F[D] = F[B])
  BY <1>3, <1>6, <1>7, <1>8, Zenon DEF B
<1> QED
  BY <1>6, <1>9, Zenon DEF SumGrew

\* Summands that are not changed add up to the same.
LEMMA SumSame ==
    ASSUME NEW D, IsFiniteSet(D), NEW f, NEW F, SumsOf(F, f, D),
           NEW h, NEW H, SumsOf(H, h, D), \A x \in D : f[x] = h[x]
    PROVE  H[D] = F[D]
<1>1. SumsByChoice(F, f, D)
  BY Zenon DEF SumsByChoice, SumsOf
<1>2. \A s \in SUBSET D : F[s] = H[s]
  <2>1. D \subseteq D
    OBVIOUS
  <2> QED
    BY <1>1, <2>1, SumAlike
<1> QED
  BY <1>2

\* There is at least one size.
LEMMA WordsAre == Word \in Nat /\ Word >= 1
  BY ManifestsAssumption

\* Division leaves a remainder.
LEMMA RemainderOf ==
    ASSUME NEW x \in Nat, NEW b \in Nat, b >= 1
    PROVE  \E r \in 0 .. b - 1, q \in Nat : r = x % b /\ x = r + b * q
<1>1. PICK q \in Nat, r \in 0 .. b - 1 : q = x \div b /\ r = x % b /\ x = r + b * q
  OBVIOUS
<1> QED
  BY <1>1

\* A size has one remainder, whatever the multiple of Word before it.
LEMMA OneRemainder ==
    ASSUME NEW x \in Nat
    PROVE  /\ x % Word \in 0 .. Word - 1
           /\ \E q \in Nat : x = (x % Word) + Word * q
           /\ \A r \in 0 .. Word - 1, q \in Nat : x = r + Word * q => x % Word = r
<1> PICK b \in Nat : b = Word /\ b >= 1
  BY WordsAre
<1>1. PICK p \in Nat, r \in 0 .. b - 1 : r = x % b /\ x = r + b * p
  OBVIOUS
<1>2. ASSUME NEW s \in 0 .. b - 1, NEW q \in Nat, x = s + b * q
      PROVE  s = r
  <2>1. \A i, j \in Nat : i < j => b * j >= b * i + b
    <3> TAKE i, j \in Nat
    <3> SUFFICES ASSUME i < j PROVE b * j >= b * i + b
      OBVIOUS
    <3>1. PICK k \in Nat : j = i + 1 + k
      <4>1. j - (i + 1) \in Nat /\ j = i + 1 + (j - (i + 1))
        OBVIOUS
      <4> QED
        BY <4>1
    <3>2. b * j = b * i + b + b * k /\ b * k >= 0 /\ b * i \in Nat
      BY <3>1
    <3> QED
      BY <3>2
  <2>2. PICK u \in Nat, v \in Nat : u = b * q /\ v = b * p
    OBVIOUS
  <2>3. x = r + v /\ x = s + u
    BY <1>1, <1>2, <2>2, Zenon
  <2>4. ~(p < q)
    <3>1. p < q => u >= v + b
      BY <2>1, <2>2
    <3> QED
      BY <2>3, <3>1
  <2>5. ~(q < p)
    <3>1. q < p => v >= u + b
      BY <2>1, <2>2
    <3> QED
      BY <2>3, <3>1
  <2>6. p = q
    BY <2>4, <2>5
  <2>7. u = v
    BY <2>2, <2>6, Zenon
  <2> QED
    BY <2>3, <2>7
<1> QED
  BY <1>1, <1>2

\* Remainders add up.
LEMMA RemainderAdded ==
    ASSUME NEW x \in Nat, NEW y \in Nat
    PROVE  ((x % Word) + y) % Word = (x + y) % Word
<1> PICK b \in Nat : b = Word /\ b >= 1
  BY WordsAre
<1>0. \A z \in Nat : \E r \in 0 .. b - 1, q \in Nat : r = z % b /\ z = r + b * q
  <2> TAKE z \in Nat
  <2> QED
    BY RemainderOf
<1>1. PICK r \in 0 .. b - 1, q \in Nat : r = x % b /\ x = r + b * q
  BY <1>0
<1>2. PICK s \in 0 .. b - 1, p \in Nat : s = (r + y) % b /\ r + y = s + b * p
  <2>1. r + y \in Nat
    OBVIOUS
  <2> QED
    BY <1>0, <2>1
<1>3. q + p \in Nat /\ b * (q + p) = b * q + b * p /\ b * q \in Nat /\ b * p \in Nat
  OBVIOUS
<1>4. x + y \in Nat /\ x + y = s + b * (q + p)
  BY <1>1, <1>2, <1>3
<1>5. (x + y) % Word = s
  <2>1. \A z \in Nat : \A t \in 0 .. Word - 1, k \in Nat : z = t + Word * k => z % Word = t
    BY OneRemainder
  <2> QED
    BY <1>3, <1>4, <2>1, Zenon
<1> QED
  BY <1>1, <1>2, <1>5

\* Sizes add up, as remainders.
LEMMA SizesAdded ==
    ASSUME NEW x \in Nat, NEW y \in Nat, NEW r \in Nat
    PROVE  /\ AddSize(x % Word, y) = (x + y) % Word
           /\ (AddSize(x, y) + r) % Word = AddSize((x + r) % Word, y)
           /\ r % Word = AddSize(0, r)
<1>1. AddSize(x % Word, y) = (x + y) % Word
  BY RemainderAdded DEF AddSize
<1>2. x + y \in Nat /\ x + r \in Nat
  OBVIOUS
<1>3. (((x + y) % Word) + r) % Word = ((x + y) + r) % Word
  BY <1>2, RemainderAdded
<1>4. (((x + r) % Word) + y) % Word = ((x + r) + y) % Word
  BY <1>2, RemainderAdded
<1>5. (x + y) + r = (x + r) + y /\ 0 + r = r
  OBVIOUS
<1> QED
  BY <1>1, <1>3, <1>4, <1>5, Zenon DEF AddSize

\* A third size is added to the sum of two, or to either of them first.
LEMMA SizesSwapped ==
    ASSUME NEW x \in Nat, NEW y \in Nat, NEW r \in Nat
    PROVE  /\ AddSize(AddSize(x, y), r) = AddSize(AddSize(x, r), y)
           /\ AddSize(r, AddSize(x, y)) = AddSize(AddSize(r, x), y)
<1>1. (AddSize(x, y) + r) % Word = AddSize((x + r) % Word, y)
  BY SizesAdded, Zenon
<1>2. AddSize(AddSize(x, y), r) = AddSize(AddSize(x, r), y)
  BY <1>1, Zenon DEF AddSize
<1>3. AddSize(x, y) \in Nat
  <2>1. AddSize(x, y) \in Size
    BY AddSizeIs
  <2>2. \A z \in Size : z \in Nat
    BY DEF Size
  <2> QED
    BY <2>1, <2>2, Zenon
<1>4. AddSize(x, y) + r = r + AddSize(x, y) /\ x + r = r + x
  BY <1>3
<1>5. AddSize(r, AddSize(x, y)) = AddSize(AddSize(r, x), y)
  <2>1. (r + AddSize(x, y)) % Word = AddSize((r + x) % Word, y)
    BY <1>1, <1>4, Zenon
  <2> QED
    BY <2>1, Zenon DEF AddSize
<1> QED
  BY <1>2, <1>5

\* The sum over one group's tallies, with an entry counted in one of them.
LEMMA SumsWith ==
    ASSUME NEW groups, IsFiniteSet(DOMAIN groups),
           \A x \in DOMAIN groups : groups[x] \in Tally, NEW g, NEW m,
           m.packed \in Size, m.original \in Size
    PROVE  LET with == WithEntry(groups, g, m) IN
           /\ IsFiniteSet(DOMAIN with)
           /\ \A field \in {"count", "packed", "original"} : SumOf(groups, field) \in Nat
           /\ SumOf(with, "count") = SumOf(groups, "count") + 1
           /\ SumOf(with, "packed") % Word = AddSize(SumOf(groups, "packed") % Word, m.packed)
           /\ SumOf(with, "original") % Word
                = AddSize(SumOf(groups, "original") % Word, m.original)
<1> DEFINE with == WithEntry(groups, g, m)
           D == DOMAIN groups
           E == DOMAIN with
           old == IF g \in D THEN groups[g] ELSE NoTally
<1>1. /\ E = D \cup {g} /\ with[g] = Added(old, m)
      /\ \A x \in D \ {g} : with[x] = groups[x]
  <2>1. /\ E = D \cup {g} /\ (g \in D => with[g] = Added(groups[g], m))
        /\ (g \notin D => with[g] = Added(NoTally, m))
        /\ \A x \in D : x # g => with[x] = groups[x]
    BY Zenon DEF WithEntry
  <2> HIDE DEF with, D, E
  <2>2. with[g] = Added(old, m)
    BY <2>1, Zenon
  <2> QED
    BY <2>1, <2>2
<1>2. IsFiniteSet(E)
  BY <1>1, FS_AddElement
<1>3. \A x \in E : with[x] \in Tally
  BY TalliesWith
<1>4. old \in Tally
  BY NoTallyIs
<1>5. /\ with[g].count = old.count + 1 /\ with[g].packed = AddSize(old.packed, m.packed)
      /\ with[g].original = AddSize(old.original, m.original)
  BY <1>1 DEF Added
<1> HIDE DEF with
<1>6. \A field \in {"count", "packed", "original"} :
         /\ \A x \in D : groups[x][field] \in Nat
         /\ \A x \in E : with[x][field] \in Nat
         /\ old[field] \in Nat
  <2>1. \A t \in Tally, field \in {"count", "packed", "original"} : t[field] \in Nat
    <3> TAKE t \in Tally, field \in {"count", "packed", "original"}
    <3>1. t.count \in Nat /\ t.packed \in Nat /\ t.original \in Nat
      BY DEF Tally, Size
    <3> QED
      BY <3>1
  <2> QED
    BY <1>3, <1>4, <2>1
<1>7. ASSUME NEW field \in {"count", "packed", "original"}
      PROVE  \E r \in Nat : /\ SumOf(with, field) = with[g][field] + r
                            /\ SumOf(groups, field) = old[field] + r
  <2> DEFINE f == [x \in D |-> groups[x][field]]
             h == [x \in E |-> with[x][field]]
  <2>1. PICK F : SumsOf(F, f, D) /\ SumOf(groups, field) = F[D]
    BY <1>6, SumOfIs
  <2>2. PICK H : SumsOf(H, h, E) /\ SumOf(with, field) = H[E]
    BY <1>2, <1>6, SumOfIs
  <2>3. \A x \in D \ {g} : f[x] = h[x]
    BY <1>1
  <2>4. g \in E /\ h[g] = with[g][field] /\ (g \in D => f[g] = groups[g][field])
    BY <1>1
  <2> HIDE DEF f, h
  <2>5. PICK r \in Nat : /\ H[E] = h[g] + r
                         /\ g \in D => F[D] = f[g] + r
                         /\ g \notin D => F[D] = r
    <3>1. IsFiniteSet(D)
      OBVIOUS
    <3>2. E = D \cup {g}
      BY <1>1
    <3> HIDE DEF D, E
    <3>3. SumsOf(F, f, D) /\ SumsOf(H, h, E)
      BY <2>1, <2>2
    <3>4. AlikeApart(f, h, D, g)
      BY <2>3, Zenon DEF AlikeApart
    <3>5. SumGrew(f, F, D, h, H, E, g)
      BY <3>1, <3>2, <3>3, <3>4, SumChanged, Zenon
    <3> QED
      BY <3>5, Zenon DEF SumGrew
  <2>6. g \notin D => old[field] = 0
    BY DEF NoTally
  <2>7. g \in D => old[field] = groups[g][field]
    OBVIOUS
  <2>8. SumOf(groups, field) = old[field] + r
    <3>1. CASE g \in D
      BY <2>1, <2>4, <2>5, <2>7, <3>1, Zenon
    <3>2. CASE g \notin D
      <4>1. F[D] = 0 + r
        BY <2>5, <3>2
      <4> QED
        BY <2>1, <2>6, <3>2, <4>1, Zenon
    <3> QED
      BY <3>1, <3>2
  <2>9. SumOf(with, field) = with[g][field] + r
    BY <2>2, <2>4, <2>5, Zenon
  <2> QED
    BY <2>8, <2>9
<1> HIDE DEF old, D, E
<1>8. SumOf(with, "count") = SumOf(groups, "count") + 1
  <2>1. PICK r \in Nat : /\ SumOf(with, "count") = with[g].count + r
                         /\ SumOf(groups, "count") = old.count + r
    BY <1>7
  <2>2. old.count \in Nat
    BY <1>6
  <2> QED
    BY <1>5, <2>1, <2>2
<1>9. SumOf(with, "packed") % Word = AddSize(SumOf(groups, "packed") % Word, m.packed)
  <2>1. PICK r \in Nat : /\ SumOf(with, "packed") = with[g].packed + r
                         /\ SumOf(groups, "packed") = old.packed + r
    BY <1>7
  <2>2. old.packed \in Nat /\ m.packed \in Nat
    BY <1>6 DEF Size
  <2>3. (AddSize(old.packed, m.packed) + r) % Word = AddSize((old.packed + r) % Word, m.packed)
    BY <2>2, SizesAdded
  <2> QED
    BY <1>5, <2>1, <2>3, Zenon
<1>10. SumOf(with, "original") % Word = AddSize(SumOf(groups, "original") % Word, m.original)
  <2>1. PICK r \in Nat : /\ SumOf(with, "original") = with[g].original + r
                         /\ SumOf(groups, "original") = old.original + r
    BY <1>7
  <2>2. old.original \in Nat /\ m.original \in Nat
    BY <1>6 DEF Size
  <2>3. (AddSize(old.original, m.original) + r) % Word
          = AddSize((old.original + r) % Word, m.original)
    BY <2>2, SizesAdded
  <2> QED
    BY <1>5, <2>1, <2>3, Zenon
<1>11. \A field \in {"count", "packed", "original"} : SumOf(groups, field) \in Nat
  <2> TAKE field \in {"count", "packed", "original"}
  <2>1. PICK r \in Nat : SumOf(groups, field) = old[field] + r
    BY <1>7
  <2>2. old[field] \in Nat
    BY <1>6
  <2> QED
    BY <2>1, <2>2
<1> QED
  BY <1>2, <1>8, <1>9, <1>10, <1>11 DEF with, E

\* One entry more in a breakdown: the count of the groups with a flag.
LEMMA CountsWith ==
    ASSUME NEW groups, IsFiniteSet(DOMAIN groups),
           \A x \in DOMAIN groups : groups[x] \in Tally, NEW g, NEW m,
           m.packed \in Size, m.original \in Size, NEW flag, g[flag] \in BOOLEAN
    PROVE  /\ CountWhere(groups, flag) \in Nat
           /\ CountWhere(WithEntry(groups, g, m), flag)
                = CountWhere(groups, flag) + IF g[flag] THEN 1 ELSE 0
<1> DEFINE with == WithEntry(groups, g, m)
           A == DOMAIN groups
           B == DOMAIN with
           D == {x \in A : x[flag]}
           E == {x \in B : x[flag]}
           f == [x \in A |-> groups[x].count]
           h == [x \in B |-> with[x].count]
           old == IF g \in A THEN groups[g] ELSE NoTally
<1>1. /\ B = A \cup {g} /\ with[g] = Added(old, m)
      /\ \A x \in A \ {g} : with[x] = groups[x]
  <2>1. /\ B = A \cup {g} /\ (g \in A => with[g] = Added(groups[g], m))
        /\ (g \notin A => with[g] = Added(NoTally, m))
        /\ \A x \in A : x # g => with[x] = groups[x]
    BY Zenon DEF WithEntry
  <2> HIDE DEF with, A, B
  <2>2. with[g] = Added(old, m)
    BY <2>1, Zenon
  <2> QED
    BY <2>1, <2>2
<1>2. IsFiniteSet(B)
  BY <1>1, FS_AddElement
<1>3. \A x \in B : with[x] \in Tally
  BY TalliesWith
<1>4. old \in Tally
  BY NoTallyIs
<1>5. with[g].count = old.count + 1 /\ old.count \in Nat
  BY <1>1, <1>4 DEF Added, Tally
<1>6. (\A x \in A : groups[x].count \in Nat) /\ \A x \in B : with[x].count \in Nat
  BY <1>3 DEF Tally
<1> HIDE DEF with
<1>7. PICK F : SumsOf(F, f, D) /\ CountWhere(groups, flag) = F[D]
  BY <1>6, CountWhereIs
<1>8. PICK H : SumsOf(H, h, E) /\ CountWhere(with, flag) = H[E]
  BY <1>2, <1>6, CountWhereIs
<1>9. IsFiniteSet(D)
  <2>1. D \in SUBSET A
    OBVIOUS
  <2> HIDE DEF D
  <2> QED
    BY <2>1, FS_Subset
<1>10. \A x \in A \ {g} : f[x] = h[x]
  BY <1>1
<1>11. h[g] = with[g].count /\ (g \in A => f[g] = groups[g].count)
  BY <1>1
<1>12. F[D] \in Nat
  <2>1. D \in SUBSET D
    OBVIOUS
  <2> HIDE DEF D
  <2> QED
    BY <1>7, <2>1, Zenon DEF SumsOf
<1>13. CASE g[flag]
  <2>1. E = D \cup {g} /\ (g \in D <=> g \in A) /\ \A x \in D \ {g} : x \in A \ {g}
    BY <1>1, <1>13
  <2> HIDE DEF D, E, f, h
  <2>2. AlikeApart(f, h, D, g)
    BY <1>10, <2>1 DEF AlikeApart
  <2>3. PICK r \in Nat : /\ H[E] = h[g] + r
                         /\ g \in D => F[D] = f[g] + r
                         /\ g \notin D => F[D] = r
    <3>1. E = D \cup {g} /\ SumsOf(F, f, D) /\ SumsOf(H, h, E)
      BY <1>7, <1>8, <2>1
    <3>2. SumGrew(f, F, D, h, H, E, g)
      BY <1>9, <2>2, <3>1, SumChanged, Zenon
    <3> QED
      BY <3>2, Zenon DEF SumGrew
  <2>4. F[D] = old.count + r
    <3>1. CASE g \in A
      BY <1>11, <2>1, <2>3, <3>1
    <3>2. CASE g \notin A
      <4>1. old.count = 0
        BY <3>2 DEF NoTally
      <4> QED
        BY <2>1, <2>3, <3>2, <4>1
    <3> QED
      BY <3>1, <3>2
  <2>5. H[E] = F[D] + 1
    BY <1>5, <1>11, <2>3, <2>4
  <2> QED
    BY <1>7, <1>8, <1>12, <1>13, <2>5 DEF with
<1>14. CASE ~g[flag]
  <2>1. E = D /\ \A x \in D : x \in A \ {g}
    BY <1>1, <1>14
  <2> HIDE DEF D, E, f, h
  <2>2. \A x \in D : f[x] = h[x]
    BY <1>10, <2>1
  <2>3. H[D] = F[D]
    BY <1>7, <1>8, <1>9, <2>1, <2>2, SumSame
  <2> QED
    BY <1>7, <1>8, <1>12, <1>14, <2>1, <2>3 DEF with
<1> QED
  BY <1>13, <1>14

-----------------------------------------------------------------------------
(* Ratios.                                                                 *)

\* What ratios are compared as.
Fraction == [num : Nat, den : Nat \ {0}]

\* An entry's ratio is one.
LEMMA RatioIs ==
    ASSUME NEW m, m.packed \in Size, m.original \in Size
    PROVE  Ratio(m) \in Fraction
<1>1. m.packed \in Nat /\ m.original \in Nat
  BY DEF Size
<1> QED
  BY <1>1 DEF Ratio, Fraction

\* What is not above something that is not above a third is not above that.
LEMMA NotBelowFollows ==
    ASSUME NEW q \in Fraction, NEW r \in Fraction, NEW s \in Fraction,
           ~Below(q, s), ~Below(r, q)
    PROVE  ~Below(r, s)
<1> PICK a \in Nat, b \in Nat \ {0}, c \in Nat, d \in Nat \ {0}, e \in Nat, f \in Nat \ {0} :
         /\ a = q.num /\ b = q.den /\ c = r.num /\ d = r.den /\ e = s.num /\ f = s.den
  BY DEF Fraction
<1>1. ~(a * f < e * b) /\ ~(c * b < a * d)
  BY DEF Below
<1> SUFFICES ~(c * f < e * d)
  BY DEF Below
<1>2. a * f \in Nat /\ e * b \in Nat /\ c * b \in Nat /\ a * d \in Nat
      /\ c * f \in Nat /\ e * d \in Nat
  OBVIOUS
<1>3. \A x, y, z \in Nat : x <= y => x * z <= y * z
  <2> TAKE x, y, z \in Nat
  <2> SUFFICES ASSUME x <= y PROVE x * z <= y * z
    OBVIOUS
  <2>1. PICK k \in Nat : y = x + k
    <3>1. y - x \in Nat /\ y = x + (y - x)
      OBVIOUS
    <3> QED
      BY <3>1
  <2>2. y * z = x * z + k * z /\ k * z >= 0 /\ x * z \in Nat
    BY <2>1
  <2> QED
    BY <2>2
<1>4. e * b * d <= a * f * d
  BY <1>1, <1>2, <1>3
<1>5. a * d * f <= c * b * f
  BY <1>1, <1>2, <1>3
<1>6. a * f * d = a * d * f /\ e * b * d = e * d * b /\ c * b * f = c * f * b
  <2>1. \A x, y, z \in Nat : x * y * z = x * z * y
    <3> TAKE x, y, z \in Nat
    <3>1. y * z = z * y
      OBVIOUS
    <3>2. x * y * z = x * (y * z) /\ x * z * y = x * (z * y)
      OBVIOUS
    <3> QED
      BY <3>1, <3>2, Zenon
  <2>2. d \in Nat /\ b \in Nat /\ f \in Nat
    OBVIOUS
  <2>3. a * f * d = a * d * f
    BY <2>1, <2>2
  <2>4. e * b * d = e * d * b
    BY <2>1, <2>2
  <2>5. c * b * f = c * f * b
    BY <2>1, <2>2
  <2> QED
    BY <2>3, <2>4, <2>5
<1>7. (e * d) * b <= (c * f) * b
  <2> PICK u \in Nat, v \in Nat, w \in Nat :
           u = e * d * b /\ v = c * f * b /\ w = a * f * d
    BY <1>2
  <2> QED
    BY <1>4, <1>5, <1>6
<1>8. \A x, y \in Nat : x < y => x * b < y * b
  <2> TAKE x, y \in Nat
  <2> SUFFICES ASSUME x < y PROVE x * b < y * b
    OBVIOUS
  <2>1. (x + 1) * b <= y * b /\ (x + 1) * b = x * b + b /\ x * b \in Nat /\ y * b \in Nat
    BY <1>3
  <2> QED
    BY <2>1
<1>9. c * f < e * d => (c * f) * b < (e * d) * b
  BY <1>2, <1>8
<1>10. (c * f) * b \in Nat /\ (e * d) * b \in Nat
  BY <1>2
<1> QED
  BY <1>7, <1>9, <1>10

\* Nothing is below itself, nor two below each other.
LEMMA BelowIsOneWay ==
    ASSUME NEW q \in Fraction, NEW r \in Fraction
    PROVE  ~Below(q, q) /\ (Below(q, r) => ~Below(r, q))
<1> PICK a \in Nat, b \in Nat, c \in Nat, d \in Nat :
         a = q.num /\ b = q.den /\ c = r.num /\ d = r.den
  BY DEF Fraction
<1>1. a * d \in Nat /\ c * b \in Nat /\ a * b \in Nat
  OBVIOUS
<1> QED
  BY <1>1 DEF Below

-----------------------------------------------------------------------------
(* What has been summarized.                                               *)

\* How many entries of the manifest are in the summaries.
Counted == IF phase = "summarize" THEN next - 1
           ELSE IF phase = "done" THEN Len(manifest) ELSE 0

\* Every breakdown adds up to the summary, the counts to each other.
SumsInv ==
    /\ \A b \in Breakdowns :
          /\ IsFiniteSet(DOMAIN breakdowns[b])
          /\ SumOf(breakdowns[b], "count") = stats.all.count
          /\ SumOf(breakdowns[b], "packed") % Word = stats.all.packed
          /\ SumOf(breakdowns[b], "original") % Word = stats.all.original
    /\ stats.compressed = compression.compressed.count
    /\ stats.compressed = CountWhere(breakdowns["flags"], "compressed")
    /\ stats.nested = CountWhere(breakdowns["flags"], "nested")
    /\ compression.compressed.count + compression.uncompressed.count = stats.all.count
    /\ AddSize(compression.compressed.original, compression.uncompressed.original)
         = stats.all.original
    /\ stats.max_depth \in DOMAIN breakdowns["depth"] \cup {0}

\* The best and the worst ratio among those of the first n entries.
BestOf(best, n) ==
    /\ best = 0 => \A j \in 1 .. n : ~manifest[j].compressed
    /\ best # 0 =>
          \E i \in 1 .. n :
             /\ manifest[i].id = best
             /\ \A j \in 1 .. n : manifest[j].compressed =>
                   ~Below(Ratio(manifest[i]), Ratio(manifest[j]))

\* The same, the other way round.
WorstOf(worst, n) ==
    /\ worst = 0 => \A j \in 1 .. n : ~manifest[j].compressed
    /\ worst # 0 =>
          \E i \in 1 .. n :
             /\ manifest[i].id = worst
             /\ \A j \in 1 .. n : manifest[j].compressed =>
                   ~Below(Ratio(manifest[j]), Ratio(manifest[i]))

\* The summary has the largest of the first n entries, and no depth is greater
\* than what it has.
LargestOf(s, n) ==
    /\ n = 0 => s.largest = 0
    /\ n # 0 => \E i \in 1 .. n : /\ manifest[i].id = s.largest_entry
                                  /\ manifest[i].original = s.largest
    /\ \A i \in 1 .. n : /\ manifest[i].depth <= s.max_depth
                         /\ manifest[i].original <= s.largest

\* What is singled out is the extreme of what has been summarized.
ExtremesInv ==
    /\ Counted \in 0 .. Len(manifest)
    /\ stats.all.count = Counted
    /\ LargestOf(stats, Counted)
    /\ BestOf(compression.best, Counted)
    /\ WorstOf(compression.worst, Counted)

\* What has no groups adds up to nothing.
LEMMA NoSums ==
    ASSUME NEW groups, DOMAIN groups = {}
    PROVE  /\ \A field \in {"count", "packed", "original"} : SumOf(groups, field) = 0
           /\ \A flag \in {"compressed", "nested"} : CountWhere(groups, flag) = 0
<1>1. IsFiniteSet(DOMAIN groups)
  BY FS_EmptySet
<1>2. ASSUME NEW field \in {"count", "packed", "original"}
      PROVE  SumOf(groups, field) = 0
  <2>1. \A x \in DOMAIN groups : groups[x][field] \in Nat
    OBVIOUS
  <2>2. PICK F : /\ SumsOf(F, [x \in DOMAIN groups |-> groups[x][field]], DOMAIN groups)
                 /\ SumOf(groups, field) = F[DOMAIN groups]
    BY <1>1, <2>1, SumOfIs
  <2> QED
    BY <2>2 DEF SumsOf
<1>3. ASSUME NEW flag \in {"compressed", "nested"}
      PROVE  CountWhere(groups, flag) = 0
  <2>1. \A x \in DOMAIN groups : groups[x].count \in Nat
    OBVIOUS
  <2>2. PICK F : /\ SumsOf(F, [x \in DOMAIN groups |-> groups[x].count],
                           {x \in DOMAIN groups : x[flag]})
                 /\ CountWhere(groups, flag) = F[{x \in DOMAIN groups : x[flag]}]
    BY <1>1, <2>1, CountWhereIs
  <2>3. {x \in DOMAIN groups : x[flag]} = {}
    OBVIOUS
  <2> QED
    BY <2>2, <2>3 DEF SumsOf
<1> QED
  BY <1>2, <1>3

\* Both hold before anything is summarized,
LEMMA SumsInit == Init => SumsInv /\ ExtremesInv
<1> SUFFICES ASSUME Init PROVE SumsInv /\ ExtremesInv
  OBVIOUS
<1>1. /\ phase = "inspect" /\ manifest = <<>> /\ stats = NoStats
      /\ compression = NoCompression /\ breakdowns = NoBreakdowns
  BY DEF Init
<1>2. \A b \in Breakdowns : DOMAIN breakdowns[b] = {}
  BY <1>1 DEF NoBreakdowns
<1>3. {"flags", "depth"} \subseteq Breakdowns
  BY DEF Breakdowns
<1>4. 0 % Word = 0
  <2>1. 0 \in Nat /\ 0 = 0 + Word * 0 /\ 0 \in 0 .. Word - 1
    BY WordsAre
  <2> QED
    BY <2>1, OneRemainder
<1>5. /\ stats.all = NoTally /\ stats.compressed = 0 /\ stats.nested = 0 /\ stats.max_depth = 0
      /\ stats.largest = 0 /\ compression.compressed = NoTally
      /\ compression.uncompressed.count = 0 /\ compression.uncompressed.original = 0
      /\ compression.best = 0 /\ compression.worst = 0
      /\ NoTally.count = 0 /\ NoTally.packed = 0 /\ NoTally.original = 0
  BY <1>1 DEF NoStats, NoCompression, NoTally
<1>6. AddSize(0, 0) = 0 /\ 0 + 0 = 0
  BY <1>4 DEF AddSize
<1>7. \A b \in Breakdowns :
          /\ IsFiniteSet(DOMAIN breakdowns[b])
          /\ SumOf(breakdowns[b], "count") = stats.all.count
          /\ SumOf(breakdowns[b], "packed") % Word = stats.all.packed
          /\ SumOf(breakdowns[b], "original") % Word = stats.all.original
  <2> TAKE b \in Breakdowns
  <2>1. SumOf(breakdowns[b], "count") = 0 /\ SumOf(breakdowns[b], "packed") = 0
        /\ SumOf(breakdowns[b], "original") = 0
    BY <1>2, NoSums
  <2> QED
    BY <1>2, <1>4, <1>5, <2>1, FS_EmptySet
<1>8. CountWhere(breakdowns["flags"], "compressed") = 0
      /\ CountWhere(breakdowns["flags"], "nested") = 0
  BY <1>2, <1>3, NoSums
<1>9. SumsInv
  BY <1>5, <1>6, <1>7, <1>8 DEF SumsInv
<1>10. Counted = 0 /\ Len(manifest) = 0 /\ Counted \in 0 .. Len(manifest)
  BY <1>1 DEF Counted
<1>11. 1 .. Counted = {}
  BY <1>10
<1>12. ExtremesInv
  BY <1>5, <1>10, <1>11 DEF ExtremesInv, LargestOf, BestOf, WorstOf
<1> QED
  BY <1>9, <1>12

\* and while nothing is.
LEMMA SummariesKept ==
    ASSUME SumsInv, ExtremesInv, UNCHANGED summaries, Counted' = Counted,
           UNCHANGED manifest \/ (Counted = 0 /\ Len(manifest') \in Nat)
    PROVE  SumsInv' /\ ExtremesInv'
<1>1. stats' = stats /\ compression' = compression /\ breakdowns' = breakdowns
  BY DEF summaries
<1>2. SumsInv'
  BY <1>1, Zenon DEF SumsInv
<1>3. CASE UNCHANGED manifest
  <2>1. LargestOf(stats, Counted)'
    BY <1>1, <1>3, Zenon DEF ExtremesInv, LargestOf
  <2>2. BestOf(compression.best, Counted)'
    BY <1>1, <1>3, Zenon DEF ExtremesInv, BestOf
  <2>3. WorstOf(compression.worst, Counted)'
    BY <1>1, <1>3, Zenon DEF ExtremesInv, WorstOf
  <2>4. Counted' \in 0 .. Len(manifest') /\ stats'.all.count = Counted'
    BY <1>1, <1>3, Zenon DEF ExtremesInv
  <2> QED
    BY <1>2, <2>1, <2>2, <2>3, <2>4, Zenon DEF ExtremesInv
<1>4. CASE Counted = 0 /\ Len(manifest') \in Nat
  <2>1. 1 .. Counted = {} /\ 1 .. Counted' = {} /\ Counted' = 0 /\ 0 \in 0 .. Len(manifest')
    BY <1>4
  <2>2. /\ stats.all.count = Counted /\ LargestOf(stats, Counted)
        /\ BestOf(compression.best, Counted) /\ WorstOf(compression.worst, Counted)
    BY Zenon DEF ExtremesInv
  <2>3. LargestOf(stats, Counted)'
    BY <1>1, <1>4, <2>1, <2>2 DEF LargestOf
  <2>4. BestOf(compression.best, Counted)'
    <3>1. compression.best = 0
      BY <1>4, <2>1, <2>2 DEF BestOf
    <3> QED
      BY <1>1, <2>1, <3>1 DEF BestOf
  <2>5. WorstOf(compression.worst, Counted)'
    <3>1. compression.worst = 0
      BY <1>4, <2>1, <2>2 DEF WorstOf
    <3> QED
      BY <1>1, <2>1, <3>1 DEF WorstOf
  <2> QED
    BY <1>1, <1>2, <1>4, <2>1, <2>2, <2>3, <2>4, <2>5, Zenon DEF ExtremesInv
<1> QED
  BY <1>2, <1>3, <1>4

\* No two listed entries have one id.
LEMMA ListedIs ==
    ASSUME PlaceInv, NEW i \in 1 .. Len(manifest)
    PROVE  Listed(manifest[i].id) = manifest[i]
<1>1. \A x, y \in ToSet(manifest) : x.id = y.id => x = y
  <2>1. \A p, q \in 1 .. Len(manifest) : manifest[p].id = manifest[q].id => p = q
    <3>1. Listing(manifest, archive, ListedTo)
      BY DEF PlaceInv
    <3> QED
      BY <3>1, GivenPlaces, PlaceInListing
  <2>2. ToSet(manifest) = {manifest[p] : p \in 1 .. Len(manifest)}
    BY GivenPlaces
  <2> QED
    BY <2>1, <2>2
<1>2. manifest[i] \in ToSet(manifest)
  BY GivenPlaces
<1> DEFINE x == Listed(manifest[i].id)
<1>3. x \in ToSet(manifest) /\ x.id = manifest[i].id
  BY <1>2, Zenon DEF Listed
<1> QED
  BY <1>1, <1>2, <1>3, Zenon

\* What the summary of one entry changes.
LEMMA SummarizeDoes ==
    ASSUME PlaceInv, TalliesInv, ExtremesInv, SummarizeEntry
    PROVE  \E m \in Descriptions(archive) :
              /\ m = manifest[next] /\ next \in 1 .. Len(manifest)
              /\ Counted = next - 1 /\ Counted' = next /\ manifest' = manifest
              /\ stats' = WithStats(stats, m)
              /\ compression' = WithCompression(compression, m)
              /\ \A b \in Breakdowns : breakdowns'[b] = WithEntry(breakdowns[b], Group(m)[b], m)
              /\ m.packed \in Size /\ m.original \in Size /\ m.id \in 1 .. Len(archive)
              /\ m.depth \in Nat /\ m.compressed \in BOOLEAN /\ m.nested \in BOOLEAN
<1>1. /\ At("summarize", manifest) /\ stats' = WithStats(stats, manifest[next])
      /\ compression' = WithCompression(compression, manifest[next])
      /\ breakdowns' = [b \in Breakdowns |->
                          WithEntry(breakdowns[b], Group(manifest[next])[b], manifest[next])]
      /\ manifest' = manifest
  BY DEF SummarizeEntry
<1>2. /\ next \in 1 .. Len(manifest) /\ manifest[next] \in Descriptions(archive)
      /\ phase = "summarize" /\ phase' = "summarize" /\ next' = next + 1
  BY <1>1, EntryAt
<1>3. PICK m \in Descriptions(archive) : m = manifest[next]
  BY <1>2
<1>4. /\ m.packed \in Size /\ m.original \in Size /\ m.id \in 1 .. Len(archive)
      /\ m.depth \in Nat /\ m.compressed \in BOOLEAN
      /\ m.nested = IsNested(archive[m.id])
  <2>1. m.depth \in 0 .. options.max_depth
    BY DescribedEntry
  <2> QED
    BY <2>1, DescribedEntry
<1>5. m.nested \in BOOLEAN
  BY <1>4 DEF IsNested
<1>6. Counted = next - 1 /\ Counted' = next
  BY <1>2 DEF Counted
<1>7. \A b \in Breakdowns : breakdowns'[b] = WithEntry(breakdowns[b], Group(m)[b], m)
  BY <1>1, <1>3, Zenon
<1> QED
  BY <1>1, <1>2, <1>3, <1>4, <1>5, <1>6, <1>7, Zenon

\* What the summaries keep are numbers.
LEMMA SummaryNumbers ==
    ASSUME TalliesInv
    PROVE  /\ stats.all.count \in Nat /\ stats.all.packed \in Nat /\ stats.all.original \in Nat
           /\ stats.compressed \in Nat /\ stats.nested \in Nat /\ stats.max_depth \in Nat
           /\ stats.largest \in Nat
           /\ compression.compressed.count \in Nat /\ compression.compressed.original \in Nat
           /\ compression.uncompressed.count \in Nat
           /\ compression.uncompressed.original \in Nat
           /\ compression.best \in Nat /\ compression.worst \in Nat
<1>1. stats \in StatsType /\ compression \in CompressionType
  BY DEF TalliesInv
<1>2. Size \subseteq Nat
  BY DEF Size
<1>3. \A t \in Tally : t.count \in Nat /\ t.packed \in Nat /\ t.original \in Nat
  BY <1>2 DEF Tally
<1>4. /\ stats.all \in Tally /\ stats.compressed \in Nat /\ stats.nested \in Nat
      /\ stats.max_depth \in Nat /\ stats.largest \in Nat
  <2>1. stats.all \in Tally
    BY <1>1, Zenon DEF StatsType
  <2>2. stats.compressed \in Nat /\ stats.nested \in Nat
    BY <1>1, Zenon DEF StatsType
  <2>3. stats.max_depth \in Nat
    BY <1>1, Zenon DEF StatsType
  <2>4. stats.largest \in Nat
    BY <1>1, Zenon DEF StatsType
  <2> QED
    BY <2>1, <2>2, <2>3, <2>4
<1>5. /\ compression.compressed \in Tally
      /\ compression.uncompressed \in [count : Nat, original : Size]
      /\ compression.best \in 0 .. Len(archive) /\ compression.worst \in 0 .. Len(archive)
  <2>1. \A c \in CompressionType :
           /\ c.compressed \in Tally /\ c.uncompressed \in [count : Nat, original : Size]
           /\ c.best \in 0 .. Len(archive) /\ c.worst \in 0 .. Len(archive)
    BY DEF CompressionType
  <2> QED
    BY <1>1, <2>1, Zenon
<1>6. compression.uncompressed.count \in Nat /\ compression.uncompressed.original \in Nat
  BY <1>2, <1>5
<1>7. compression.best \in Nat /\ compression.worst \in Nat
  BY <1>5
<1> QED
  BY <1>2, <1>3, <1>4, <1>5, <1>6, <1>7

\* A step that summarizes keeps the sums,
LEMMA SumsSummarize ==
    ASSUME PlaceInv, TalliesInv, SumsInv, ExtremesInv, SummarizeEntry
    PROVE  SumsInv'
<1> PICK m \in Descriptions(archive) :
              /\ stats' = WithStats(stats, m)
              /\ compression' = WithCompression(compression, m)
              /\ \A b \in Breakdowns : breakdowns'[b] = WithEntry(breakdowns[b], Group(m)[b], m)
              /\ m.packed \in Size /\ m.original \in Size
              /\ m.depth \in Nat /\ m.compressed \in BOOLEAN /\ m.nested \in BOOLEAN
  BY SummarizeDoes, Zenon
<1>1. /\ stats \in StatsType /\ compression \in CompressionType
      /\ \A b \in Breakdowns : \A g \in DOMAIN breakdowns[b] : breakdowns[b][g] \in Tally
  BY DEF TalliesInv
<1>2. /\ stats.all.count \in Nat /\ stats.all.packed \in Nat /\ stats.all.original \in Nat
      /\ stats.compressed \in Nat /\ stats.nested \in Nat /\ stats.max_depth \in Nat
      /\ compression.compressed.count \in Nat /\ compression.compressed.original \in Nat
      /\ compression.uncompressed.count \in Nat /\ compression.uncompressed.original \in Nat
      /\ m.packed \in Nat /\ m.original \in Nat
  <2>1. m.packed \in Nat /\ m.original \in Nat
    BY DEF Size
  <2> QED
    BY <2>1, SummaryNumbers
<1>3. /\ stats'.all = Added(stats.all, m)
      /\ stats'.compressed = stats.compressed + IF m.compressed THEN 1 ELSE 0
      /\ stats'.nested = stats.nested + IF m.nested THEN 1 ELSE 0
      /\ stats'.max_depth = IF m.depth > stats.max_depth THEN m.depth ELSE stats.max_depth
  BY DEF WithStats
<1>4. /\ stats'.all.count = stats.all.count + 1
      /\ stats'.all.packed = AddSize(stats.all.packed, m.packed)
      /\ stats'.all.original = AddSize(stats.all.original, m.original)
  BY <1>3 DEF Added
<1>5. \A b \in Breakdowns :
          /\ IsFiniteSet(DOMAIN breakdowns'[b])
          /\ SumOf(breakdowns'[b], "count") = stats'.all.count
          /\ SumOf(breakdowns'[b], "packed") % Word = stats'.all.packed
          /\ SumOf(breakdowns'[b], "original") % Word = stats'.all.original
  <2> TAKE b \in Breakdowns
  <2> DEFINE with == WithEntry(breakdowns[b], Group(m)[b], m)
  <2>1. /\ IsFiniteSet(DOMAIN breakdowns[b])
        /\ SumOf(breakdowns[b], "count") = stats.all.count
        /\ SumOf(breakdowns[b], "packed") % Word = stats.all.packed
        /\ SumOf(breakdowns[b], "original") % Word = stats.all.original
    BY DEF SumsInv
  <2>2. /\ IsFiniteSet(DOMAIN with)
        /\ SumOf(with, "count") = SumOf(breakdowns[b], "count") + 1
        /\ SumOf(with, "packed") % Word
             = AddSize(SumOf(breakdowns[b], "packed") % Word, m.packed)
        /\ SumOf(with, "original") % Word
             = AddSize(SumOf(breakdowns[b], "original") % Word, m.original)
    BY <1>1, <2>1, SumsWith
  <2>3. breakdowns'[b] = with
    OBVIOUS
  <2> HIDE DEF with
  <2> QED
    BY <1>4, <2>1, <2>2, <2>3, Zenon
<1>6. "flags" \in Breakdowns /\ "depth" \in Breakdowns
  BY DEF Breakdowns
<1>7. /\ CountWhere(breakdowns'["flags"], "compressed") = stats'.compressed
      /\ CountWhere(breakdowns'["flags"], "nested") = stats'.nested
  <2> DEFINE g == Group(m)["flags"]
             with == WithEntry(breakdowns["flags"], g, m)
  <2>1. g["compressed"] = m.compressed /\ g["nested"] = m.nested
    BY DEF Group
  <2>2. breakdowns'["flags"] = with
    BY <1>6
  <2> HIDE DEF g
  <2>3. /\ CountWhere(with, "compressed")
             = CountWhere(breakdowns["flags"], "compressed") + IF m.compressed THEN 1 ELSE 0
        /\ CountWhere(with, "nested")
             = CountWhere(breakdowns["flags"], "nested") + IF m.nested THEN 1 ELSE 0
    <3>1. IsFiniteSet(DOMAIN breakdowns["flags"])
          /\ \A x \in DOMAIN breakdowns["flags"] : breakdowns["flags"][x] \in Tally
      BY <1>1, <1>6 DEF SumsInv
    <3>2. g["compressed"] \in BOOLEAN /\ g["nested"] \in BOOLEAN
      BY <2>1
    <3>3. CountWhere(with, "compressed")
             = CountWhere(breakdowns["flags"], "compressed")
                 + IF g["compressed"] THEN 1 ELSE 0
      BY <3>1, <3>2, CountsWith
    <3>4. CountWhere(with, "nested")
             = CountWhere(breakdowns["flags"], "nested") + IF g["nested"] THEN 1 ELSE 0
      BY <3>1, <3>2, CountsWith
    <3> HIDE DEF with
    <3> QED
      BY <2>1, <3>3, <3>4, Zenon
  <2>4. CountWhere(breakdowns["flags"], "compressed") = stats.compressed
        /\ CountWhere(breakdowns["flags"], "nested") = stats.nested
    BY DEF SumsInv
  <2> HIDE DEF with
  <2> QED
    BY <1>3, <2>2, <2>3, <2>4, Zenon
<1>8. stats'.max_depth \in DOMAIN breakdowns'["depth"] \cup {0}
  <2>1. Group(m)["depth"] = m.depth
    BY DEF Group
  <2>2. DOMAIN breakdowns'["depth"] = DOMAIN breakdowns["depth"] \cup {m.depth}
    <3>1. breakdowns'["depth"] = WithEntry(breakdowns["depth"], m.depth, m)
      BY <1>6, <2>1, Zenon
    <3> QED
      BY <3>1, Zenon DEF WithEntry
  <2>3. stats.max_depth \in DOMAIN breakdowns["depth"] \cup {0}
    BY DEF SumsInv
  <2> QED
    BY <1>3, <2>2, <2>3
<1>9. /\ stats.compressed = compression.compressed.count
      /\ compression.compressed.count + compression.uncompressed.count = stats.all.count
      /\ AddSize(compression.compressed.original, compression.uncompressed.original)
           = stats.all.original
  BY DEF SumsInv
<1>10. /\ stats'.compressed = compression'.compressed.count
       /\ compression'.compressed.count + compression'.uncompressed.count = stats'.all.count
       /\ AddSize(compression'.compressed.original, compression'.uncompressed.original)
            = stats'.all.original
  <2> PICK c \in Nat, u \in Nat, o \in Nat :
              /\ c = compression.compressed.original /\ u = compression.uncompressed.original
              /\ o = m.original
    BY <1>2
  <2>0. AddSize(c, u) = stats.all.original
    BY <1>9
  <2>1. CASE m.compressed
    <3>1. compression'.compressed = Added(compression.compressed, m)
          /\ compression'.uncompressed = compression.uncompressed
      BY <1>1, <2>1 DEF WithCompression, CompressionType
    <3>2. compression'.compressed.count = compression.compressed.count + 1
          /\ compression'.compressed.original = AddSize(c, o)
      BY <3>1 DEF Added
    <3>3. AddSize(AddSize(c, o), u) = AddSize(AddSize(c, u), o)
      BY SizesSwapped
    <3>4. AddSize(compression'.compressed.original, compression'.uncompressed.original)
            = stats'.all.original
      BY <1>4, <2>0, <3>1, <3>2, <3>3, Zenon
    <3>5. /\ stats'.compressed = stats.compressed + 1
      BY <1>3, <2>1
    <3>6. compression'.uncompressed.count = compression.uncompressed.count
      BY <3>1
    <3> QED
      BY <1>2, <1>4, <1>9, <3>2, <3>4, <3>5, <3>6
  <2>2. CASE ~m.compressed
    <3>1. compression'.compressed = compression.compressed
          /\ compression'.uncompressed = [count |-> compression.uncompressed.count + 1,
                                          original |-> AddSize(u, o)]
      BY <1>1, <2>2 DEF WithCompression, CompressionType
    <3>2. compression'.uncompressed.count = compression.uncompressed.count + 1
          /\ compression'.uncompressed.original = AddSize(u, o)
          /\ compression'.compressed.original = c
          /\ compression'.compressed.count = compression.compressed.count
      BY <3>1
    <3>3. AddSize(c, AddSize(u, o)) = AddSize(AddSize(c, u), o)
      BY SizesSwapped
    <3>4. AddSize(compression'.compressed.original, compression'.uncompressed.original)
            = stats'.all.original
      BY <1>4, <2>0, <3>2, <3>3, Zenon
    <3>5. stats'.compressed = stats.compressed
      BY <1>2, <1>3, <2>2
    <3> QED
      BY <1>2, <1>4, <1>9, <3>2, <3>4, <3>5
  <2> QED
    BY <2>1, <2>2
<1> QED
  BY <1>5, <1>7, <1>8, <1>10, Zenon DEF SumsInv

\* and the extremes.
LEMMA ExtremesSummarize ==
    ASSUME PlaceInv, TalliesInv, SumsInv, ExtremesInv, SummarizeEntry
    PROVE  ExtremesInv'
<1> PICK m \in Descriptions(archive) :
              /\ m = manifest[next] /\ next \in 1 .. Len(manifest)
              /\ Counted = next - 1 /\ Counted' = next /\ manifest' = manifest
              /\ stats' = WithStats(stats, m)
              /\ compression' = WithCompression(compression, m)
              /\ m.packed \in Size /\ m.original \in Size /\ m.id \in 1 .. Len(archive)
              /\ m.depth \in Nat /\ m.compressed \in BOOLEAN
  BY SummarizeDoes, Zenon
<1> PICK k \in Nat, n \in Nat \ {0} : k = Counted /\ n = next /\ n = k + 1
  OBVIOUS
<1> PICK N \in Nat : N = Len(manifest)
  BY GivenPlaces
<1>1. /\ stats \in StatsType /\ compression \in CompressionType
  BY DEF TalliesInv
<1>2. /\ stats.all.count \in Nat /\ stats.max_depth \in Nat /\ stats.largest \in Nat
      /\ compression.best \in Nat /\ compression.worst \in Nat
      /\ m.original \in Nat /\ m.depth \in Nat /\ m.id # 0
  <2>1. m.original \in Nat /\ m.id # 0
    BY DEF Size
  <2> QED
    BY <2>1, SummaryNumbers
<1>3. /\ n \in 1 .. N /\ n \in 1 .. n /\ (\A i \in 1 .. n : i \in 1 .. k \/ i = n)
      /\ (\A i \in 1 .. k : i \in 1 .. n) /\ (\A i \in 1 .. n : i \in 1 .. N)
      /\ (k = 0 => 1 .. k = {}) /\ n \in 0 .. N
  OBVIOUS
<1>4. \A i \in 1 .. N : /\ manifest[i] \in Descriptions(archive)
                        /\ manifest[i].packed \in Size /\ manifest[i].original \in Size
                        /\ manifest[i].original \in Nat /\ manifest[i].depth \in Nat
                        /\ Ratio(manifest[i]) \in Fraction
                        /\ manifest[i].compressed \in BOOLEAN
                        /\ Listed(manifest[i].id) = manifest[i]
  <2> TAKE i \in 1 .. N
  <2>1. manifest[i] \in Descriptions(archive)
    BY GivenPlaces
  <2>2. manifest[i].packed \in Size /\ manifest[i].original \in Size
        /\ manifest[i].compressed \in BOOLEAN /\ manifest[i].depth \in 0 .. options.max_depth
    BY <2>1, DescribedEntry
  <2>3. manifest[i].original \in Nat /\ manifest[i].depth \in Nat
    BY <2>2 DEF Size
  <2> QED
    BY <2>1, <2>2, <2>3, RatioIs, ListedIs
<1>5. /\ stats.all.count = k /\ LargestOf(stats, k)
      /\ BestOf(compression.best, k) /\ WorstOf(compression.worst, k)
  BY Zenon DEF ExtremesInv
<1>6. stats'.all.count = n
  <2>1. stats'.all.count = stats.all.count + 1
    BY DEF WithStats, Added
  <2> QED
    BY <1>5, <2>1
<1>7. LargestOf(stats', n)
  <2>1. /\ stats'.max_depth = IF m.depth > stats.max_depth THEN m.depth ELSE stats.max_depth
        /\ stats'.largest = IF m.original >= stats.largest THEN m.original ELSE stats.largest
        /\ stats'.largest_entry = IF m.original >= stats.largest THEN m.id
                                  ELSE stats.largest_entry
    BY DEF WithStats
  <2>2. \A i \in 1 .. n : /\ manifest[i].depth <= stats'.max_depth
                          /\ manifest[i].original <= stats'.largest
    <3> TAKE i \in 1 .. n
    <3>1. CASE i \in 1 .. k
      <4>1. manifest[i].depth <= stats.max_depth /\ manifest[i].original <= stats.largest
        BY <1>5, <3>1 DEF LargestOf
      <4>2. manifest[i].depth \in Nat /\ manifest[i].original \in Nat
        BY <1>3, <1>4
      <4> QED
        BY <1>2, <2>1, <4>1, <4>2
    <3>2. CASE i = n
      BY <1>2, <2>1, <3>2
    <3> QED
      BY <1>3, <3>1, <3>2
  <2>3. \E i \in 1 .. n : manifest[i].id = stats'.largest_entry
                          /\ manifest[i].original = stats'.largest
    <3>1. CASE m.original >= stats.largest
      BY <1>3, <2>1, <3>1
    <3>2. CASE ~(m.original >= stats.largest)
      <4>1. k # 0
        <5>1. k = 0 => stats.largest = 0
          BY <1>5 DEF LargestOf
        <5> QED
          BY <1>2, <3>2, <5>1
      <4>2. PICK i \in 1 .. k : manifest[i].id = stats.largest_entry
                                /\ manifest[i].original = stats.largest
        BY <1>5, <4>1 DEF LargestOf
      <4> QED
        BY <1>3, <2>1, <3>2, <4>2
    <3> QED
      BY <3>1, <3>2
  <2> QED
    BY <2>2, <2>3 DEF LargestOf
<1>8. CASE ~m.compressed
  <2>1. compression'.best = compression.best /\ compression'.worst = compression.worst
    BY <1>1, <1>8 DEF WithCompression, CompressionType
  <2>2. BestOf(compression.best, n)
    BY <1>3, <1>5, <1>8 DEF BestOf
  <2>3. WorstOf(compression.worst, n)
    BY <1>3, <1>5, <1>8 DEF WorstOf
  <2>4. (LargestOf(stats, Counted) /\ BestOf(compression.best, Counted)
           /\ WorstOf(compression.worst, Counted))'
    BY <1>7, <2>1, <2>2, <2>3, Zenon DEF LargestOf, BestOf, WorstOf
  <2> QED
    BY <1>3, <1>6, <2>4, Zenon DEF ExtremesInv
<1>9. CASE m.compressed
  <2> DEFINE r == Ratio(m)
  <2>1. /\ compression'.best = IF compression.best = 0
                                    \/ Below(Ratio(Listed(compression.best)), r)
                                  THEN m.id ELSE compression.best
        /\ compression'.worst = IF compression.worst = 0
                                     \/ Below(r, Ratio(Listed(compression.worst)))
                                   THEN m.id ELSE compression.worst
    BY <1>1, <1>9 DEF WithCompression, CompressionType
  <2>2. r \in Fraction /\ r = Ratio(manifest[n]) /\ m = manifest[n]
    BY <1>3, <1>4
  <2> HIDE DEF r
  <2>3. BestOf(compression'.best, n)
    <3>1. CASE compression.best = 0
      <4>1. compression'.best = m.id
        BY <2>1, <3>1
      <4>2. \A j \in 1 .. n : manifest[j].compressed =>
                   ~Below(Ratio(manifest[n]), Ratio(manifest[j]))
        <5> TAKE j \in 1 .. n
        <5>1. j \in 1 .. k => ~manifest[j].compressed
          BY <1>5, <3>1 DEF BestOf
        <5>2. ~Below(r, r)
          BY <2>2, BelowIsOneWay
        <5> QED
          BY <1>3, <2>2, <5>1, <5>2, Zenon
      <4> QED
        BY <1>2, <1>3, <2>2, <4>1, <4>2 DEF BestOf
    <3>2. CASE compression.best # 0
      <4>1. PICK i \in 1 .. k :
             /\ manifest[i].id = compression.best
             /\ \A j \in 1 .. k : manifest[j].compressed =>
                   ~Below(Ratio(manifest[i]), Ratio(manifest[j]))
        BY <1>5, <3>2 DEF BestOf
      <4>2. i \in 1 .. N /\ Listed(compression.best) = manifest[i]
            /\ Ratio(manifest[i]) \in Fraction
        BY <1>3, <1>4, <4>1
      <4>3. CASE Below(Ratio(manifest[i]), r)
        <5>1. compression'.best = m.id
          BY <2>1, <4>2, <4>3
        <5>2. \A j \in 1 .. n : manifest[j].compressed =>
                   ~Below(Ratio(manifest[n]), Ratio(manifest[j]))
          <6> SUFFICES ASSUME NEW j \in 1 .. n, manifest[j].compressed
                       PROVE  ~Below(r, Ratio(manifest[j]))
            BY <2>2
          <6>1. CASE j = n
            BY <2>2, <6>1, BelowIsOneWay
          <6>2. CASE j \in 1 .. k
            <7>1. ~Below(Ratio(manifest[i]), Ratio(manifest[j]))
              BY <4>1, <6>2
            <7>2. ~Below(r, Ratio(manifest[i]))
              BY <2>2, <4>2, <4>3, BelowIsOneWay
            <7>3. Ratio(manifest[j]) \in Fraction
              BY <1>3, <1>4
            <7> QED
              BY <2>2, <4>2, <7>1, <7>2, <7>3, NotBelowFollows
          <6> QED
            BY <1>3, <6>1, <6>2
        <5> QED
          BY <1>2, <1>3, <2>2, <5>1, <5>2 DEF BestOf
      <4>4. CASE ~Below(Ratio(manifest[i]), r)
        <5>1. compression'.best = compression.best
          BY <2>1, <3>2, <4>2, <4>4
        <5>2. \A j \in 1 .. n : manifest[j].compressed =>
                   ~Below(Ratio(manifest[i]), Ratio(manifest[j]))
          BY <1>3, <2>2, <4>1, <4>4, Zenon
        <5> QED
          BY <1>3, <3>2, <4>1, <5>1, <5>2 DEF BestOf
      <4> QED
        BY <4>3, <4>4
    <3> QED
      BY <3>1, <3>2
  <2>4. WorstOf(compression'.worst, n)
    <3>1. CASE compression.worst = 0
      <4>1. compression'.worst = m.id
        BY <2>1, <3>1
      <4>2. \A j \in 1 .. n : manifest[j].compressed =>
                   ~Below(Ratio(manifest[j]), Ratio(manifest[n]))
        <5> TAKE j \in 1 .. n
        <5>1. j \in 1 .. k => ~manifest[j].compressed
          BY <1>5, <3>1 DEF WorstOf
        <5>2. ~Below(r, r)
          BY <2>2, BelowIsOneWay
        <5> QED
          BY <1>3, <2>2, <5>1, <5>2, Zenon
      <4> QED
        BY <1>2, <1>3, <2>2, <4>1, <4>2 DEF WorstOf
    <3>2. CASE compression.worst # 0
      <4>1. PICK i \in 1 .. k :
             /\ manifest[i].id = compression.worst
             /\ \A j \in 1 .. k : manifest[j].compressed =>
                   ~Below(Ratio(manifest[j]), Ratio(manifest[i]))
        BY <1>5, <3>2 DEF WorstOf
      <4>2. i \in 1 .. N /\ Listed(compression.worst) = manifest[i]
            /\ Ratio(manifest[i]) \in Fraction
        BY <1>3, <1>4, <4>1
      <4>3. CASE Below(r, Ratio(manifest[i]))
        <5>1. compression'.worst = m.id
          BY <2>1, <4>2, <4>3
        <5>2. \A j \in 1 .. n : manifest[j].compressed =>
                   ~Below(Ratio(manifest[j]), Ratio(manifest[n]))
          <6> SUFFICES ASSUME NEW j \in 1 .. n, manifest[j].compressed
                       PROVE  ~Below(Ratio(manifest[j]), r)
            BY <2>2
          <6>1. CASE j = n
            BY <2>2, <6>1, BelowIsOneWay
          <6>2. CASE j \in 1 .. k
            <7>1. ~Below(Ratio(manifest[j]), Ratio(manifest[i]))
              BY <4>1, <6>2
            <7>2. ~Below(Ratio(manifest[i]), r)
              BY <2>2, <4>2, <4>3, BelowIsOneWay
            <7>3. Ratio(manifest[j]) \in Fraction
              BY <1>3, <1>4
            <7> QED
              BY <2>2, <4>2, <7>1, <7>2, <7>3, NotBelowFollows
          <6> QED
            BY <1>3, <6>1, <6>2
        <5> QED
          BY <1>2, <1>3, <2>2, <5>1, <5>2 DEF WorstOf
      <4>4. CASE ~Below(r, Ratio(manifest[i]))
        <5>1. compression'.worst = compression.worst
          BY <2>1, <3>2, <4>2, <4>4
        <5>2. \A j \in 1 .. n : manifest[j].compressed =>
                   ~Below(Ratio(manifest[j]), Ratio(manifest[i]))
          BY <1>3, <2>2, <4>1, <4>4, Zenon
        <5> QED
          BY <1>3, <3>2, <4>1, <5>1, <5>2 DEF WorstOf
      <4> QED
        BY <4>3, <4>4
    <3> QED
      BY <3>1, <3>2
  <2>5. (LargestOf(stats, Counted) /\ BestOf(compression.best, Counted)
           /\ WorstOf(compression.worst, Counted))'
    BY <1>7, <2>3, <2>4, Zenon DEF LargestOf, BestOf, WorstOf
  <2> QED
    BY <1>3, <1>6, <2>5, Zenon DEF ExtremesInv
<1> QED
  BY <1>8, <1>9

\* What is summarized.
SummariesInv == TalliesInv /\ SumsInv /\ ExtremesInv

\* Every step keeps it.
LEMMA SummariesStep == PlaceInv /\ SummariesInv /\ [Next]_vars => SummariesInv'
<1> SUFFICES ASSUME PlaceInv, TalliesInv, SumsInv, ExtremesInv, [Next]_vars
             PROVE  SummariesInv'
  BY Zenon DEF SummariesInv
<1>1. TalliesInv'
  BY TalliesStep
<1> SUFFICES SumsInv' /\ ExtremesInv'
  BY <1>1, Zenon DEF SummariesInv
<1>2. next \in Nat /\ Len(manifest) \in Nat
  BY GivenPlaces DEF PlaceInv
<1>3. CASE InspectEntry
  <2>1. phase = "inspect" /\ phase' = "inspect" /\ UNCHANGED summaries
    BY <1>3, InspectEntryDoes DEF InspectEntry
  <2>2. Counted = 0 /\ Counted' = 0
    BY <2>1 DEF Counted
  <2>3. Len(manifest') \in Nat
    <3>1. Listing(manifest', archive, next + 1)
      BY <1>3, InspectEntryDoes
    <3>2. manifest' \in Seq(Descriptions(archive))
      BY <3>1 DEF Listing
    <3> QED
      BY <3>2
  <2> QED
    BY <2>1, <2>2, <2>3, SummariesKept
<1>4. ASSUME UNCHANGED manifest, UNCHANGED summaries,
             phase \notin {"summarize", "done"}, phase' \notin {"summarize", "done"}
      PROVE  SumsInv' /\ ExtremesInv'
  <2>1. Counted = 0 /\ Counted' = 0
    BY <1>4 DEF Counted
  <2> QED
    BY <1>4, <2>1, SummariesKept
<1>5. CASE EndInspection
  <2>1. UNCHANGED manifest /\ UNCHANGED summaries /\ phase = "inspect" /\ phase' = "header"
    BY <1>5 DEF EndInspection, Past
  <2> QED
    BY <1>4, <2>1
<1>6. CASE CheckHeader
  <2>1. UNCHANGED manifest /\ UNCHANGED summaries /\ phase = "header" /\ phase' = "format"
    BY <1>6 DEF CheckHeader
  <2> QED
    BY <1>4, <2>1
<1>7. CASE CheckFormat
  <2>1. UNCHANGED manifest /\ UNCHANGED summaries /\ phase = "format" /\ phase' = "format"
    BY <1>7 DEF CheckFormat, At
  <2> QED
    BY <1>4, <2>1
<1>8. CASE ValidateTotals
  <2>1. UNCHANGED manifest /\ UNCHANGED summaries /\ phase = "format" /\ phase' = "entries"
    BY <1>8 DEF ValidateTotals, Past
  <2> QED
    BY <1>4, <2>1
<1>9. CASE ValidateEntry
  <2>1. UNCHANGED manifest /\ UNCHANGED summaries /\ phase = "entries" /\ phase' = "entries"
    BY <1>9 DEF ValidateEntry, At
  <2> QED
    BY <1>4, <2>1
<1>10. CASE EndValidation
  <2>1. UNCHANGED manifest /\ UNCHANGED summaries /\ phase = "entries"
        /\ phase' = "summarize" /\ next' = 1
    BY <1>10 DEF EndValidation, Past
  <2>2. Counted = 0 /\ Counted' = 0
    BY <2>1 DEF Counted
  <2> QED
    BY <2>1, <2>2, SummariesKept
<1>11. CASE SummarizeEntry
  BY <1>11, SumsSummarize, ExtremesSummarize
<1>12. CASE Compare
  <2>1. UNCHANGED manifest /\ UNCHANGED summaries /\ phase = "summarize"
        /\ phase' = "done" /\ next > Len(manifest)
    BY <1>12 DEF Compare, Past
  <2>2. Counted \in 0 .. Len(manifest)
    BY Zenon DEF ExtremesInv
  <2>3. Counted = Len(manifest) /\ Counted' = Len(manifest)
    BY <1>2, <2>1, <2>2 DEF Counted
  <2> QED
    BY <2>1, <2>3, SummariesKept
<1>13. CASE UNCHANGED vars
  <2>1. UNCHANGED manifest /\ UNCHANGED summaries /\ Counted' = Counted
    BY <1>13 DEF vars, Counted, summaries
  <2> QED
    BY <2>1, SummariesKept
<1> QED
  BY <1>3, <1>5, <1>6, <1>7, <1>8, <1>9, <1>10, <1>11, <1>12, <1>13 DEF Next, Finished

\* SummariesAgree follows.
LEMMA SummariesFollow == PlaceInv /\ SummariesInv => SummariesAgree
<1> SUFFICES ASSUME PlaceInv, SummariesInv, phase = "done"
             PROVE  SummariesAgree
  BY Zenon DEF SummariesAgree
<1>0. SumsInv /\ ExtremesInv
  BY Zenon DEF SummariesInv
<1>1. Counted = Len(manifest) /\ Len(manifest) \in Nat
  BY GivenPlaces DEF Counted
<1>2. /\ stats.all.count = Len(manifest) /\ LargestOf(stats, Len(manifest))
      /\ BestOf(compression.best, Len(manifest)) /\ WorstOf(compression.worst, Len(manifest))
  BY <1>0, <1>1, Zenon DEF ExtremesInv
<1>3. ASSUME NEW m \in ToSet(manifest)
      PROVE  /\ m.depth <= stats.max_depth
             /\ m.original <= Listed(stats.largest_entry).original
             /\ m.compressed =>
                  /\ ~Below(Ratio(Listed(compression.best)), Ratio(m))
                  /\ ~Below(Ratio(m), Ratio(Listed(compression.worst)))
  <2>1. PICK j \in 1 .. Len(manifest) : m = manifest[j]
    BY GivenPlaces
  <2>2. Len(manifest) # 0
    BY <1>1, <2>1
  <2>3. m.depth <= stats.max_depth /\ m.original <= stats.largest
    BY <1>2, <2>1 DEF LargestOf
  <2>4. PICK i \in 1 .. Len(manifest) : /\ manifest[i].id = stats.largest_entry
                                        /\ manifest[i].original = stats.largest
    BY <1>2, <2>2 DEF LargestOf
  <2>5. Listed(stats.largest_entry).original = stats.largest
    BY <2>4, ListedIs
  <2>6. ASSUME m.compressed
        PROVE  ~Below(Ratio(Listed(compression.best)), Ratio(m))
    <3>1. compression.best # 0
      BY <1>2, <2>1, <2>6 DEF BestOf
    <3>2. PICK p \in 1 .. Len(manifest) :
             /\ manifest[p].id = compression.best
             /\ \A q \in 1 .. Len(manifest) : manifest[q].compressed =>
                   ~Below(Ratio(manifest[p]), Ratio(manifest[q]))
      BY <1>2, <3>1 DEF BestOf
    <3>3. Listed(compression.best) = manifest[p]
      BY <3>2, ListedIs
    <3> QED
      BY <2>1, <2>6, <3>2, <3>3
  <2>7. ASSUME m.compressed
        PROVE  ~Below(Ratio(m), Ratio(Listed(compression.worst)))
    <3>1. compression.worst # 0
      BY <1>2, <2>1, <2>7 DEF WorstOf
    <3>2. PICK p \in 1 .. Len(manifest) :
             /\ manifest[p].id = compression.worst
             /\ \A q \in 1 .. Len(manifest) : manifest[q].compressed =>
                   ~Below(Ratio(manifest[q]), Ratio(manifest[p]))
      BY <1>2, <3>1 DEF WorstOf
    <3>3. Listed(compression.worst) = manifest[p]
      BY <3>2, ListedIs
    <3> QED
      BY <2>1, <2>7, <3>2, <3>3
  <2> QED
    BY <2>3, <2>5, <2>6, <2>7, Zenon
<1> QED
  BY <1>0, <1>2, <1>3, Zenon DEF SumsInv, SummariesAgree

\* The summaries are right always.
LEMMA SummariesTheorem == Spec => []SummariesInv
<1>1. Init => PlaceInv /\ SummariesInv
  BY PlaceInit, TalliesInit, SumsInit DEF SummariesInv
<1>2. PlaceInv /\ SummariesInv /\ [Next]_vars => PlaceInv' /\ SummariesInv'
  BY PlaceStep, PlaceStutters, SummariesStep
<1> QED
  BY <1>1, <1>2, PTL DEF Spec

\* The summaries of manifest.cc and archive_stats.cc, each counted by a loop of
\* its own, agree with one another, for every manifest and every word.
THEOREM AgreementTheorem == Spec => []SummariesAgree
<1>1. PlaceInv /\ SummariesInv => SummariesAgree
  BY SummariesFollow
<1> QED
  BY <1>1, PlaceTheorem, SummariesTheorem, PTL

-----------------------------------------------------------------------------
(* What two archives differ in.                                            *)

\* An archive of the manifest that was opened is not at the limit of depth.
LEMMA OpenedIsShallow ==
    ASSUME NEW entries, options.max_depth \in Nat, NEW m \in Descriptions(entries), m.opened
    PROVE  m.depth + 1 \in 0 .. options.max_depth
<1>1. /\ m.id \in 1 .. Len(entries) /\ m.depth \in 0 .. options.max_depth
      /\ m = Described(m.id, entries[m.id], m.depth)
  BY DescriptionsAre
<1> DEFINE d == m.depth
<1>2. Described(m.id, entries[m.id], d).opened = Opened(entries[m.id], d)
  BY Zenon DEF Described
<1>3. Opened(entries[m.id], d)
  BY <1>1, <1>2, Zenon
<1>4. m.depth < options.max_depth
  BY <1>3 DEF Opened
<1> QED
  BY <1>1, <1>4

\* Whatever list is extended, what is added are descriptions of the entry.
LEMMA ExtendedType ==
    ASSUME NEW entries, options.max_depth \in Nat, NEW k \in 1 .. Len(entries),
           NEW list \in Seq(Descriptions(entries))
    PROVE  Extended(list, entries, k) \in Seq(Descriptions(entries))
<1> DEFINE e == entries[k]
           D == Descriptions(entries)
           S == {m \in ToSet(list) : m.id = e.owner /\ m.opened}
           c == Within(list, S)
           more == [i \in DOMAIN c |-> Described(k, e, c[i].depth + 1)]
<1>1. CASE e.owner = 0
  <2>1. Extended(list, entries, k) = Append(list, Described(k, e, 0))
    BY <1>1, Zenon DEF Extended
  <2>2. 0 \in 0 .. options.max_depth
    OBVIOUS
  <2>3. Described(k, e, 0) \in D
    BY <2>2, DescribedIsDescription
  <2> HIDE DEF D
  <2>4. Append(list, Described(k, e, 0)) \in Seq(D)
    BY <2>3 DEF D
  <2> QED
    BY <2>1, <2>4, Zenon DEF D
<1>2. CASE e.owner # 0
  <2>1. Extended(list, entries, k) = list \o more
    BY <1>2, Zenon DEF Extended
  <2>2. c \in Seq(D) /\ ToSet(c) = ToSet(list) \cap S
    BY WithinMembers
  <2>3. \A m \in S : m.opened
    OBVIOUS
  <2> HIDE DEF S, c
  <2>4. \A i \in 1 .. Len(c) : c[i] \in D /\ c[i].opened
    <3>1. ToSet(c) = {c[i] : i \in 1 .. Len(c)}
      BY <2>2, MembersOf
    <3> QED
      BY <2>2, <2>3, <3>1
  <2>5. \A i \in 1 .. Len(c) : Described(k, e, c[i].depth + 1) \in D
    <3> TAKE i \in 1 .. Len(c)
    <3>1. c[i].depth + 1 \in 0 .. options.max_depth
      BY <2>4, OpenedIsShallow
    <3> QED
      BY <3>1, DescribedIsDescription
  <2>6. DOMAIN c = 1 .. Len(c) /\ Len(c) \in Nat
    BY <2>2
  <2> HIDE DEF D, e
  <2>7. more \in Seq(D)
    BY <2>5, <2>6
  <2> HIDE DEF more
  <2>8. list \o more \in Seq(D)
    BY <2>7 DEF D
  <2> QED
    BY <2>1, <2>8, Zenon DEF D
<1> QED
  BY <1>1, <1>2

\* The manifest of an archive lists what inspection of it lists.
LEMMA ManifestOfIs ==
    ASSUME NEW entries \in Seq(Entry), WellFormed(entries), options.max_depth \in Nat
    PROVE  Listing(ManifestOf(entries), entries, Len(entries) + 1)
<1> DEFINE V == Seq(Descriptions(entries))
<1> PICK N \in Nat : N = Len(entries)
  OBVIOUS
<1> DEFINE step == [k \in 1 .. N |-> [v \in V |-> Extended(v, entries, k)]]
           Body(g) == [t \in SUBSET (1 .. N) |->
                         IF t = {} THEN <<>>
                         ELSE Extended(g[t \ {Max(t)}], entries, Max(t))]
           F == CHOOSE g : g = Body(g)
<1>1. \A k \in 1 .. N, v \in V : Extended(v, entries, k) \in V
  BY ExtendedType
<1> HIDE DEF V
<1>2. step \in [1 .. N -> [V -> V]]
  BY <1>1
<1>3. \A k \in 1 .. N, v \in V : step[k][v] = Extended(v, entries, k)
  OBVIOUS
<1>4. ManifestOf(entries) = F[1 .. N]
  <2> DEFINE places == [k \in 1 .. N |-> k]
  <2>1. DOMAIN entries = 1 .. N /\ DOMAIN places = 1 .. N
    OBVIOUS
  <2>2. ManifestOf(entries)
          = FoldLeft(LAMBDA list, k : Extended(list, entries, k), <<>>, places)
    BY <2>1, Zenon DEF ManifestOf
  <2>3. \A k \in 1 .. N : places[k] = k
    OBVIOUS
  <2>4. Len(places) = N
    BY <2>1
  <2> HIDE DEF places
  <2> DEFINE Body0(g) == [t \in SUBSET (1 .. N) |->
                         IF t = {} THEN <<>>
                         ELSE Extended(g[t \ {Max(t)}], entries, places[Max(t)])]
  <2>5. ManifestOf(entries) = (CHOOSE g : g = Body0(g))[1 .. N]
    BY <2>1, <2>2, Zenon DEF FoldLeft, MapThenFoldSet
  <2>6. \A t \in SUBSET (1 .. N) : t # {} => places[Max(t)] = Max(t)
    <3> TAKE t \in SUBSET (1 .. N)
    <3>1. t # {} => Max(t) \in t
      BY GreatestMember
    <3> QED
      BY <2>3, <3>1
  <2>7. ASSUME NEW g PROVE Body0(g) = Body(g)
    BY <2>6
  <2> HIDE DEF Body, Body0
  <2>8. (CHOOSE g : g = Body0(g)) = F
    BY <2>7
  <2> QED
    BY <2>5, <2>8, Zenon
<1> HIDE DEF step
<1>5. <<>> \in V
  BY DEF V
<1>6. PICK G \in [SUBSET (1 .. N) -> V] : FoldsUpTo(G, <<>>, step, N)
  BY <1>2, <1>5, FoldExists
<1>7. G = Body(G)
  <2>1. \A t \in SUBSET (1 .. N) :
           t # {} => Max(t) \in 1 .. N /\ t \ {Max(t)} \in SUBSET (1 .. N)
    <3> TAKE t \in SUBSET (1 .. N)
    <3>1. t # {} => Max(t) \in t
      BY GreatestMember
    <3> QED
      BY <3>1
  <2>2. \A t \in SUBSET (1 .. N) : G[t] \in V
    BY <1>6
  <2>3. \A t \in SUBSET (1 .. N) :
           G[t] = IF t = {} THEN <<>> ELSE Extended(G[t \ {Max(t)}], entries, Max(t))
    BY <1>3, <1>6, <2>1, <2>2, Zenon DEF FoldsUpTo
  <2> QED
    BY <1>6, <2>3, Zenon
<1> HIDE DEF Body
<1>8. F = Body(F)
  BY <1>7, Zenon
<1> HIDE DEF F
<1> USE DEF Body
<1>9. \A t \in SUBSET (1 .. N) :
           F[t] = IF t = {} THEN <<>> ELSE Extended(F[t \ {Max(t)}], entries, Max(t))
  BY <1>8, Zenon
<1>10. F[1 .. 0] = <<>>
  <2>1. 1 .. 0 = {} /\ 1 .. 0 \in SUBSET (1 .. N)
    OBVIOUS
  <2> QED
    BY <1>9, <2>1, Zenon
<1>11. \A k \in 1 .. N : F[1 .. k] = Extended(F[1 .. k - 1], entries, k)
  <2> TAKE k \in 1 .. N
  <2>1. 1 .. k # {} /\ 1 .. k \in SUBSET (1 .. N) /\ Max(1 .. k) = k
        /\ (1 .. k) \ {k} = 1 .. k - 1
    BY MaxUpTo
  <2> QED
    BY <1>9, <2>1, Zenon
<1> HIDE DEF Body
<1> DEFINE S == {k \in Nat : k \in 0 .. N => Listing(F[1 .. k], entries, k + 1)}
<1>12. 0 \in S
  BY <1>10, NothingListed
<1>13. ASSUME NEW k \in Nat, k \in S PROVE k + 1 \in S
  <2> SUFFICES ASSUME k + 1 \in 0 .. N
               PROVE  Listing(F[1 .. k + 1], entries, k + 2)
    BY Z3
  <2>1. k \in 0 .. N /\ k + 1 \in 1 .. N /\ k + 1 - 1 = k /\ k + 1 + 1 = k + 2
    OBVIOUS
  <2>2. Listing(F[1 .. k], entries, k + 1)
    BY <1>13, <2>1
  <2>3. Listing(Extended(F[1 .. k], entries, k + 1), entries, k + 1 + 1)
    BY <2>1, <2>2, ListingStep
  <2>4. F[1 .. k + 1] = Extended(F[1 .. k], entries, k + 1)
    BY <1>11, <2>1
  <2> QED
    BY <2>1, <2>3, <2>4, Zenon
<1>14. N \in S
  <2> HIDE DEF S
  <2> QED
    BY <1>12, <1>13, NumbersIn
<1> QED
  BY <1>4, <1>14

\* The image of a finite set under an injection is as large as the set.
LEMMA ImageIs ==
    ASSUME NEW S, IsFiniteSet(S), NEW f
    PROVE  /\ IsFiniteSet({f[x] : x \in S})
           /\ (\A x, y \in S : f[x] = f[y] => x = y)
                => Cardinality({f[x] : x \in S}) = Cardinality(S)
<1> DEFINE T == {f[x] : x \in S}
           g == [x \in S |-> f[x]]
<1>1. g \in [S -> T] /\ \A t \in T : \E s \in S : g[s] = t
  OBVIOUS
<1>2. g \in Surjection(S, T)
  BY <1>1, Zenon DEF Surjection
<1>3. IsFiniteSet(T) /\ (g \in Injection(S, T) => Cardinality(T) = Cardinality(S))
  BY <1>2, FS_Surjection
<1>4. (\A x, y \in S : f[x] = f[y] => x = y) => g \in Injection(S, T)
  BY <1>1 DEF Injection, IsInjective
<1> QED
  BY <1>3, <1>4

\* What the entries of the manifests compared are: the key is that of the name.
NormalizedNames(list) ==
    list \in Seq(ToSet(list)) /\ \A m \in ToSet(list) : m.normalized = Normalized(DefaultPolicy, m.name)

\* The key of the name an entry has.
KeyOf(name) == CanonicalKey(Normalized(DefaultPolicy, name))

\* What inspection lists is such a list.
LEMMA ListingNames ==
    ASSUME NEW entries, NEW k, NEW list, Listing(list, entries, k)
    PROVE  NormalizedNames(list)
<1>1. list \in Seq(Descriptions(entries))
  BY DEF Listing
<1>2. ToSet(list) = {list[i] : i \in 1 .. Len(list)} /\ list \in Seq(ToSet(list))
  <2>1. ToSet(list) = {list[i] : i \in 1 .. Len(list)}
    BY <1>1, MembersOf
  <2> QED
    BY <1>1, <2>1
<1>3. ASSUME NEW m \in ToSet(list)
      PROVE  m.normalized = Normalized(DefaultPolicy, m.name)
  <2>1. m \in Descriptions(entries)
    BY <1>1, <1>2
  <2>2. m = Described(m.id, entries[m.id], m.depth)
    BY <2>1, DescriptionsAre
  <2> DEFINE d == Described(m.id, entries[m.id], m.depth)
  <2>3. d.normalized = Normalized(DefaultPolicy, entries[m.id].name) /\ d.name = entries[m.id].name
    BY Zenon DEF Described
  <2> QED
    BY <2>2, <2>3, Zenon
<1> QED
  BY <1>2, <1>3 DEF NormalizedNames

\* The keys of a list: finitely many, and one for each name.
LEMMA KeysAre ==
    ASSUME NEW list, NormalizedNames(list)
    PROVE  /\ IsFiniteSet(Keys(list))
           /\ \A m \in ToSet(list) : Key(m) = KeyOf(m.name) /\ Key(m) \in Keys(list)
           /\ \A key \in Keys(list) : \E m \in ToSet(list) : Key(m) = key
<1>1. IsFiniteSet(ToSet(list))
  <2>1. Len(list) \in Nat /\ DOMAIN list = 1 .. Len(list) /\ list \in Seq(ToSet(list))
    BY DEF NormalizedNames
  <2>2. IsFiniteSet(1 .. Len(list))
    BY <2>1, FS_Interval
  <2>3. IsFiniteSet({list[i] : i \in 1 .. Len(list)})
    BY <2>2, ImageIs
  <2>4. ToSet(list) = {list[i] : i \in 1 .. Len(list)}
    BY <2>1, MembersOf
  <2> QED
    BY <2>3, <2>4
<1> DEFINE f == [m \in ToSet(list) |-> Key(m)]
<1>2. IsFiniteSet({f[m] : m \in ToSet(list)})
  BY <1>1, ImageIs
<1>3. Keys(list) = {f[m] : m \in ToSet(list)}
  BY DEF Keys
<1>4. \A m \in ToSet(list) : Key(m) = KeyOf(m.name)
  BY DEF NormalizedNames, Key, KeyOf
<1> QED
  BY <1>2, <1>3, <1>4

\* catalogByNormalizedName has an entry for every key, which has that key.
LEMMA ByNameIs ==
    ASSUME NEW list, NormalizedNames(list), NEW f \in ByName(list)
    PROVE  /\ DOMAIN f = Keys(list)
           /\ \A k \in Keys(list) : /\ f[k] \in ToSet(list) /\ Key(f[k]) = k
                                    /\ KeyOf(f[k].name) = k
           /\ \A m \in ToSet(list) : Alone(m, list) => f[Key(m)] = m
<1>1. f \in [Keys(list) -> ToSet(list)] /\ \A k \in Keys(list) : f[k] \in Survivors(list, k)
  BY Zenon DEF ByName
<1>2. \A k \in Keys(list) : f[k] \in ToSet(list) /\ Key(f[k]) = k
  BY <1>1 DEF Survivors
<1>3. \A k \in Keys(list) : KeyOf(f[k].name) = k
  BY <1>2, KeysAre
<1>4. ASSUME NEW m \in ToSet(list), Alone(m, list)
      PROVE  f[Key(m)] = m
  <2>1. Key(m) \in Keys(list)
    BY KeysAre
  <2>2. f[Key(m)] \in ToSet(list) /\ Key(f[Key(m)]) = Key(m)
    BY <1>2, <2>1
  <2>3. SameKey(m, f[Key(m)])
    BY <2>2, Zenon DEF SameKey, Key
  <2> QED
    BY <1>4, <2>2, <2>3, Zenon DEF Alone
<1> QED
  BY <1>1, <1>2, <1>3, <1>4

\* What the difference says is found under the key of its name.
LEMMA DifferenceIs ==
    ASSUME NEW left, NEW right, NEW L, NEW R, DOMAIN left = L, DOMAIN right = R,
           \A k \in L : KeyOf(left[k].name) = k,
           \A k \in R : KeyOf(right[k].name) = k
    PROVE  \A d \in Difference(left, right) :
              LET k == KeyOf(d.name) IN
              \/ k \in L \ R /\ d = Removed(left[k])
              \/ k \in R \ L /\ d = AddedEntry(right[k])
              \/ k \in L \cap R /\ Differs(left[k], right[k]) /\ d = Changed(left[k], right[k])
<1> TAKE d \in Difference(left, right)
<1>1. CASE \E k \in L \ R : d = Removed(left[k])
  <2>1. PICK k \in L \ R : d = Removed(left[k])
    BY <1>1
  <2>2. d.name = left[k].name
    BY <2>1 DEF Removed
  <2> QED
    BY <2>1, <2>2
<1>2. CASE \E k \in R \ L : d = AddedEntry(right[k])
  <2>1. PICK k \in R \ L : d = AddedEntry(right[k])
    BY <1>2
  <2>2. d.name = right[k].name
    BY <2>1 DEF AddedEntry
  <2> QED
    BY <2>1, <2>2
<1>3. CASE \E k \in L \cap R : Differs(left[k], right[k]) /\ d = Changed(left[k], right[k])
  <2>1. PICK k \in L \cap R : Differs(left[k], right[k]) /\ d = Changed(left[k], right[k])
    BY <1>3
  <2>2. d.name = left[k].name
    BY <2>1 DEF Changed
  <2> QED
    BY <2>1, <2>2
<1> QED
  BY <1>1, <1>2, <1>3 DEF Difference

\* Difference has all of those.
LEMMA DifferenceHas ==
    ASSUME NEW left, NEW right
    PROVE  /\ \A k \in DOMAIN left \ DOMAIN right : Removed(left[k]) \in Difference(left, right)
           /\ \A k \in DOMAIN right \ DOMAIN left :
                 AddedEntry(right[k]) \in Difference(left, right)
           /\ \A k \in DOMAIN left \cap DOMAIN right : Differs(left[k], right[k]) =>
                 Changed(left[k], right[k]) \in Difference(left, right)
  BY DEF Difference

\* What a difference says of itself.
LEMMA WhatIs ==
    ASSUME NEW l, NEW r
    PROVE  /\ Removed(l).what = "removed" /\ Removed(l).name = l.name
           /\ AddedEntry(l).what = "added" /\ AddedEntry(l).name = l.name
           /\ Changed(l, r).what = "changed" /\ Changed(l, r).name = l.name
  BY DEF Removed, AddedEntry, Changed

\* The difference lists of entries that are alone with their key exactly those
\* that are missing or differ, and each of its names once.
ExactlyDiffers(ours, theirs, D) ==
    /\ \A m \in ToSet(ours) : Alone(m, ours) =>
          /\ Removed(m) \in D <=> \A x \in ToSet(theirs) : ~SameKey(m, x)
          /\ \A x \in ToSet(theirs) : SameKey(m, x) /\ Alone(x, theirs) =>
                (Changed(m, x) \in D <=> Differs(m, x))
    /\ \A x \in ToSet(theirs) : Alone(x, theirs) =>
          (AddedEntry(x) \in D <=> \A m \in ToSet(ours) : ~SameKey(m, x))
    /\ Cardinality({d \in D : d.what = "added"}) - Cardinality({d \in D : d.what = "removed"})
         = Cardinality(Keys(theirs)) - Cardinality(Keys(ours))
    /\ Cardinality({d.name : d \in D}) = Cardinality(D)

\* What Difference says of two lists is exact.
LEMMA DifferenceExact ==
    ASSUME NEW ours, NormalizedNames(ours), NEW theirs, NormalizedNames(theirs),
           NEW left \in ByName(ours), NEW right \in ByName(theirs),
           NEW D, D = Difference(left, right)
    PROVE  ExactlyDiffers(ours, theirs, D)
<1> PICK L : L = Keys(ours)
  OBVIOUS
<1> PICK R : R = Keys(theirs)
  OBVIOUS
<1>1. /\ DOMAIN left = L
      /\ \A k \in L : left[k] \in ToSet(ours) /\ KeyOf(left[k].name) = k
      /\ \A m \in ToSet(ours) : Alone(m, ours) => left[Key(m)] = m
  BY ByNameIs
<1>2. /\ DOMAIN right = R
      /\ \A k \in R : right[k] \in ToSet(theirs) /\ KeyOf(right[k].name) = k
      /\ \A m \in ToSet(theirs) : Alone(m, theirs) => right[Key(m)] = m
  BY ByNameIs
<1>3. /\ IsFiniteSet(L) /\ \A m \in ToSet(ours) : Key(m) = KeyOf(m.name) /\ Key(m) \in L
      /\ \A k \in L : \E m \in ToSet(ours) : Key(m) = k
  BY KeysAre
<1>4. /\ IsFiniteSet(R) /\ \A m \in ToSet(theirs) : Key(m) = KeyOf(m.name) /\ Key(m) \in R
      /\ \A k \in R : \E m \in ToSet(theirs) : Key(m) = k
  BY KeysAre
<1>5. \A d \in D :
         \/ KeyOf(d.name) \in L \ R /\ d = Removed(left[KeyOf(d.name)])
         \/ KeyOf(d.name) \in R \ L /\ d = AddedEntry(right[KeyOf(d.name)])
         \/ /\ KeyOf(d.name) \in L \cap R
            /\ Differs(left[KeyOf(d.name)], right[KeyOf(d.name)])
            /\ d = Changed(left[KeyOf(d.name)], right[KeyOf(d.name)])
  BY <1>1, <1>2, DifferenceIs
<1>6. /\ \A k \in L \ R : Removed(left[k]) \in D
      /\ \A k \in R \ L : AddedEntry(right[k]) \in D
      /\ \A k \in L \cap R : Differs(left[k], right[k]) => Changed(left[k], right[k]) \in D
  BY <1>1, <1>2, DifferenceHas
<1>7. \A m, x : SameKey(m, x) <=> Key(m) = Key(x)
  BY DEF SameKey, Key
<1>8. "added" # "removed" /\ "added" # "changed" /\ "changed" # "removed"
  OBVIOUS
<1>9. ASSUME NEW m \in ToSet(ours), Alone(m, ours)
      PROVE  Removed(m) \in D <=> \A x \in ToSet(theirs) : ~SameKey(m, x)
  <2>1. left[Key(m)] = m /\ Key(m) = KeyOf(m.name) /\ Key(m) \in L
    BY <1>1, <1>3, <1>9
  <2>2. (\A x \in ToSet(theirs) : ~SameKey(m, x)) <=> Key(m) \notin R
    BY <1>4, <1>7
  <2>3. Key(m) \notin R => Removed(m) \in D
    BY <2>1, <1>6
  <2>4. Removed(m) \in D => Key(m) \notin R
    <3> SUFFICES ASSUME Removed(m) \in D PROVE Key(m) \notin R
      OBVIOUS
    <3> PICK d \in D : d = Removed(m)
      OBVIOUS
    <3>1. d.name = m.name /\ d.what = "removed"
      BY WhatIs
    <3> QED
      BY <1>5, <1>8, <2>1, <3>1, WhatIs
  <2> QED
    BY <2>2, <2>3, <2>4
<1>10. ASSUME NEW m \in ToSet(ours), Alone(m, ours), NEW x \in ToSet(theirs),
              SameKey(m, x), Alone(x, theirs)
       PROVE  Changed(m, x) \in D <=> Differs(m, x)
  <2>1. left[Key(m)] = m /\ Key(m) = KeyOf(m.name) /\ Key(m) \in L
    BY <1>1, <1>3, <1>10
  <2>2. right[Key(m)] = x /\ Key(m) \in R
    BY <1>2, <1>4, <1>7, <1>10
  <2>3. Differs(m, x) => Changed(m, x) \in D
    BY <2>1, <2>2, <1>6
  <2>4. Changed(m, x) \in D => Differs(m, x)
    <3> SUFFICES ASSUME Changed(m, x) \in D PROVE Differs(m, x)
      OBVIOUS
    <3> PICK d \in D : d = Changed(m, x)
      OBVIOUS
    <3>1. d.name = m.name /\ d.what = "changed"
      BY WhatIs
    <3>2. KeyOf(d.name) = Key(m)
      BY <2>1, <3>1
    <3> QED
      BY <1>5, <2>1, <2>2, <3>2
  <2> QED
    BY <2>3, <2>4
<1>11. ASSUME NEW x \in ToSet(theirs), Alone(x, theirs)
       PROVE  AddedEntry(x) \in D <=> \A m \in ToSet(ours) : ~SameKey(m, x)
  <2>1. right[Key(x)] = x /\ Key(x) = KeyOf(x.name) /\ Key(x) \in R
    BY <1>2, <1>4, <1>11
  <2>2. (\A m \in ToSet(ours) : ~SameKey(m, x)) <=> Key(x) \notin L
    BY <1>3, <1>7
  <2>3. Key(x) \notin L => AddedEntry(x) \in D
    BY <2>1, <1>6
  <2>4. AddedEntry(x) \in D => Key(x) \notin L
    <3> SUFFICES ASSUME AddedEntry(x) \in D PROVE Key(x) \notin L
      OBVIOUS
    <3> PICK d \in D : d = AddedEntry(x)
      OBVIOUS
    <3>1. d.name = x.name /\ d.what = "added"
      BY WhatIs
    <3> QED
      BY <1>5, <1>8, <2>1, <3>1, WhatIs
  <2> QED
    BY <2>2, <2>3, <2>4
<1>12. IsFiniteSet(R \ L) /\ Cardinality({d \in D : d.what = "added"}) = Cardinality(R \ L)
  <2> DEFINE f == [k \in R \ L |-> AddedEntry(right[k])]
  <2>1. \A k \in R \ L : f[k] = AddedEntry(right[k]) /\ KeyOf(f[k].name) = k
    BY <1>2, WhatIs
  <2>2. {d \in D : d.what = "added"} = {f[k] : k \in R \ L}
    <3>1. ASSUME NEW d \in D, d.what = "added"
          PROVE  d \in {f[k] : k \in R \ L}
      <4>1. KeyOf(d.name) \in R \ L /\ d = AddedEntry(right[KeyOf(d.name)])
        BY <1>5, <1>8, <3>1, WhatIs, ZenonT(60)
      <4> QED
        BY <4>1
    <3>2. ASSUME NEW k \in R \ L
          PROVE  f[k] \in D /\ f[k].what = "added"
      BY <1>6, <2>1, WhatIs
    <3> QED
      BY <3>1, <3>2
  <2>3. IsFiniteSet(R \ L)
    BY <1>4, FS_Difference
  <2>4. \A k, l \in R \ L : f[k] = f[l] => k = l
    BY <2>1, Zenon
  <2> HIDE DEF f
  <2>5. Cardinality({f[k] : k \in R \ L}) = Cardinality(R \ L)
    BY <2>3, <2>4, ImageIs
  <2> QED
    BY <2>2, <2>3, <2>5, Zenon
<1>13. IsFiniteSet(L \ R) /\ Cardinality({d \in D : d.what = "removed"}) = Cardinality(L \ R)
  <2> DEFINE f == [k \in L \ R |-> Removed(left[k])]
  <2>1. \A k \in L \ R : f[k] = Removed(left[k]) /\ KeyOf(f[k].name) = k
    BY <1>1, WhatIs
  <2>2. {d \in D : d.what = "removed"} = {f[k] : k \in L \ R}
    <3>1. ASSUME NEW d \in D, d.what = "removed"
          PROVE  d \in {f[k] : k \in L \ R}
      <4>1. KeyOf(d.name) \in L \ R /\ d = Removed(left[KeyOf(d.name)])
        BY <1>5, <1>8, <3>1, WhatIs, ZenonT(60)
      <4> QED
        BY <4>1
    <3>2. ASSUME NEW k \in L \ R
          PROVE  f[k] \in D /\ f[k].what = "removed"
      BY <1>6, <2>1, WhatIs
    <3> QED
      BY <3>1, <3>2
  <2>3. IsFiniteSet(L \ R)
    BY <1>3, FS_Difference
  <2>4. \A k, l \in L \ R : f[k] = f[l] => k = l
    BY <2>1, Zenon
  <2> HIDE DEF f
  <2>5. Cardinality({f[k] : k \in L \ R}) = Cardinality(L \ R)
    BY <2>3, <2>4, ImageIs
  <2> QED
    BY <2>2, <2>3, <2>5, Zenon
<1>14. Cardinality(R \ L) - Cardinality(L \ R) = Cardinality(R) - Cardinality(L)
  <2>1. /\ Cardinality(R \ L) = Cardinality(R) - Cardinality(R \cap L)
        /\ Cardinality(L \ R) = Cardinality(L) - Cardinality(L \cap R)
    BY <1>3, <1>4, FS_Difference
  <2>2. R \cap L = L \cap R
    OBVIOUS
  <2>3. Cardinality(R) \in Nat /\ Cardinality(L) \in Nat /\ Cardinality(L \cap R) \in Nat
    BY <1>3, <1>4, FS_Intersection, FS_CardinalityType
  <2>4. Cardinality(R \cap L) = Cardinality(L \cap R)
    BY <2>2, Zenon
  <2> QED
    BY <2>1, <2>3, <2>4
<1>15. Cardinality({d.name : d \in D}) = Cardinality(D)
  <2> DEFINE at == [k \in L \cup R |->
                      IF k \notin R THEN Removed(left[k])
                      ELSE IF k \notin L THEN AddedEntry(right[k])
                      ELSE Changed(left[k], right[k])]
             f == [d \in D |-> d.name]
  <2>1. \A d \in D : KeyOf(d.name) \in L \cup R /\ d = at[KeyOf(d.name)]
    BY <1>5
  <2>2. IsFiniteSet(L \cup R)
    BY <1>3, <1>4, FS_Union
  <2>3. IsFiniteSet({at[k] : k \in L \cup R})
    <3> HIDE DEF at
    <3> QED
      BY <2>2, ImageIs
  <2>4. D \subseteq {at[k] : k \in L \cup R}
    BY <2>1
  <2>5. IsFiniteSet(D)
    BY <2>3, <2>4, FS_Subset
  <2>6. \A d, e \in D : f[d] = f[e] => d = e
    <3> HIDE DEF at
    <3> QED
      BY <2>1
  <2>7. Cardinality({f[d] : d \in D}) = Cardinality(D)
    <3> HIDE DEF f
    <3> QED
      BY <2>5, <2>6, ImageIs
  <2>8. {f[d] : d \in D} = {d.name : d \in D}
    OBVIOUS
  <2> QED
    BY <2>7, <2>8, Zenon
<1> QED
  BY <1>9, <1>10, <1>11, <1>12, <1>13, <1>14, <1>15 DEF ExactlyDiffers

\* The difference is found when the archives have been compared.
DiffInv ==
    phase = "done" =>
       \E left \in ByName(manifest), right \in ByName(ManifestOf(other)) :
          diff = Difference(left, right)

\* DiffInv holds before anything is compared,
LEMMA DiffInit == Init => DiffInv
  BY DEF Init, DiffInv

\* (what the other archive lists depends on the inputs only)
LEMMA ManifestOfKept ==
    ASSUME UNCHANGED input
    PROVE  ManifestOf(other)' = ManifestOf(other)
<1>1. UNCHANGED options /\ UNCHANGED other
  BY DEF input
<1> PICK o : o = other
  OBVIOUS
<1> DEFINE D == DOMAIN [k \in DOMAIN o |-> k]
           places == [k \in DOMAIN o |-> k]
           Body(g) == [t \in SUBSET D |->
                         IF t = {} THEN <<>>
                         ELSE Extended(g[t \ {Max(t)}], o, places[Max(t)])]
           BodyP(g) == [t \in SUBSET D |->
                         IF t = {} THEN <<>>
                         ELSE Extended(g[t \ {Max(t)}], o, places[Max(t)])']
<1>2. ManifestOf(o) = (CHOOSE g : g = Body(g))[D]
  BY Zenon DEF ManifestOf, FoldLeft, MapThenFoldSet
<1>3. ManifestOf(o)' = (CHOOSE g : g = BodyP(g))[D]
  BY Zenon DEF ManifestOf, FoldLeft, MapThenFoldSet
<1>4. ASSUME NEW list, NEW k
      PROVE  Extended(list, o, k)' = Extended(list, o, k)
  BY <1>1, Zenon DEF Extended, Described, Opened
<1>5. ASSUME NEW g PROVE BodyP(g) = Body(g)
  <2>1. ASSUME NEW t
        PROVE  Extended(g[t \ {Max(t)}], o, places[Max(t)])'
                 = Extended(g[t \ {Max(t)}], o, places[Max(t)])
    <3> PICK list : list = g[t \ {Max(t)}]
      OBVIOUS
    <3> PICK k : k = places[Max(t)]
      OBVIOUS
    <3>1. Extended(list, o, k)' = Extended(list, o, k)
      BY <1>4, Zenon
    <3>2. Extended(list, o, k) = Extended(g[t \ {Max(t)}], o, places[Max(t)])
      BY Zenon
    <3>3. Extended(list, o, k)' = Extended(g[t \ {Max(t)}], o, places[Max(t)])'
      BY Zenon
    <3> QED
      BY <3>1, <3>2, <3>3, Zenon
  <2> QED
    BY <2>1
<1> HIDE DEF Body, BodyP
<1>6. (CHOOSE g : g = Body(g)) = (CHOOSE g : g = BodyP(g))
  BY <1>5
<1>7. ManifestOf(o)' = ManifestOf(o)
  BY <1>2, <1>3, <1>6, Zenon
<1>8. ManifestOf(other)' = ManifestOf(o)'
  BY <1>1, Zenon
<1> QED
  BY <1>7, <1>8, Zenon

\* and is kept by every step.
LEMMA DiffStep == DiffInv /\ [Next]_vars => DiffInv'
<1> SUFFICES ASSUME DiffInv, [Next]_vars PROVE DiffInv'
  OBVIOUS
<1>1. CASE Compare
  <2>1. /\ \E left \in ByName(manifest), right \in ByName(ManifestOf(other)) :
              diff' = Difference(left, right)
        /\ UNCHANGED manifest /\ UNCHANGED input
    BY <1>1, Zenon DEF Compare
  <2>2. ManifestOf(other)' = ManifestOf(other)
    BY <2>1, ManifestOfKept
  <2> QED
    BY <2>1, <2>2, Zenon DEF DiffInv
<1>2. CASE UNCHANGED vars
  <2>1. UNCHANGED <<phase, manifest, diff>> /\ UNCHANGED input
    BY <1>2 DEF vars, input
  <2>2. ManifestOf(other)' = ManifestOf(other)
    BY <2>1, ManifestOfKept
  <2> QED
    BY <2>1, <2>2, Zenon DEF DiffInv
<1>3. ASSUME phase' # "done" PROVE DiffInv'
  BY <1>3 DEF DiffInv
<1>4. ASSUME InspectEntry \/ EndInspection \/ CheckHeader \/ CheckFormat \/ ValidateTotals
             \/ ValidateEntry \/ EndValidation \/ SummarizeEntry
      PROVE  phase' # "done"
  BY <1>4 DEF InspectEntry, EndInspection, CheckHeader, CheckFormat, ValidateTotals,
              ValidateEntry, EndValidation, SummarizeEntry, At, Past
<1> QED
  BY <1>1, <1>2, <1>3, <1>4 DEF Next, Finished

\* DiffExact follows.
LEMMA DiffFollows == PlaceInv /\ DiffInv => DiffExact
<1> SUFFICES ASSUME PlaceInv, DiffInv, phase = "done" PROVE DiffExact
  BY Zenon DEF DiffExact
<1>1. NormalizedNames(manifest)
  BY ListingNames DEF PlaceInv
<1>2. NormalizedNames(ManifestOf(other))
  <2>1. other \in Seq(Entry) /\ WellFormed(other) /\ options.max_depth \in Nat
    BY GivenTypes, GivenPlaces DEF PlaceInv
  <2>2. Listing(ManifestOf(other), other, Len(other) + 1)
    BY <2>1, ManifestOfIs
  <2> QED
    BY <2>2, ListingNames
<1>3. PICK left \in ByName(manifest), right \in ByName(ManifestOf(other)) :
         diff = Difference(left, right)
  BY Zenon DEF DiffInv
<1> PICK theirs : theirs = ManifestOf(other)
  OBVIOUS
<1>4. ExactlyDiffers(manifest, theirs, diff)
  <2> PICK ours : ours = manifest
    OBVIOUS
  <2> PICK D : D = diff
    OBVIOUS
  <2>1. NormalizedNames(ours) /\ NormalizedNames(theirs)
    BY <1>1, <1>2, Zenon
  <2>2. left \in ByName(ours) /\ right \in ByName(theirs) /\ D = Difference(left, right)
    BY <1>3, Zenon
  <2>3. ExactlyDiffers(ours, theirs, D)
    BY <2>1, <2>2, DifferenceExact
  <2> QED
    BY <2>3, Zenon
<1>5. /\ {d \in diff : d.what = "added"} = What("added")
      /\ {d \in diff : d.what = "removed"} = What("removed")
  BY DEF What
<1>6. /\ Keys(manifest) = {CanonicalKey(m.normalized) : m \in ToSet(manifest)}
      /\ Keys(theirs) = {CanonicalKey(m.normalized) : m \in ToSet(theirs)}
  BY Zenon DEF Keys, Key
<1>7. Cardinality(What("added")) - Cardinality(What("removed"))
        = Cardinality({CanonicalKey(m.normalized) : m \in ToSet(theirs)})
            - Cardinality({CanonicalKey(m.normalized) : m \in ToSet(manifest)})
  BY <1>4, <1>5, <1>6, Zenon DEF ExactlyDiffers
<1>8. ASSUME NEW t \in {ManifestOf(other)}
      PROVE  /\ \A m \in ToSet(manifest) : Alone(m, manifest) =>
                /\ Removed(m) \in diff <=> \A x \in ToSet(t) : ~SameKey(m, x)
                /\ \A x \in ToSet(t) : SameKey(m, x) /\ Alone(x, t) =>
                      (Changed(m, x) \in diff <=> Differs(m, x))
             /\ \A x \in ToSet(t) : Alone(x, t) =>
                (AddedEntry(x) \in diff <=> \A m \in ToSet(manifest) : ~SameKey(m, x))
             /\ Cardinality(What("added")) - Cardinality(What("removed"))
                  = Cardinality({CanonicalKey(m.normalized) : m \in ToSet(t)})
                      - Cardinality({CanonicalKey(m.normalized) : m \in ToSet(manifest)})
             /\ Cardinality({d.name : d \in diff}) = Cardinality(diff)
  <2>1. t = theirs
    OBVIOUS
  <2> QED
    BY <1>4, <1>7, <2>1, Zenon DEF ExactlyDiffers
<1> QED
  BY <1>8, Zenon DEF DiffExact

\* What diffCatalogs (catalog.cc) lists as added, removed and changed is what
\* DiffExact says of it, for all two archives.
THEOREM DiffTheorem == Spec => []DiffExact
<1>1. PlaceInv /\ DiffInv => DiffExact
  BY DiffFollows
<1>2. Spec => []DiffInv
  BY DiffInit, DiffStep, PTL DEF Spec
<1> QED
  BY <1>1, <1>2, PlaceTheorem, PTL

-----------------------------------------------------------------------------
(* What is shown of the issues.                                            *)

\* The one sequence goes on where the other ends.
Begins(s, t) == Len(s) <= Len(t) /\ \A i \in 1 .. Len(s) : s[i] = t[i]

\* Sequences of the same members are the same.
LEMMA SameSequence ==
    ASSUME NEW T, NEW s \in Seq(T), NEW t \in Seq(T), Len(s) = Len(t),
           \A i \in 1 .. Len(s) : s[i] = t[i]
    PROVE  s = t
  OBVIOUS

\* The first n members.
LEMMA FirstOfIs ==
    ASSUME NEW T, NEW s \in Seq(T), NEW n \in Nat, n <= Len(s)
    PROVE  /\ SubSeq(s, 1, n) \in Seq(T) /\ Len(SubSeq(s, 1, n)) = n
           /\ \A i \in 1 .. n : SubSeq(s, 1, n)[i] = s[i]
           /\ Begins(SubSeq(s, 1, n), s)
<1>1. /\ SubSeq(s, 1, n) \in Seq(T) /\ Len(SubSeq(s, 1, n)) = n
      /\ \A i \in 1 .. n : SubSeq(s, 1, n)[i] = s[i]
  OBVIOUS
<1> QED
  BY <1>1 DEF Begins

\* What a sequence begins with is a prefix.
LEMMA PrefixIs ==
    ASSUME NEW T, NEW s \in Seq(T), NEW t \in Seq(T), Begins(s, t)
    PROVE  IsPrefix(s, t)
<1>1. Len(s) \in Nat /\ Len(t) \in Nat /\ Len(s) <= Len(t)
      /\ \A i \in 1 .. Len(s) : s[i] = t[i]
  BY DEF Begins
<1>2. SubSeq(s, 1, Len(s)) \in Seq(T) /\ Len(SubSeq(s, 1, Len(s))) = Len(s)
      /\ \A i \in 1 .. Len(s) : SubSeq(s, 1, Len(s))[i] = s[i]
  BY <1>1, FirstOfIs
<1>3. SubSeq(t, 1, Len(s)) \in Seq(T) /\ Len(SubSeq(t, 1, Len(s))) = Len(s)
      /\ \A i \in 1 .. Len(s) : SubSeq(t, 1, Len(s))[i] = t[i]
  BY <1>1, FirstOfIs
<1>4. SubSeq(s, 1, Len(s)) = SubSeq(t, 1, Len(s))
  BY <1>1, <1>2, <1>3, SameSequence
<1> QED
  BY <1>1, <1>4 DEF IsPrefix

\* Begins is transitive.
LEMMA BeginsFollows ==
    ASSUME NEW T, NEW s \in Seq(T), NEW t \in Seq(T), NEW u \in Seq(T), Begins(s, t), Begins(t, u)
    PROVE  Begins(s, u)
<1>1. Len(s) \in Nat /\ Len(t) \in Nat /\ Len(u) \in Nat
  OBVIOUS
<1> QED
  BY <1>1 DEF Begins

\* The list, up to a limit, where 0 is none.
Limited(s, max) == IF max = 0 \/ Len(s) <= max THEN s ELSE SubSeq(s, 1, max)

\* A list cut off at a limit, where 0 is none.
LEMMA LimitedIs ==
    ASSUME NEW T, NEW s \in Seq(T), NEW max \in Nat
    PROVE  /\ Limited(s, max) \in Seq(T)
           /\ Begins(Limited(s, max), s)
           /\ Len(Limited(s, max)) = IF max = 0 \/ Len(s) <= max THEN Len(s) ELSE max
<1>1. CASE max = 0 \/ Len(s) <= max
  BY <1>1 DEF Limited, Begins
<1>2. CASE ~(max = 0 \/ Len(s) <= max)
  <2>1. max <= Len(s)
    BY <1>2
  <2> QED
    BY <1>2, <2>1, FirstOfIs DEF Limited
<1> QED
  BY <1>1, <1>2

\* What begins with another still does when both are cut off.
LEMMA LimitedAlike ==
    ASSUME NEW T, NEW s \in Seq(T), NEW t \in Seq(T), NEW max \in Nat, Begins(s, t)
    PROVE  Begins(Limited(s, max), Limited(t, max))
<1> PICK a \in Seq(T) : a = Limited(s, max)
  BY LimitedIs
<1> PICK b \in Seq(T) : b = Limited(t, max)
  BY LimitedIs
<1>1. Begins(a, s) /\ Len(a) = IF max = 0 \/ Len(s) <= max THEN Len(s) ELSE max
  BY LimitedIs
<1>2. Begins(b, t) /\ Len(b) = IF max = 0 \/ Len(t) <= max THEN Len(t) ELSE max
  BY LimitedIs
<1>3. Len(s) \in Nat /\ Len(t) \in Nat /\ Len(a) \in Nat /\ Len(b) \in Nat
  OBVIOUS
<1>4. Len(a) <= Len(b)
  BY <1>1, <1>2, <1>3 DEF Begins
<1>5. \A i \in 1 .. Len(a) : a[i] = b[i]
  <2> TAKE i \in 1 .. Len(a)
  <2>1. i \in 1 .. Len(s) /\ i \in 1 .. Len(b) /\ i \in 1 .. Len(t)
    BY <1>1, <1>2, <1>3, <1>4 DEF Begins
  <2> QED
    BY <2>1, <1>1, <1>2 DEF Begins
<1> QED
  BY <1>4, <1>5 DEF Begins

\* What Within takes of a part of a sequence is the beginning of what it takes.
LEMMA TakesGrow ==
    ASSUME NEW T, NEW s \in Seq(T), NEW S, NEW f \in [0 .. Len(s) -> Seq(T)], Takes(f, s, S),
           NEW k \in 0 .. Len(s)
    PROVE  /\ Begins(f[k], f[Len(s)]) /\ Len(f[k]) <= k
           /\ \A t \in Seq(T) : Begins(t, s) /\ Len(t) = k => Within(t, S) = f[k]
<1> PICK N \in Nat : N = Len(s)
  OBVIOUS
<1>1. f[0] = <<>>
      /\ \A n \in 1 .. N : f[n] = IF s[n] \in S THEN Append(f[n - 1], s[n]) ELSE f[n - 1]
  BY Zenon DEF Takes
<1>2. \A n \in 0 .. N : f[n] \in Seq(T) /\ Len(f[n]) \in Nat
  OBVIOUS
<1>3. \A n \in 1 .. N : s[n] \in T
  OBVIOUS
<1>4. \A n \in 1 .. N : Begins(f[n - 1], f[n]) /\ Len(f[n]) <= Len(f[n - 1]) + 1
  <2> TAKE n \in 1 .. N
  <2> PICK v \in Seq(T) : v = f[n - 1]
    BY <1>2
  <2>1. Begins(v, Append(v, s[n])) /\ Begins(v, v) /\ Len(Append(v, s[n])) = Len(v) + 1
        /\ Len(v) <= Len(v) + 1
    BY <1>3 DEF Begins
  <2>2. f[n] = Append(v, s[n]) \/ f[n] = v
    BY <1>1
  <2>3. Len(Append(v, s[n])) <= Len(v) + 1
    BY <2>1
  <2> QED
    BY <2>1, <2>2, <2>3, Zenon
<1>5. Begins(f[k], f[N])
  <2> DEFINE B == {n \in Nat : k + n <= N => Begins(f[k], f[k + n])}
  <2>1. 0 \in B
    <3>1. Begins(f[k], f[k])
      BY <1>2 DEF Begins
    <3>2. k + 0 = k
      OBVIOUS
    <3> QED
      BY <3>1, <3>2
  <2>2. ASSUME NEW n \in Nat, n \in B PROVE n + 1 \in B
    <3> SUFFICES ASSUME k + (n + 1) <= N PROVE Begins(f[k], f[k + (n + 1)])
      OBVIOUS
    <3>1. k + n <= N /\ k + (n + 1) \in 1 .. N /\ (k + (n + 1)) - 1 = k + n
          /\ k + n \in 0 .. N /\ k + (n + 1) \in 0 .. N
      OBVIOUS
    <3>2. Begins(f[k], f[k + n])
      BY <2>2, <3>1
    <3>3. Begins(f[k + n], f[k + (n + 1)])
      BY <1>4, <3>1
    <3> QED
      BY <1>2, <3>1, <3>2, <3>3, BeginsFollows
  <2>3. N - k \in B
    <3>1. N - k \in Nat
      OBVIOUS
    <3> HIDE DEF B
    <3> QED
      BY <2>1, <2>2, <3>1, NumbersIn
  <2>4. k + (N - k) = N
    OBVIOUS
  <2> QED
    BY <2>3, <2>4
<1>6. \A n \in 0 .. N : Len(f[n]) <= n
  <2> DEFINE B == {n \in Nat : n <= N => Len(f[n]) <= n}
  <2>1. 0 \in B
    BY <1>1
  <2>2. ASSUME NEW n \in Nat, n \in B PROVE n + 1 \in B
    <3> SUFFICES ASSUME n + 1 <= N PROVE Len(f[n + 1]) <= n + 1
      OBVIOUS
    <3>1. n <= N /\ n + 1 \in 1 .. N /\ (n + 1) - 1 = n /\ n \in 0 .. N /\ n + 1 \in 0 .. N
      OBVIOUS
    <3>2. Len(f[n]) <= n /\ Len(f[n + 1]) <= Len(f[n]) + 1
      BY <2>2, <1>4, <3>1
    <3>3. Len(f[n]) \in Nat /\ Len(f[n + 1]) \in Nat
      BY <1>2, <3>1
    <3> QED
      BY <3>2, <3>3
  <2>3. \A n \in Nat : n \in B
    <3> HIDE DEF B
    <3> QED
      BY <2>1, <2>2, NumbersIn
  <2> QED
    BY <2>3
<1>7. ASSUME NEW t \in Seq(T), Begins(t, s), Len(t) = k
      PROVE  Within(t, S) = f[k]
  <2>1. PICK g \in [0 .. k -> Seq(T)] : Takes(g, t, S) /\ Within(t, S) = g[k]
    BY <1>7, WithinTakes
  <2>2. /\ g[0] = <<>>
        /\ \A n \in 1 .. k : g[n] = IF s[n] \in S THEN Append(g[n - 1], s[n]) ELSE g[n - 1]
    <3>1. \A n \in 1 .. k : t[n] = s[n]
      BY <1>7 DEF Begins
    <3> QED
      BY <1>7, <2>1, <3>1 DEF Takes
  <2> DEFINE B == {n \in Nat : n <= k => g[n] = f[n]}
  <2>3. 0 \in B
    BY <1>1, <2>2
  <2>4. ASSUME NEW n \in Nat, n \in B PROVE n + 1 \in B
    <3> SUFFICES ASSUME n + 1 <= k PROVE g[n + 1] = f[n + 1]
      OBVIOUS
    <3>1. n <= k /\ n + 1 \in 1 .. k /\ n + 1 \in 1 .. N /\ (n + 1) - 1 = n
      OBVIOUS
    <3>2. g[n] = f[n]
      BY <2>4, <3>1
    <3>3. g[n + 1] = IF s[n + 1] \in S THEN Append(g[(n + 1) - 1], s[n + 1]) ELSE g[(n + 1) - 1]
      BY <2>2, <3>1, Zenon
    <3>4. f[n + 1] = IF s[n + 1] \in S THEN Append(f[(n + 1) - 1], s[n + 1]) ELSE f[(n + 1) - 1]
      BY <1>1, <3>1, Zenon
    <3> QED
      BY <3>1, <3>2, <3>3, <3>4, Zenon
  <2>5. \A n \in Nat : n \in B
    <3> HIDE DEF B
    <3> QED
      BY <2>3, <2>4, NumbersIn
  <2>6. g[k] = f[k]
    BY <2>5
  <2> QED
    BY <2>1, <2>6
<1> QED
  BY <1>5, <1>6, <1>7

\* What a text says after issues of which these are to be shown.
TextOf(shown, max, size) ==
    IF max = 0 \/ Len(shown) <= max
      THEN [shown |-> shown, stopped |-> FALSE, omitted |-> 0]
      ELSE [shown |-> SubSeq(shown, 1, max), stopped |-> TRUE, omitted |-> size - max]

\* What it shows and what it counts.
LEMMA TextIs ==
    ASSUME NEW shown, NEW max, NEW size
    PROVE  /\ TextOf(shown, max, size).shown = Limited(shown, max)
           /\ TextOf(shown, max, size).omitted
                = IF max = 0 \/ Len(shown) <= max THEN 0 ELSE size - max
  BY DEF TextOf, Limited

\* Texts, and what a step changes in one.
Text(T) == [shown : Seq(T), stopped : BOOLEAN, omitted : Int]

\* The changes IssueShown makes.
Showing(text, list) == [text EXCEPT !.shown = list]
\* The end of a text.
Stopping(text, stopped, size) == [text EXCEPT !.stopped = stopped, !.omitted = size]

\* One more is shown.
LEMMA ShowingIs ==
    ASSUME NEW T, NEW text \in Text(T), NEW x
    PROVE  Showing(text, x) = [shown |-> x, stopped |-> text.stopped, omitted |-> text.omitted]
<1>1. [text EXCEPT !.shown = x]
        = [shown |-> x, stopped |-> text.stopped, omitted |-> text.omitted]
  BY DEF Text
<1> QED
  BY <1>1, Zenon DEF Showing

\* Nothing more is.
LEMMA StoppingIs ==
    ASSUME NEW T, NEW text \in Text(T), NEW x, NEW y
    PROVE  Stopping(text, x, y) = [shown |-> text.shown, stopped |-> x, omitted |-> y]
<1>1. [text EXCEPT !.stopped = x]
        = [shown |-> text.shown, stopped |-> x, omitted |-> text.omitted]
  BY DEF Text
<1>2. ASSUME NEW s, NEW n
      PROVE  [[shown |-> s, stopped |-> x, omitted |-> n] EXCEPT !.omitted = y]
               = [shown |-> s, stopped |-> x, omitted |-> y]
  OBVIOUS
<1>3. [text EXCEPT !.stopped = x, !.omitted = y]
        = [[text EXCEPT !.stopped = x] EXCEPT !.omitted = y]
  OBVIOUS
<1>4. [[text EXCEPT !.stopped = x] EXCEPT !.omitted = y]
        = [shown |-> text.shown, stopped |-> x, omitted |-> y]
  BY <1>1, <1>2
<1> QED
  BY <1>3, <1>4, Zenon DEF Stopping

\* One issue more.
LEMMA TextStep ==
    ASSUME NEW T, NEW shown \in Seq(T), NEW d \in T, NEW format \in Format, NEW size \in Nat
    PROVE  IssueShown(TextOf(shown, format.max, size), d, format, size)
             = TextOf(IF SeverityOf(d) \in format.enabled THEN Append(shown, d) ELSE shown,
                      format.max, size)
<1> PICK max \in Nat : max = format.max
  BY DEF Format
<1> PICK text : text = TextOf(shown, max, size)
  OBVIOUS
<1>1. Len(shown) \in Nat /\ Append(shown, d) \in Seq(T) /\ Len(Append(shown, d)) = Len(shown) + 1
  OBVIOUS
<1>2. CASE SeverityOf(d) \notin format.enabled
  BY <1>2 DEF IssueShown
<1>3. CASE SeverityOf(d) \in format.enabled /\ (max = 0 \/ Len(shown) < max)
  <2>1. text = [shown |-> shown, stopped |-> FALSE, omitted |-> 0]
    BY <1>1, <1>3 DEF TextOf
  <2>2. IssueShown(text, d, format, size) = [text EXCEPT !.shown = Append(text.shown, d)]
    BY <1>1, <1>3, <2>1 DEF IssueShown
  <2>3. TextOf(Append(shown, d), max, size)
          = [shown |-> Append(shown, d), stopped |-> FALSE, omitted |-> 0]
    BY <1>1, <1>3 DEF TextOf
  <2>4. [text EXCEPT !.shown = Append(text.shown, d)]
          = [shown |-> Append(shown, d), stopped |-> FALSE, omitted |-> 0]
    <3>1. text.shown = shown /\ text.stopped = FALSE /\ text.omitted = 0 /\ text \in Text(T)
      BY <2>1 DEF Text
    <3>2. Showing(text, Append(text.shown, d))
            = [shown |-> Append(text.shown, d), stopped |-> text.stopped,
               omitted |-> text.omitted]
      BY <3>1, ShowingIs
    <3> QED
      BY <3>1, <3>2, Zenon DEF Showing
  <2> QED
    BY <1>3, <2>2, <2>3, <2>4, Zenon
<1>4. CASE SeverityOf(d) \in format.enabled /\ max # 0 /\ Len(shown) = max
  <2>1. text = [shown |-> shown, stopped |-> FALSE, omitted |-> 0]
    BY <1>1, <1>4 DEF TextOf
  <2>2. IssueShown(text, d, format, size)
          = [text EXCEPT !.stopped = TRUE, !.omitted = size - Len(text.shown)]
    BY <1>1, <1>4, <2>1 DEF IssueShown
  <2>3. SubSeq(Append(shown, d), 1, max) = shown
    <3>1. SubSeq(Append(shown, d), 1, max) \in Seq(T)
          /\ Len(SubSeq(Append(shown, d), 1, max)) = max
          /\ \A i \in 1 .. max : SubSeq(Append(shown, d), 1, max)[i] = Append(shown, d)[i]
      BY <1>1, <1>4, FirstOfIs
    <3>2. \A i \in 1 .. max : Append(shown, d)[i] = shown[i]
      BY <1>4
    <3> QED
      BY <1>4, <3>1, <3>2, SameSequence
  <2>4. TextOf(Append(shown, d), max, size)
          = [shown |-> shown, stopped |-> TRUE, omitted |-> size - max]
    <3>1. ~(max = 0 \/ Len(Append(shown, d)) <= max)
      BY <1>1, <1>4
    <3> QED
      BY <2>3, <3>1, Zenon DEF TextOf
  <2>5. [text EXCEPT !.stopped = TRUE, !.omitted = size - Len(text.shown)]
          = [shown |-> shown, stopped |-> TRUE, omitted |-> size - max]
    <3>1. text.shown = shown /\ text \in Text(T)
      BY <2>1 DEF Text
    <3>2. Stopping(text, TRUE, size - Len(text.shown))
            = [shown |-> text.shown, stopped |-> TRUE, omitted |-> size - Len(text.shown)]
      BY <3>1, StoppingIs, Zenon
    <3> QED
      BY <1>4, <3>1, <3>2, Zenon DEF Stopping
  <2> QED
    BY <1>4, <2>2, <2>4, <2>5, Zenon
<1>5. CASE SeverityOf(d) \in format.enabled /\ max # 0 /\ Len(shown) > max
  <2>1. text = [shown |-> SubSeq(shown, 1, max), stopped |-> TRUE, omitted |-> size - max]
    BY <1>1, <1>5 DEF TextOf
  <2>2. IssueShown(text, d, format, size) = text
    BY <2>1 DEF IssueShown
  <2>3. SubSeq(Append(shown, d), 1, max) = SubSeq(shown, 1, max)
    <3>1. SubSeq(Append(shown, d), 1, max) \in Seq(T)
          /\ Len(SubSeq(Append(shown, d), 1, max)) = max
          /\ \A i \in 1 .. max : SubSeq(Append(shown, d), 1, max)[i] = Append(shown, d)[i]
      BY <1>1, <1>5, FirstOfIs
    <3>2. SubSeq(shown, 1, max) \in Seq(T) /\ Len(SubSeq(shown, 1, max)) = max
          /\ \A i \in 1 .. max : SubSeq(shown, 1, max)[i] = shown[i]
      BY <1>1, <1>5, FirstOfIs
    <3>3. \A i \in 1 .. max : Append(shown, d)[i] = shown[i]
      BY <1>5
    <3> PICK a \in Seq(T) : a = SubSeq(Append(shown, d), 1, max)
      BY <3>1
    <3> PICK b \in Seq(T) : b = SubSeq(shown, 1, max)
      BY <3>2
    <3>4. Len(a) = max /\ Len(b) = max /\ \A i \in 1 .. max : a[i] = b[i]
      BY <3>1, <3>2, <3>3, Zenon
    <3>5. a = b
      BY <3>4, SameSequence
    <3> QED
      BY <3>5
  <2>4. TextOf(Append(shown, d), max, size)
          = [shown |-> SubSeq(shown, 1, max), stopped |-> TRUE, omitted |-> size - max]
    <3>1. ~(max = 0 \/ Len(Append(shown, d)) <= max)
      BY <1>1, <1>5
    <3> QED
      BY <2>3, <3>1, Zenon DEF TextOf
  <2> QED
    BY <1>5, <2>1, <2>2, <2>4, Zenon
<1> QED
  BY <1>1, <1>2, <1>3, <1>4, <1>5

\* The issues of the severities that are shown.
Enabled(n, format) == {d \in Issues(n) : SeverityOf(d) \in format.enabled}

\* The loop of formatDiagnostics shows the issues enabled, up to the limit.
LEMMA FormatIs ==
    ASSUME NEW n \in Nat, NEW l \in Seq(Issues(n)), NEW format \in Format
    PROVE  FormatDiagnostics(l, format)
             = TextOf(Within(l, Enabled(n, format)), format.max, Len(l))
<1> PICK T : T = Issues(n)
  OBVIOUS
<1> PICK N \in Nat : N = Len(l)
  OBVIOUS
<1> PICK max \in Nat : max = format.max
  BY DEF Format
<1> DEFINE V == Text(T)
           step == [k \in 1 .. N |-> [v \in V |-> IssueShown(v, l[k], format, N)]]
           Body(g) == [t \in SUBSET (1 .. N) |->
                         IF t = {} THEN NothingShown
                         ELSE IssueShown(g[t \ {Max(t)}], l[Max(t)], format, N)]
           F == CHOOSE g : g = Body(g)
<1>1. \A k \in 1 .. N, v \in V : IssueShown(v, l[k], format, N) \in V
  <2> TAKE k \in 1 .. N, v \in V
  <2>1. l[k] \in T /\ v.shown \in Seq(T) /\ N - Len(v.shown) \in Int
        /\ Append(v.shown, l[k]) \in Seq(T)
    BY DEF Text
  <2>2. IssueShown(v, l[k], format, N)
          \in {v, [v EXCEPT !.stopped = TRUE, !.omitted = N - Len(v.shown)],
               [v EXCEPT !.shown = Append(v.shown, l[k])]}
    BY DEF IssueShown
  <2>3. [v EXCEPT !.stopped = TRUE, !.omitted = N - Len(v.shown)] \in V
    BY <2>1 DEF Text
  <2>4. [v EXCEPT !.shown = Append(v.shown, l[k])] \in V
    BY <2>1 DEF Text
  <2> QED
    BY <2>2, <2>3, <2>4
<1> HIDE DEF V
<1>2. step \in [1 .. N -> [V -> V]]
  BY <1>1
<1>3. \A k \in 1 .. N, v \in V : step[k][v] = IssueShown(v, l[k], format, N)
  OBVIOUS
<1>4. FormatDiagnostics(l, format) = F[1 .. N]
  <2>1. DOMAIN l = 1 .. N
    OBVIOUS
  <2> QED
    BY <2>1, Zenon DEF FormatDiagnostics, FoldLeft, MapThenFoldSet
<1> HIDE DEF step
<1>5. NothingShown \in V
  BY DEF V, NothingShown, Text
<1>6. PICK G \in [SUBSET (1 .. N) -> V] : FoldsUpTo(G, NothingShown, step, N)
  BY <1>2, <1>5, FoldExists
<1>7. G = Body(G)
  <2>1. \A t \in SUBSET (1 .. N) :
           t # {} => Max(t) \in 1 .. N /\ t \ {Max(t)} \in SUBSET (1 .. N)
    <3> TAKE t \in SUBSET (1 .. N)
    <3>1. t # {} => Max(t) \in t
      BY GreatestMember
    <3> QED
      BY <3>1
  <2>2. \A t \in SUBSET (1 .. N) : G[t] \in V
    BY <1>6
  <2>3. \A t \in SUBSET (1 .. N) :
           G[t] = IF t = {} THEN NothingShown
                  ELSE IssueShown(G[t \ {Max(t)}], l[Max(t)], format, N)
    BY <1>3, <1>6, <2>1, <2>2, Zenon DEF FoldsUpTo
  <2> QED
    BY <1>6, <2>3, Zenon
<1> HIDE DEF Body
<1>8. F = Body(F)
  BY <1>7, Zenon
<1> HIDE DEF F
<1> USE DEF Body
<1>9. \A t \in SUBSET (1 .. N) :
           F[t] = IF t = {} THEN NothingShown
                  ELSE IssueShown(F[t \ {Max(t)}], l[Max(t)], format, N)
  BY <1>8, Zenon
<1>10. F[1 .. 0] = NothingShown
  <2>1. 1 .. 0 = {} /\ 1 .. 0 \in SUBSET (1 .. N)
    OBVIOUS
  <2> QED
    BY <1>9, <2>1, Zenon
<1>11. \A k \in 1 .. N : F[1 .. k] = IssueShown(F[1 .. k - 1], l[k], format, N)
  <2> TAKE k \in 1 .. N
  <2>1. 1 .. k # {} /\ 1 .. k \in SUBSET (1 .. N) /\ Max(1 .. k) = k
        /\ (1 .. k) \ {k} = 1 .. k - 1
    BY MaxUpTo, SMTT(60)
  <2> QED
    BY <1>9, <2>1, Zenon
<1> HIDE DEF Body
<1>12. PICK e \in [0 .. N -> Seq(T)] :
          /\ Takes(e, l, Enabled(n, format)) /\ Within(l, Enabled(n, format)) = e[N]
  BY WithinTakes
<1>13. /\ e[0] = <<>>
       /\ \A k \in 1 .. N :
             e[k] = IF SeverityOf(l[k]) \in format.enabled THEN Append(e[k - 1], l[k])
                    ELSE e[k - 1]
  <2>1. \A k \in 1 .. N : l[k] \in Issues(n)
    OBVIOUS
  <2>2. \A k \in 1 .. N : l[k] \in Enabled(n, format) <=> SeverityOf(l[k]) \in format.enabled
    BY <2>1 DEF Enabled
  <2> QED
    BY <1>12, <2>2 DEF Takes
<1> DEFINE S == {k \in Nat : k <= N => F[1 .. k] = TextOf(e[k], max, N)}
<1>14. 0 \in S
  <2>1. max = 0 \/ Len(<<>>) <= max
    OBVIOUS
  <2>2. F[1 .. 0] = TextOf(<<>>, max, N)
    BY <1>10, <2>1, Zenon DEF NothingShown, TextOf
  <2> QED
    BY <1>13, <2>2
<1>15. ASSUME NEW k \in Nat, k \in S PROVE k + 1 \in S
  <2> SUFFICES ASSUME k + 1 <= N
               PROVE  F[1 .. k + 1] = TextOf(e[k + 1], max, N)
    BY Z3
  <2>1. k <= N /\ k + 1 \in 1 .. N /\ (k + 1) - 1 = k /\ k \in 0 .. N
    OBVIOUS
  <2>2. F[1 .. k] = TextOf(e[k], max, N)
    BY <1>15, <2>1
  <2>3. F[1 .. k + 1] = IssueShown(F[1 .. k], l[k + 1], format, N)
    BY <1>11, <2>1
  <2>4. e[k + 1] = IF SeverityOf(l[k + 1]) \in format.enabled THEN Append(e[k], l[k + 1])
                   ELSE e[k]
    BY <1>13, <2>1
  <2>5. e[k] \in Seq(T) /\ l[k + 1] \in T
    BY <2>1
  <2>6. IssueShown(TextOf(e[k], format.max, N), l[k + 1], format, N)
          = TextOf(IF SeverityOf(l[k + 1]) \in format.enabled THEN Append(e[k], l[k + 1])
                   ELSE e[k], format.max, N)
    BY <2>5, TextStep
  <2> QED
    BY <2>2, <2>3, <2>4, <2>6, Zenon
<1>16. N \in S
  <2> HIDE DEF S
  <2> QED
    BY <1>14, <1>15, NumbersIn
<1> QED
  BY <1>4, <1>12, <1>16

\* Every issue is an error, a warning or information.
LEMMA SeverityIs ==
    ASSUME NEW d
    PROVE  /\ SeverityOf(d) \in {"info", "warning", "error"} /\ SeverityOf(d) \in Severity
           /\ SeverityOf(d) = "error" <=> d.code \in ErrorCodes
<1>1. CASE d.code \in ErrorCodes
  <2>1. SeverityOf(d) = "error"
    <3>1. d.code \notin InfoCodes
      BY <1>1 DEF ErrorCodes, InfoCodes
    <3> QED
      BY <1>1, <3>1, Zenon DEF SeverityOf
  <2> QED
    BY <1>1, <2>1 DEF Severity
<1>2. CASE d.code \notin ErrorCodes /\ d.code \in InfoCodes
  <2>1. SeverityOf(d) = "info"
    BY <1>2, Zenon DEF SeverityOf
  <2> QED
    BY <1>2, <2>1 DEF Severity
<1>3. CASE d.code \notin ErrorCodes /\ d.code \notin InfoCodes
  <2>1. SeverityOf(d) = "warning"
    BY <1>3, Zenon DEF SeverityOf
  <2> QED
    BY <1>3, <2>1 DEF Severity
<1> QED
  BY <1>1, <1>2, <1>3

\* The severities are finitely many.
LEMMA SeveritiesAre == IsFiniteSet(Severity)
<1>1. IsFiniteSet({}) /\ IsFiniteSet({} \cup {"note"})
  BY FS_EmptySet, FS_AddElement
<1>2. IsFiniteSet(({} \cup {"note"}) \cup {"info"})
  BY <1>1, FS_AddElement
<1>3. IsFiniteSet((({} \cup {"note"}) \cup {"info"}) \cup {"warning"})
  BY <1>2, FS_AddElement
<1>4. IsFiniteSet(((({} \cup {"note"}) \cup {"info"}) \cup {"warning"}) \cup {"error"})
  BY <1>3, FS_AddElement
<1>5. Severity = (((({} \cup {"note"}) \cup {"info"}) \cup {"warning"}) \cup {"error"})
  BY DEF Severity
<1> QED
  BY <1>4, <1>5

\* Total is the sum over the severities.
LEMMA TotalIs ==
    ASSUME NEW counts \in [Severity -> Nat]
    PROVE  \E F : SumsOf(F, counts, Severity) /\ Total(counts) = F[Severity]
<1> DEFINE D == Severity
           Body(G) == [s \in SUBSET D |->
                         IF s = {} THEN 0
                         ELSE counts[CHOOSE x \in s : TRUE] + G[s \ {CHOOSE x \in s : TRUE}]]
           F == CHOOSE G : G = Body(G)
<1>1. Total(counts) = F[D]
  BY Zenon DEF Total, MapThenSumSet, MapThenFoldSet
<1>2. \A x \in D : counts[x] \in Nat
  OBVIOUS
<1>3. IsFiniteSet(D)
  BY SeveritiesAre
<1> HIDE DEF D
<1>4. PICK G : G = [s \in SUBSET D |-> G[s]] /\ SumsByPick(G, counts, D)
  BY <1>2, <1>3, SumFixed
<1>5. G = Body(G)
  <2>1. \A s \in SUBSET D :
           G[s] = IF s = {} THEN 0
                  ELSE counts[CHOOSE x \in s : TRUE] + G[s \ {CHOOSE x \in s : TRUE}]
    BY <1>4, Zenon DEF SumsByPick
  <2> QED
    BY <1>4, <2>1, Zenon
<1> HIDE DEF Body
<1>6. F = Body(F)
  BY <1>5, Zenon
<1> HIDE DEF F
<1>7. SumsByPick(F, counts, D)
  BY <1>6, Zenon DEF Body, SumsByPick
<1>8. SumsOf(F, counts, D)
  BY <1>2, <1>3, <1>7, SumChosen
<1> QED
  BY <1>1, <1>8, Zenon DEF D

\* Sums that differ at one place only.
AlikeBut(f, h, D, a) == a \in D /\ \A x \in D \ {a} : f[x] = h[x]

\* It is by that much that the sums differ.
LEMMA SumRaised ==
    ASSUME NEW D, IsFiniteSet(D), NEW f, NEW F, SumsOf(F, f, D), NEW a,
           NEW h, NEW H, SumsOf(H, h, D), AlikeBut(f, h, D, a)
    PROVE  \E r \in Nat : H[D] = h[a] + r /\ F[D] = f[a] + r
<1>0. a \in D /\ \A x \in D \ {a} : f[x] = h[x]
  BY DEF AlikeBut
<1> PICK E : E = D \cup {a}
  OBVIOUS
<1>1. E = D
  BY <1>0
<1>2. SumsOf(H, h, E)
  BY <1>1
<1>3. PICK r \in Nat : /\ H[E] = h[a] + r
                       /\ a \in D => F[D] = f[a] + r
                       /\ a \notin D => F[D] = r
  <2>1. AlikeApart(f, h, D, a)
    BY <1>0 DEF AlikeApart
  <2>2. SumGrew(f, F, D, h, H, E, a)
    BY <1>2, <2>1, SumChanged, Zenon
  <2> QED
    BY <2>2, Zenon DEF SumGrew
<1>5. H[D] = h[a] + r /\ F[D] = f[a] + r
  BY <1>0, <1>1, <1>3
<1> QED
  BY <1>5, Zenon

\* Totals of counts that differ by one.
LEMMA TotalRaised ==
    ASSUME NEW counts \in [Severity -> Nat], NEW more \in [Severity -> Nat], NEW s \in Severity,
           AlikeBut(counts, more, Severity, s), more[s] = counts[s] + 1
    PROVE  Total(counts) \in Nat /\ Total(more) = Total(counts) + 1
<1>1. PICK F : SumsOf(F, counts, Severity) /\ Total(counts) = F[Severity]
  BY TotalIs
<1>2. PICK H : SumsOf(H, more, Severity) /\ Total(more) = H[Severity]
  BY TotalIs
<1>3. IsFiniteSet(Severity)
  BY SeveritiesAre
<1>4. PICK r \in Nat : H[Severity] = more[s] + r /\ F[Severity] = counts[s] + r
  <2>1. SumsOf(F, counts, Severity) /\ SumsOf(H, more, Severity) /\ IsFiniteSet(Severity)
    BY <1>1, <1>2, <1>3
  <2>2. AlikeBut(counts, more, Severity, s)
    OBVIOUS
  <2>3. \E r \in Nat : H[Severity] = more[s] + r /\ F[Severity] = counts[s] + r
    BY <2>1, <2>2, SumRaised
  <2> QED
    BY <2>3
<1>5. counts[s] \in Nat
  OBVIOUS
<1> QED
  BY <1>1, <1>2, <1>4, <1>5

\* One more of a severity.
LEMMA TotalStep ==
    ASSUME NEW counts \in [Severity -> Nat], NEW s \in Severity
    PROVE  /\ [counts EXCEPT ![s] = @ + 1] \in [Severity -> Nat]
           /\ Total(counts) \in Nat
           /\ Total([counts EXCEPT ![s] = @ + 1]) = Total(counts) + 1
           /\ \A t \in Severity :
                [counts EXCEPT ![s] = @ + 1][t] = IF t = s THEN counts[t] + 1 ELSE counts[t]
<1>1. [counts EXCEPT ![s] = @ + 1] \in [Severity -> Nat]
  OBVIOUS
<1> PICK more \in [Severity -> Nat] : more = [counts EXCEPT ![s] = @ + 1]
  BY <1>1, Zenon
<1>2. \A t \in Severity : more[t] = IF t = s THEN counts[t] + 1 ELSE counts[t]
  OBVIOUS
<1>3. AlikeBut(counts, more, Severity, s)
  BY <1>2 DEF AlikeBut
<1>4. Total(counts) \in Nat /\ Total(more) = Total(counts) + 1
  BY <1>2, <1>3, TotalRaised
<1> QED
  BY <1>2, <1>4

\* Nothing counted.
LEMMA NoTotal ==
    ASSUME NEW counts, counts = [s \in Severity |-> 0]
    PROVE  counts \in [Severity -> Nat] /\ Total(counts) = 0
<1>1. counts \in [Severity -> Nat] /\ \A s \in Severity : counts[s] = 0
  OBVIOUS
<1>2. PICK F : SumsOf(F, counts, Severity) /\ Total(counts) = F[Severity]
  BY <1>1, TotalIs
<1> DEFINE a == {"note"}
           b == {"note", "info"}
           c == {"note", "info", "warning"}
<1>3. /\ a \in SUBSET Severity /\ b \in SUBSET Severity /\ c \in SUBSET Severity
      /\ Severity \in SUBSET Severity
      /\ "note" \in a /\ a \ {"note"} = {} /\ "info" \in b /\ b \ {"info"} = a
      /\ "warning" \in c /\ c \ {"warning"} = b
      /\ "error" \in Severity /\ Severity \ {"error"} = c
      /\ "note" \in Severity /\ "info" \in Severity /\ "warning" \in Severity
  BY DEF Severity
<1> HIDE DEF a, b, c
<1>4. F[{}] = 0 /\ \A s \in SUBSET Severity : \A x \in s : F[s] = counts[x] + F[s \ {x}]
  BY <1>2, Zenon DEF SumsOf
<1>5. F[a] = counts["note"] + F[{}]
  <2>1. F[a] = counts["note"] + F[a \ {"note"}]
    BY <1>3, <1>4, Zenon
  <2> QED
    BY <1>3, <2>1
<1>6. F[b] = counts["info"] + F[a]
  BY <1>3, <1>4, Zenon
<1>7. F[c] = counts["warning"] + F[b]
  BY <1>3, <1>4, Zenon
<1>8. F[Severity] = counts["error"] + F[c]
  BY <1>3, <1>4, Zenon
<1> QED
  BY <1>1, <1>2, <1>3, <1>4, <1>5, <1>6, <1>7, <1>8

\* Diagnostics::summary counts every issue once, and errors as errors.
LEMMA SummaryIs ==
    ASSUME NEW T, NEW l \in Seq(T)
    PROVE  /\ Summary(l) \in [Severity -> Nat]
           /\ Total(Summary(l)) = Len(l)
           /\ Summary(l)["error"] = 0 <=> \A i \in 1 .. Len(l) : SeverityOf(l[i]) # "error"
<1> PICK N \in Nat : N = Len(l)
  OBVIOUS
<1> DEFINE V == [Severity -> Nat]
           none == [s \in Severity |-> 0]
           step == [k \in 1 .. N |-> [v \in V |-> [v EXCEPT ![SeverityOf(l[k])] = @ + 1]]]
           Body(g) == [t \in SUBSET (1 .. N) |->
                         IF t = {} THEN none
                         ELSE [g[t \ {Max(t)}] EXCEPT ![SeverityOf(l[Max(t)])] = @ + 1]]
           F == CHOOSE g : g = Body(g)
<1>1. \A k \in 1 .. N, v \in V : [v EXCEPT ![SeverityOf(l[k])] = @ + 1] \in V
  BY SeverityIs
<1>2. step \in [1 .. N -> [V -> V]]
  BY <1>1
<1>3. \A k \in 1 .. N, v \in V : step[k][v] = [v EXCEPT ![SeverityOf(l[k])] = @ + 1]
  OBVIOUS
<1>4. Summary(l) = F[1 .. N]
  <2>1. DOMAIN l = 1 .. N
    OBVIOUS
  <2> QED
    BY <2>1, Zenon DEF Summary, FoldLeft, MapThenFoldSet
<1> HIDE DEF step
<1>5. none \in V /\ Total(none) = 0 /\ "error" \in Severity
  BY NoTotal DEF Severity
<1>17. \A s \in Severity : none[s] = 0
  OBVIOUS
<1> HIDE DEF V, none
<1>6. PICK G \in [SUBSET (1 .. N) -> V] : FoldsUpTo(G, none, step, N)
  BY <1>2, <1>5, FoldExists
<1>7. G = Body(G)
  <2>1. \A t \in SUBSET (1 .. N) :
           t # {} => Max(t) \in 1 .. N /\ t \ {Max(t)} \in SUBSET (1 .. N)
    <3> TAKE t \in SUBSET (1 .. N)
    <3>1. t # {} => Max(t) \in t
      BY GreatestMember
    <3> QED
      BY <3>1
  <2>2. \A t \in SUBSET (1 .. N) : G[t] \in V
    BY <1>6
  <2>3. \A t \in SUBSET (1 .. N) :
           G[t] = IF t = {} THEN none
                  ELSE [G[t \ {Max(t)}] EXCEPT ![SeverityOf(l[Max(t)])] = @ + 1]
    BY <1>3, <1>6, <2>1, <2>2, Zenon DEF FoldsUpTo
  <2> QED
    BY <1>6, <2>3, Zenon
<1> HIDE DEF Body
<1>8. F = Body(F)
  BY <1>7, Zenon
<1> HIDE DEF F
<1> USE DEF Body
<1>9. \A t \in SUBSET (1 .. N) :
           F[t] = IF t = {} THEN none
                  ELSE [F[t \ {Max(t)}] EXCEPT ![SeverityOf(l[Max(t)])] = @ + 1]
  BY <1>8, Zenon
<1>10. F[1 .. 0] = none
  <2>1. 1 .. 0 = {} /\ 1 .. 0 \in SUBSET (1 .. N)
    OBVIOUS
  <2> QED
    BY <1>9, <2>1, Zenon
<1>11. \A k \in 1 .. N : F[1 .. k] = [F[1 .. k - 1] EXCEPT ![SeverityOf(l[k])] = @ + 1]
  <2> TAKE k \in 1 .. N
  <2>1. 1 .. k # {} /\ 1 .. k \in SUBSET (1 .. N) /\ Max(1 .. k) = k
        /\ (1 .. k) \ {k} = 1 .. k - 1
    BY MaxUpTo
  <2> QED
    BY <1>9, <2>1, Zenon
<1> HIDE DEF Body
<1> DEFINE S == {k \in Nat : k <= N =>
                   /\ F[1 .. k] \in [Severity -> Nat] /\ Total(F[1 .. k]) = k
                   /\ F[1 .. k]["error"] = 0 <=> \A i \in 1 .. k : SeverityOf(l[i]) # "error"}
<1>14. 0 \in S
  <2>1. F[1 .. 0] \in [Severity -> Nat] /\ Total(F[1 .. 0]) = 0 /\ F[1 .. 0]["error"] = 0
    BY <1>5, <1>10, <1>17, Zenon DEF V
  <2> QED
    BY <2>1
<1>15. ASSUME NEW k \in Nat, k \in S PROVE k + 1 \in S
  <2> SUFFICES ASSUME k + 1 <= N
               PROVE  /\ F[1 .. k + 1] \in [Severity -> Nat] /\ Total(F[1 .. k + 1]) = k + 1
                      /\ F[1 .. k + 1]["error"] = 0
                           <=> \A i \in 1 .. k + 1 : SeverityOf(l[i]) # "error"
    BY Z3
  <2>1. k <= N /\ k + 1 \in 1 .. N /\ (k + 1) - 1 = k
    OBVIOUS
  <2> PICK v : v = F[1 .. k]
    OBVIOUS
  <2>2. /\ v \in [Severity -> Nat] /\ Total(v) = k
        /\ v["error"] = 0 <=> \A i \in 1 .. k : SeverityOf(l[i]) # "error"
    BY <1>15, <2>1
  <2> PICK s \in Severity : s = SeverityOf(l[k + 1])
    BY SeverityIs
  <2>3. F[1 .. k + 1] = [v EXCEPT ![s] = @ + 1]
    BY <1>11, <2>1
  <2>4. /\ [v EXCEPT ![s] = @ + 1] \in [Severity -> Nat]
        /\ Total([v EXCEPT ![s] = @ + 1]) = Total(v) + 1
        /\ \A t \in Severity : [v EXCEPT ![s] = @ + 1][t] = IF t = s THEN v[t] + 1 ELSE v[t]
    BY <2>2, TotalStep
  <2> PICK w \in [Severity -> Nat] : w = [v EXCEPT ![s] = @ + 1]
    BY <2>4
  <2>5. w["error"] = IF "error" = s THEN v["error"] + 1 ELSE v["error"]
    BY <1>5, <2>4
  <2>6. v["error"] \in Nat
    BY <1>5, <2>2
  <2>7. w["error"] = 0 <=> v["error"] = 0 /\ s # "error"
    BY <2>5, <2>6
  <2>8. (\A i \in 1 .. k + 1 : SeverityOf(l[i]) # "error")
          <=> (\A i \in 1 .. k : SeverityOf(l[i]) # "error") /\ s # "error"
    <3>1. 1 .. k + 1 = (1 .. k) \cup {k + 1}
      OBVIOUS
    <3> QED
      BY <3>1
  <2>9. Total(w) = k + 1
    BY <2>2, <2>4
  <2> QED
    BY <2>2, <2>3, <2>7, <2>8, <2>9, Zenon
<1>16. N \in S
  <2> HIDE DEF S
  <2> QED
    BY <1>14, <1>15, NumbersIn
<1> QED
  BY <1>4, <1>16

\* The severities' ranks.
LEMMA RanksAre ==
    /\ SeverityRank["note"] = 0 /\ SeverityRank["info"] = 1
    /\ SeverityRank["warning"] = 2 /\ SeverityRank["error"] = 3
  BY DEF SeverityRank

\* The greater severity is an error if one of both is.
LEMMA MaxSeverityIs ==
    ASSUME NEW s \in Severity, NEW t \in Severity
    PROVE  /\ MaxSeverity(s, t) \in Severity
           /\ MaxSeverity(s, t) = "error" <=> s = "error" \/ t = "error"
<1>1. s = "note" \/ s = "info" \/ s = "warning" \/ s = "error"
  BY DEF Severity
<1>2. t = "note" \/ t = "info" \/ t = "warning" \/ t = "error"
  BY DEF Severity
<1>3. MaxSeverity(s, t) \in Severity
  BY DEF MaxSeverity
<1>4. CASE s = "error"
  <2>1. SeverityRank[s] = 3 /\ SeverityRank[t] \in 0 .. 3
    BY <1>2, <1>4, RanksAre
  <2>2. SeverityRank[s] >= SeverityRank[t]
    BY <2>1
  <2> QED
    BY <1>3, <1>4, <2>2 DEF MaxSeverity
<1>5. CASE s # "error" /\ t = "error"
  <2>1. SeverityRank[t] = 3 /\ SeverityRank[s] \in 0 .. 2
    BY <1>1, <1>5, RanksAre
  <2>2. ~(SeverityRank[s] >= SeverityRank[t])
    BY <2>1
  <2> QED
    BY <1>3, <1>5, <2>2 DEF MaxSeverity
<1>6. CASE s # "error" /\ t # "error"
  BY <1>3, <1>6 DEF MaxSeverity
<1> QED
  BY <1>4, <1>5, <1>6

\* Diagnostics::maxSeverity is an error if one of them is.
LEMMA HighestIs ==
    ASSUME NEW T, NEW l \in Seq(T)
    PROVE  HighestSeverity(l) = "error" <=> \E i \in 1 .. Len(l) : SeverityOf(l[i]) = "error"
<1> PICK N \in Nat : N = Len(l)
  OBVIOUS
<1> DEFINE step == [k \in 1 .. N |-> [v \in Severity |-> MaxSeverity(v, SeverityOf(l[k]))]]
           Body(g) == [t \in SUBSET (1 .. N) |->
                         IF t = {} THEN "note"
                         ELSE MaxSeverity(g[t \ {Max(t)}], SeverityOf(l[Max(t)]))]
           F == CHOOSE g : g = Body(g)
<1>1. \A k \in 1 .. N, v \in Severity : MaxSeverity(v, SeverityOf(l[k])) \in Severity
  BY SeverityIs, MaxSeverityIs
<1>2. step \in [1 .. N -> [Severity -> Severity]]
  BY <1>1
<1>3. \A k \in 1 .. N, v \in Severity : step[k][v] = MaxSeverity(v, SeverityOf(l[k]))
  OBVIOUS
<1>4. HighestSeverity(l) = F[1 .. N]
  <2>1. DOMAIN l = 1 .. N
    OBVIOUS
  <2> QED
    BY <2>1, Zenon DEF HighestSeverity, FoldLeft, MapThenFoldSet
<1> HIDE DEF step
<1>5. "note" \in Severity
  BY DEF Severity
<1>6. PICK G \in [SUBSET (1 .. N) -> Severity] : FoldsUpTo(G, "note", step, N)
  BY <1>2, <1>5, FoldExists
<1>7. G = Body(G)
  <2>1. \A t \in SUBSET (1 .. N) :
           t # {} => Max(t) \in 1 .. N /\ t \ {Max(t)} \in SUBSET (1 .. N)
    <3> TAKE t \in SUBSET (1 .. N)
    <3>1. t # {} => Max(t) \in t
      BY GreatestMember
    <3> QED
      BY <3>1
  <2>2. \A t \in SUBSET (1 .. N) : G[t] \in Severity
    BY <1>6
  <2>3. \A t \in SUBSET (1 .. N) :
           G[t] = IF t = {} THEN "note"
                  ELSE MaxSeverity(G[t \ {Max(t)}], SeverityOf(l[Max(t)]))
    BY <1>3, <1>6, <2>1, <2>2, Zenon DEF FoldsUpTo
  <2> QED
    BY <1>6, <2>3, Zenon
<1> HIDE DEF Body
<1>8. F = Body(F)
  BY <1>7, Zenon
<1> HIDE DEF F
<1> USE DEF Body
<1>9. \A t \in SUBSET (1 .. N) :
           F[t] = IF t = {} THEN "note"
                  ELSE MaxSeverity(F[t \ {Max(t)}], SeverityOf(l[Max(t)]))
  BY <1>8, Zenon
<1>10. F[1 .. 0] = "note"
  <2>1. 1 .. 0 = {} /\ 1 .. 0 \in SUBSET (1 .. N)
    OBVIOUS
  <2> QED
    BY <1>9, <2>1, Zenon
<1>11. \A k \in 1 .. N : F[1 .. k] = MaxSeverity(F[1 .. k - 1], SeverityOf(l[k]))
  <2> TAKE k \in 1 .. N
  <2>1. 1 .. k # {} /\ 1 .. k \in SUBSET (1 .. N) /\ Max(1 .. k) = k
        /\ (1 .. k) \ {k} = 1 .. k - 1
    BY MaxUpTo
  <2> QED
    BY <1>9, <2>1, Zenon
<1> HIDE DEF Body
<1> DEFINE S == {k \in Nat : k <= N =>
                   /\ F[1 .. k] \in Severity
                   /\ F[1 .. k] = "error" <=> \E i \in 1 .. k : SeverityOf(l[i]) = "error"}
<1>14. 0 \in S
  <2>1. F[1 .. 0] \in Severity /\ F[1 .. 0] # "error"
    BY <1>5, <1>10
  <2> QED
    BY <2>1
<1>15. ASSUME NEW k \in Nat, k \in S PROVE k + 1 \in S
  <2> SUFFICES ASSUME k + 1 <= N
               PROVE  /\ F[1 .. k + 1] \in Severity
                      /\ F[1 .. k + 1] = "error"
                           <=> \E i \in 1 .. k + 1 : SeverityOf(l[i]) = "error"
    BY Z3
  <2>1. k <= N /\ k + 1 \in 1 .. N /\ (k + 1) - 1 = k
    OBVIOUS
  <2> PICK v : v = F[1 .. k]
    OBVIOUS
  <2>2. /\ v \in Severity
        /\ v = "error" <=> \E i \in 1 .. k : SeverityOf(l[i]) = "error"
    BY <1>15, <2>1
  <2> PICK s \in Severity : s = SeverityOf(l[k + 1])
    BY SeverityIs
  <2>3. F[1 .. k + 1] = MaxSeverity(v, s)
    BY <1>11, <2>1
  <2>4. /\ MaxSeverity(v, s) \in Severity
        /\ MaxSeverity(v, s) = "error" <=> v = "error" \/ s = "error"
    BY <2>2, MaxSeverityIs
  <2>5. (\E i \in 1 .. k + 1 : SeverityOf(l[i]) = "error")
          <=> (\E i \in 1 .. k : SeverityOf(l[i]) = "error") \/ s = "error"
    <3>1. 1 .. k + 1 = (1 .. k) \cup {k + 1}
      OBVIOUS
    <3> QED
      BY <3>1
  <2> QED
    BY <2>2, <2>3, <2>4, <2>5, Zenon
<1>16. N \in S
  <2> HIDE DEF S
  <2> QED
    BY <1>14, <1>15, NumbersIn
<1> QED
  BY <1>4, <1>16

\* Every format has a limit.
LEMMA FormatsAre ==
    ASSUME NEW format \in Formats \cup {CompactFormat, FullFormat}
    PROVE  format \in Format /\ format.max \in Nat
<1>1. CompactFormat \in Format /\ FullFormat \in Format
  BY DEF CompactFormat, FullFormat, Format, Severity
<1>2. format \in Format
  BY <1>1, ReportsAssumption
<1> QED
  BY <1>2 DEF Format

\* What is shown of a list is what is enabled, up to the limit.
LEMMA ShownIs ==
    ASSUME NEW n \in Nat, NEW l \in Seq(Issues(n)), NEW format \in Format
    PROVE  \E e \in Seq(Issues(n)) :
              /\ e = Within(l, Enabled(n, format)) /\ Len(e) <= Len(l)
              /\ FormatDiagnostics(l, format).shown = Limited(e, format.max)
              /\ FormatDiagnostics(l, format).omitted
                   = IF format.max = 0 \/ Len(e) <= format.max THEN 0
                     ELSE Len(l) - format.max
<1> PICK T : T = Issues(n)
  OBVIOUS
<1>1. PICK f \in [0 .. Len(l) -> Seq(T)] :
         Takes(f, l, Enabled(n, format)) /\ Within(l, Enabled(n, format)) = f[Len(l)]
  BY WithinTakes
<1>2. Len(l) \in 0 .. Len(l)
  OBVIOUS
<1>3. Len(f[Len(l)]) <= Len(l)
  BY <1>1, <1>2, TakesGrow
<1> PICK e \in Seq(T) : e = f[Len(l)]
  BY <1>2
<1>4. FormatDiagnostics(l, format) = TextOf(e, format.max, Len(l))
  BY <1>1, FormatIs
<1>5. /\ TextOf(e, format.max, Len(l)).shown = Limited(e, format.max)
      /\ TextOf(e, format.max, Len(l)).omitted
           = IF format.max = 0 \/ Len(e) <= format.max THEN 0 ELSE Len(l) - format.max
  BY TextIs
<1> WITNESS e \in Seq(Issues(n))
<1> QED
  BY <1>1, <1>3, <1>4, <1>5, Zenon

\* Every enabled issue is shown, or the text says how many there are.
LEMMA ShownOrCountedHolds ==
    ASSUME NEW n \in Nat, NEW l \in Seq(Issues(n)), NEW format \in Format
    PROVE  ShownOrCounted(l, format)
<1> PICK text : text = FormatDiagnostics(l, format)
  OBVIOUS
<1> PICK max \in Nat : max = format.max
  BY DEF Format
<1> PICK T : T = Issues(n)
  OBVIOUS
<1>1. PICK e \in Seq(T) :
         /\ e = Within(l, Enabled(n, format)) /\ Len(e) <= Len(l)
         /\ text.shown = Limited(e, max)
         /\ text.omitted = IF max = 0 \/ Len(e) <= max THEN 0 ELSE Len(l) - max
  BY ShownIs
<1>2. Within(l, {d \in ToSet(l) : SeverityOf(d) \in format.enabled}) = e
  <2>1. \A i \in 1 .. Len(l) : l[i] \in Issues(n) /\ l[i] \in ToSet(l)
    BY MembersOf
  <2>2. \A i \in 1 .. Len(l) :
           l[i] \in {d \in ToSet(l) : SeverityOf(d) \in format.enabled}
             <=> l[i] \in Enabled(n, format)
    BY <2>1 DEF Enabled
  <2> QED
    BY <1>1, <2>2, WithinAlike
<1> PICK shown \in Seq(T) : shown = text.shown
  BY <1>1, LimitedIs
<1>3. Begins(shown, e) /\ Len(shown) = IF max = 0 \/ Len(e) <= max THEN Len(e) ELSE max
  BY <1>1, LimitedIs
<1>4. Len(l) \in Nat /\ Len(e) \in Nat /\ Len(shown) \in Nat
  OBVIOUS
<1>5. IsPrefix(shown, e)
  BY <1>3, PrefixIs
<1>6. max # 0 => Len(shown) <= max
  BY <1>3, <1>4
<1>7. text.omitted = 0 => shown = e
  <2>1. CASE max = 0 \/ Len(e) <= max
    BY <1>1, <2>1 DEF Limited
  <2>2. CASE ~(max = 0 \/ Len(e) <= max)
    BY <1>1, <1>4, <2>2
  <2> QED
    BY <2>1, <2>2
<1>8. text.omitted # 0 => Len(shown) + text.omitted = Len(e) + (Len(l) - Len(e))
  BY <1>1, <1>3, <1>4
<1>9. format = FullFormat => Len(shown) = Total(Summary(l))
  <2> SUFFICES ASSUME format = FullFormat PROVE Len(shown) = Total(Summary(l))
    OBVIOUS
  <2>1. max = 0 /\ format.enabled = Severity
    BY DEF FullFormat
  <2>2. \A i \in 1 .. Len(l) : l[i] \in Enabled(n, format)
    BY <2>1, SeverityIs DEF Enabled
  <2>3. e = l
    BY <1>1, <2>2, WithinAll
  <2>4. Len(shown) = Len(l)
    BY <1>3, <2>1, <2>3
  <2> QED
    BY <2>4, SummaryIs
<1>10. DiagnosticsToJson(l, format).issues = shown
  BY DEF DiagnosticsToJson
<1> QED
  BY <1>2, <1>5, <1>6, <1>7, <1>8, <1>9, <1>10, Zenon DEF ShownOrCounted

\* What is shown of the beginning of a list is the beginning of what is shown.
LEMMA ShownFirst ==
    ASSUME NEW n \in Nat, NEW l \in Seq(Issues(n)), NEW format \in Format,
           NEW k \in 0 .. Len(l)
    PROVE  IsPrefix(FormatDiagnostics(SubSeq(l, 1, k), format).shown,
                    FormatDiagnostics(l, format).shown)
<1> PICK T : T = Issues(n)
  OBVIOUS
<1> PICK S : S = Enabled(n, format)
  OBVIOUS
<1> PICK max \in Nat : max = format.max
  BY DEF Format
<1>1. k \in Nat /\ k <= Len(l)
  OBVIOUS
<1>2. SubSeq(l, 1, k) \in Seq(T) /\ Len(SubSeq(l, 1, k)) = k /\ Begins(SubSeq(l, 1, k), l)
  BY <1>1, FirstOfIs
<1> PICK first \in Seq(T) : first = SubSeq(l, 1, k)
  BY <1>2
<1>3. PICK f \in [0 .. Len(l) -> Seq(T)] : Takes(f, l, S) /\ Within(l, S) = f[Len(l)]
  BY WithinTakes
<1>4. Begins(f[k], f[Len(l)])
  BY <1>3, TakesGrow
<1>5. Within(first, S) = f[k]
  <2>1. \A t \in Seq(T) : Begins(t, l) /\ Len(t) = k => Within(t, S) = f[k]
    BY <1>3, TakesGrow
  <2> QED
    BY <1>2, <2>1
<1> PICK a \in Seq(T) : a = f[k]
  OBVIOUS
<1> PICK b \in Seq(T) : b = f[Len(l)]
  BY <1>1
<1>6. FormatDiagnostics(first, format).shown = Limited(a, max)
  <2>1. FormatDiagnostics(first, format) = TextOf(a, max, Len(first))
    BY <1>5, FormatIs
  <2> QED
    BY <2>1, TextIs
<1>7. FormatDiagnostics(l, format).shown = Limited(b, max)
  <2>1. FormatDiagnostics(l, format) = TextOf(b, max, Len(l))
    BY <1>3, FormatIs
  <2> QED
    BY <2>1, TextIs
<1>8. Begins(Limited(a, max), Limited(b, max))
  BY <1>4, LimitedAlike
<1>9. Limited(a, max) \in Seq(T) /\ Limited(b, max) \in Seq(T)
  BY LimitedIs
<1>10. IsPrefix(Limited(a, max), Limited(b, max))
  BY <1>8, <1>9, PrefixIs
<1> QED
  BY <1>6, <1>7, <1>10, Zenon

\* No member of a list is on it twice.
EachOnce(s) == \A i, j \in 1 .. Len(s) : s[i] = s[j] => i = j

\* As many values as members, if no two have the same value.
LEMMA ImageOnce ==
    ASSUME NEW S, IsFiniteSet(S), NEW f, \A x, y \in S : f[x] = f[y] => x = y
    PROVE  IsFiniteSet({f[x] : x \in S}) /\ Cardinality({f[x] : x \in S}) = Cardinality(S)
<1>1. IsFiniteSet({f[x] : x \in S})
  BY ImageIs
<1>2. Cardinality({f[x] : x \in S}) = Cardinality(S)
  BY ImageIs
<1> QED
  BY <1>1, <1>2

\* A sequence is as long as it has members, if it has each once.
LEMMA OnceIs ==
    ASSUME NEW T, NEW s \in Seq(T), EachOnce(s)
    PROVE  IsFiniteSet(ToSet(s)) /\ Cardinality(ToSet(s)) = Len(s)
<1>1. Len(s) \in Nat /\ ToSet(s) = {s[i] : i \in 1 .. Len(s)}
  BY MembersOf
<1>2. IsFiniteSet(1 .. Len(s)) /\ Cardinality(1 .. Len(s)) = Len(s)
  BY <1>1, FS_Interval
<1>3. \A i, j \in 1 .. Len(s) : s[i] = s[j] => i = j
  BY Zenon DEF EachOnce
<1>4. /\ IsFiniteSet({s[i] : i \in 1 .. Len(s)})
      /\ Cardinality({s[i] : i \in 1 .. Len(s)}) = Cardinality(1 .. Len(s))
  <2> PICK D : D = 1 .. Len(s)
    OBVIOUS
  <2>1. IsFiniteSet(D)
    BY <1>2
  <2> PICK f : f = [i \in D |-> s[i]]
    OBVIOUS
  <2>2. \A x, y \in D : f[x] = f[y] => x = y
    BY <1>3, Zenon
  <2>3. IsFiniteSet({f[i] : i \in D}) /\ Cardinality({f[i] : i \in D}) = Cardinality(D)
    BY <2>1, <2>2, ImageOnce
  <2>4. {f[i] : i \in D} = {s[i] : i \in D}
    OBVIOUS
  <2> QED
    BY <2>3, <2>4
<1> QED
  BY <1>1, <1>2, <1>4, Zenon

\* The orders of a set have every member once.
LEMMA SeqsAre ==
    ASSUME NEW S, IsFiniteSet(S), NEW s \in SetToSeqs(S)
    PROVE  /\ s \in Seq(S) /\ Len(s) = Cardinality(S) /\ Len(s) \in Nat
           /\ EachOnce(s) /\ ToSet(s) = S
<1> PICK n \in Nat : n = Cardinality(S)
  BY FS_CardinalityType
<1>1. s \in [1 .. n -> S] /\ \A i, j \in 1 .. n : i # j => s[i] # s[j]
  BY DEF SetToSeqs
<1>2. s \in Seq(S) /\ Len(s) = n
  BY <1>1
<1>3. EachOnce(s)
  BY <1>1, <1>2 DEF EachOnce
<1>4. s \in Injection(1 .. n, S)
  BY <1>1 DEF Injection, IsInjective
<1>5. IsFiniteSet(1 .. n) /\ Cardinality(1 .. n) = n
  BY FS_Interval
<1>6. s \in Surjection(1 .. n, S)
  BY <1>4, <1>5, FS_Injection
<1>7. \A x \in S : \E i \in 1 .. n : s[i] = x
  BY <1>6 DEF Surjection
<1>8. ToSet(s) = S
  <2>1. ToSet(s) = {s[i] : i \in 1 .. n} /\ ToSet(s) \subseteq S
    BY <1>2, MembersOf
  <2> QED
    BY <1>1, <1>7, <2>1
<1> QED
  BY <1>2, <1>3, <1>8

\* Of a list on which no member is twice, as many are taken as there are.
LEMMA WithinOnce ==
    ASSUME NEW T, NEW s \in Seq(T), EachOnce(s), NEW S
    PROVE  EachOnce(Within(s, S))
<1> PICK w \in Seq(T) : w = Within(s, S)
  BY WithinPlaces
<1>1. PICK place : Places(place, w, s, S, Len(s))
  BY WithinPlaces
<1>2. /\ \A i \in 1 .. Len(w) : w[i] = s[place[i]] /\ place[i] \in 1 .. Len(s)
      /\ \A i, j \in 1 .. Len(w) : i < j => place[i] < place[j]
  BY <1>1 DEF Places
<1>3. ASSUME NEW i \in 1 .. Len(w), NEW j \in 1 .. Len(w), w[i] = w[j] PROVE i = j
  <2>1. place[i] = place[j]
    BY <1>2, <1>3 DEF EachOnce
  <2>2. ~(i < j) /\ ~(j < i)
    BY <1>2, <2>1
  <2> QED
    BY <2>2
<1> QED
  BY <1>3 DEF EachOnce

\* The manifest has every entry once.
LEMMA ManifestIs ==
    ASSUME PlaceInv
    PROVE  /\ manifest \in Seq(ToSet(manifest)) /\ EachOnce(manifest)
           /\ IsFiniteSet(ToSet(manifest)) /\ Cardinality(ToSet(manifest)) = Len(manifest)
           /\ Len(manifest) \in Nat
           /\ \A i \in 1 .. Len(manifest) : manifest[i] \in ToSet(manifest)
           /\ \A m \in ToSet(manifest) : \E i \in 1 .. Len(manifest) : m = manifest[i]
           /\ \A m \in ToSet(manifest) : /\ m \in Descriptions(archive)
                                         /\ m.original \in Nat /\ m.packed \in Nat
                                         /\ m.original \in Size /\ m.packed \in Size
<1> PICK l : l = manifest
  OBVIOUS
<1>1. Listing(l, archive, ListedTo)
  BY DEF PlaceInv
<1>2. l \in Seq(Descriptions(archive)) /\ \A i, j \in 1 .. Len(l) : l[i].id = l[j].id => i = j
  BY <1>1, GivenPlaces, PlaceInListing
<1>3. EachOnce(l)
  BY <1>2 DEF EachOnce
<1>4. ToSet(l) = {l[i] : i \in 1 .. Len(l)} /\ ToSet(l) \subseteq Descriptions(archive)
  BY <1>2, MembersOf
<1>5. l \in Seq(ToSet(l)) /\ Len(l) \in Nat
  BY <1>2, <1>4
<1>6. IsFiniteSet(ToSet(l)) /\ Cardinality(ToSet(l)) = Len(l)
  BY <1>3, <1>5, OnceIs
<1>7. \A m \in ToSet(l) : /\ m \in Descriptions(archive)
                          /\ m.original \in Nat /\ m.packed \in Nat
                          /\ m.original \in Size /\ m.packed \in Size
  <2> TAKE m \in ToSet(l)
  <2>1. m \in Descriptions(archive)
    BY <1>4
  <2>2. m.original \in Size /\ m.packed \in Size
    BY <2>1, DescribedEntry
  <2>3. Size \subseteq Nat
    BY WordsAre DEF Size
  <2> QED
    BY <2>1, <2>2, <2>3
<1> QED
  BY <1>3, <1>4, <1>5, <1>6, <1>7, Zenon

\* A sorted list has the entries of the manifest, each once.
LEMMA OrdersAre ==
    ASSUME PlaceInv, NEW key, NEW s \in Orders(key)
    PROVE  /\ s \in Seq(ToSet(manifest)) /\ Len(s) = Len(manifest) /\ Len(s) \in Nat
           /\ EachOnce(s) /\ ToSet(s) = ToSet(manifest)
           /\ \A m \in ToSet(manifest) : \E i \in 1 .. Len(s) : m = s[i]
           /\ \A i, j \in 1 .. Len(s) : i < j => ~Below(key[s[i]], key[s[j]])
<1> PICK S : S = ToSet(manifest)
  OBVIOUS
<1>1. s \in SetToSeqs(S) /\ \A i, j \in DOMAIN s : i < j => ~Below(key[s[i]], key[s[j]])
  BY Zenon DEF Orders
<1>2. IsFiniteSet(S) /\ Cardinality(S) = Len(manifest)
  BY ManifestIs
<1>3. /\ s \in Seq(S) /\ Len(s) = Cardinality(S) /\ Len(s) \in Nat
      /\ EachOnce(s) /\ ToSet(s) = S
  BY <1>1, <1>2, SeqsAre
<1>4. \A m \in S : \E i \in 1 .. Len(s) : m = s[i]
  BY <1>3, MembersOf
<1>5. DOMAIN s = 1 .. Len(s)
  BY <1>3
<1> QED
  BY <1>1, <1>2, <1>3, <1>4, <1>5, Zenon

\* The order by size.
LEMMA BySizeIs ==
    ASSUME PlaceInv, NEW s \in BySize
    PROVE  /\ s \in Seq(ToSet(manifest)) /\ Len(s) = Len(manifest) /\ Len(s) \in Nat
           /\ EachOnce(s) /\ ToSet(s) = ToSet(manifest)
           /\ \A m \in ToSet(manifest) : \E i \in 1 .. Len(s) : m = s[i]
           /\ \A i, j \in 1 .. Len(s) : i < j => s[j].original <= s[i].original
<1> DEFINE key == [m \in ToSet(manifest) |-> [num |-> m.original, den |-> 1]]
<1>1. s \in Orders(key)
  BY Zenon DEF BySize
<1>2. /\ s \in Seq(ToSet(manifest)) /\ Len(s) = Len(manifest) /\ Len(s) \in Nat
      /\ EachOnce(s) /\ ToSet(s) = ToSet(manifest)
      /\ \A m \in ToSet(manifest) : \E i \in 1 .. Len(s) : m = s[i]
      /\ \A i, j \in 1 .. Len(s) : i < j => ~Below(key[s[i]], key[s[j]])
  <2> HIDE DEF key
  <2> QED
    BY <1>1, OrdersAre
<1>3. \A i \in 1 .. Len(s) : s[i] \in ToSet(manifest) /\ s[i].original \in Nat
  BY <1>2, ManifestIs
<1>4. \A i \in 1 .. Len(s) : key[s[i]].num = s[i].original /\ key[s[i]].den = 1
  BY <1>3
<1> HIDE DEF key
<1>5. ASSUME NEW i \in 1 .. Len(s), NEW j \in 1 .. Len(s), i < j
      PROVE  s[j].original <= s[i].original
  <2>1. ~(key[s[i]].num * key[s[j]].den < key[s[j]].num * key[s[i]].den)
    BY <1>2, <1>5 DEF Below
  <2>2. ~(s[i].original * 1 < s[j].original * 1)
    BY <1>4, <2>1
  <2> QED
    BY <1>3, <2>2
<1> QED
  BY <1>2, <1>5

\* The first by size is of the size the statistics call the largest.
LEMMA FirstBySize ==
    ASSUME PlaceInv, ExtremesInv, phase = "done", NEW s \in BySize, Len(s) # 0
    PROVE  s[1].original = stats.largest
<1>1. Counted = Len(manifest) /\ Len(manifest) \in Nat
  BY GivenPlaces DEF Counted
<1>2. LargestOf(stats, Len(manifest))
  BY <1>1, Zenon DEF ExtremesInv
<1>3. /\ s \in Seq(ToSet(manifest)) /\ Len(s) = Len(manifest) /\ Len(s) \in Nat
      /\ \A m \in ToSet(manifest) : \E i \in 1 .. Len(s) : m = s[i]
      /\ \A i, j \in 1 .. Len(s) : i < j => s[j].original <= s[i].original
  BY BySizeIs
<1>4. PICK i \in 1 .. Len(manifest) : manifest[i].original = stats.largest
  BY <1>2, <1>3 DEF LargestOf
<1>5. PICK j \in 1 .. Len(s) : manifest[i] = s[j]
  BY <1>3, ManifestIs
<1>6. s[1] \in ToSet(manifest) /\ s[j] \in ToSet(manifest) /\ 1 \in 1 .. Len(s)
  BY <1>3
<1>7. PICK k \in 1 .. Len(manifest) : s[1] = manifest[k]
  BY <1>6, ManifestIs
<1>8. s[1].original <= stats.largest
  BY <1>2, <1>7 DEF LargestOf
<1>9. s[j].original <= s[1].original
  <2>1. CASE j = 1
    BY <1>6, <2>1, ManifestIs
  <2>2. CASE j # 1
    BY <1>3, <1>6, <2>2
  <2> QED
    BY <2>1, <2>2
<1>10. s[1].original \in Nat /\ s[j].original \in Nat /\ s[j].original = stats.largest
  BY <1>4, <1>5, <1>6, ManifestIs
<1> QED
  BY <1>8, <1>9, <1>10

\* What a report's status says of a list of issues is what the list says.
StatusIs(l) ==
    /\ ~HasErrors(l) <=> Summary(l)["error"] = 0
    /\ ~HasErrors(l) <=> HighestSeverity(l) # "error"
    /\ HasErrors(l) => /\ BySeverity(l, "error") # <<>>
                       /\ FormatDiagnostics(l, CompactFormat).shown # <<>>

\* So it is of every list of issues.
LEMMA StatusHolds ==
    ASSUME NEW n \in Nat, NEW l \in Seq(Issues(n))
    PROVE  StatusIs(l)
<1> PICK T : T = Issues(n)
  OBVIOUS
<1>0. Len(l) \in Nat /\ DOMAIN l = 1 .. Len(l)
  OBVIOUS
<1>1. HasErrors(l) <=> \E i \in 1 .. Len(l) : SeverityOf(l[i]) = "error"
  <2>1. HasErrors(l) <=> \E i \in 1 .. Len(l) : l[i].code \in ErrorCodes
    BY <1>0, Zenon DEF HasErrors
  <2>2. \A i \in 1 .. Len(l) : SeverityOf(l[i]) = "error" <=> l[i].code \in ErrorCodes
    BY SeverityIs
  <2> QED
    BY <2>1, <2>2, Zenon
<1>2. Summary(l)["error"] = 0 <=> \A i \in 1 .. Len(l) : SeverityOf(l[i]) # "error"
  BY SummaryIs
<1>3. HighestSeverity(l) = "error" <=> \E i \in 1 .. Len(l) : SeverityOf(l[i]) = "error"
  BY HighestIs
<1>4. ASSUME HasErrors(l)
      PROVE  BySeverity(l, "error") # <<>> /\ FormatDiagnostics(l, CompactFormat).shown # <<>>
  <2> PICK i \in 1 .. Len(l) : SeverityOf(l[i]) = "error"
    BY <1>1, <1>4
  <2>1. l[i] \in ToSet(l) /\ l[i] \in T
    BY MembersOf
  <2>2. BySeverity(l, "error") # <<>>
    <3> DEFINE S == {d \in ToSet(l) : SeverityOf(d) = "error"}
    <3>1. l[i] \in S
      BY <2>1
    <3> HIDE DEF S
    <3>2. ToSet(Within(l, S)) = ToSet(l) \cap S
      BY WithinMembers
    <3>3. Within(l, S) # <<>>
      <4>1. l[i] \in ToSet(Within(l, S))
        BY <2>1, <3>1, <3>2
      <4>2. ToSet(<<>>) = {}
        BY DEF ToSet
      <4> QED
        BY <4>1, <4>2
    <3> QED
      BY <3>3 DEF BySeverity, S
  <2>3. FormatDiagnostics(l, CompactFormat).shown # <<>>
    <3>1. CompactFormat \in Format /\ CompactFormat.max = 12 /\ "error" \in CompactFormat.enabled
      <4>1. CompactFormat \in Format
        BY FormatsAre
      <4> QED
        BY <4>1 DEF CompactFormat
    <3>2. PICK e \in Seq(T) :
             /\ e = Within(l, Enabled(n, CompactFormat))
             /\ FormatDiagnostics(l, CompactFormat).shown = Limited(e, CompactFormat.max)
      BY <3>1, ShownIs
    <3> DEFINE S == Enabled(n, CompactFormat)
    <3>3. l[i] \in S
      BY <2>1, <3>1 DEF Enabled
    <3> HIDE DEF S
    <3>4. ToSet(Within(l, S)) = ToSet(l) \cap S
      BY WithinMembers
    <3>5. l[i] \in ToSet(e)
      BY <2>1, <3>2, <3>3, <3>4 DEF S
    <3>6. Len(e) # 0 /\ Len(e) \in Nat
      <4>1. ToSet(e) = {e[j] : j \in 1 .. Len(e)}
        BY MembersOf
      <4> QED
        BY <3>5, <4>1
    <3>7. Len(Limited(e, 12)) = (IF 12 = 0 \/ Len(e) <= 12 THEN Len(e) ELSE 12)
      BY LimitedIs, ZenonT(60)
    <3>8. Len(Limited(e, 12)) # 0
      BY <3>6, <3>7
    <3>9. Limited(e, 12) # <<>>
      BY <3>8
    <3> QED
      BY <3>1, <3>2, <3>9
  <2> QED
    BY <2>2, <2>3
<1> QED
  BY <1>1, <1>2, <1>3, <1>4, Zenon DEF StatusIs

\* All rows of a table and those it leaves out.
LEMMA TableIs ==
    ASSUME NEW T, NEW s \in Seq(T), NEW limit \in Nat
    PROVE  /\ Len(Table(s, limit).rows) + Table(s, limit).omitted = Len(s)
           /\ Table(s, limit).rows # <<>> => Len(s) # 0 /\ Head(Table(s, limit).rows) = s[1]
<1>1. CASE limit # 0 /\ limit < Len(s)
  <2>1. /\ SubSeq(s, 1, limit) \in Seq(T) /\ Len(SubSeq(s, 1, limit)) = limit
        /\ \A i \in 1 .. limit : SubSeq(s, 1, limit)[i] = s[i]
    BY <1>1, FirstOfIs
  <2> PICK first \in Seq(T) : first = SubSeq(s, 1, limit)
    BY <2>1
  <2>2. Len(first) = limit /\ first[1] = s[1] /\ Head(first) = first[1]
    BY <1>1, <2>1
  <2>3. Table(s, limit).rows = first /\ Table(s, limit).omitted = Len(s) - limit
    BY <1>1 DEF Table
  <2> QED
    BY <1>1, <2>2, <2>3
<1>2. CASE ~(limit # 0 /\ limit < Len(s))
  <2>1. Table(s, limit).rows = s /\ Table(s, limit).omitted = 0
    BY <1>2 DEF Table
  <2>2. s # <<>> => Len(s) # 0 /\ Head(s) = s[1]
    OBVIOUS
  <2> QED
    BY <2>1, <2>2
<1> QED
  BY <1>1, <1>2

\* ReportAccounts follows.
LEMMA ReportFollows == PlaceInv /\ ExtremesInv => ReportAccounts
<1> SUFFICES ASSUME PlaceInv, ExtremesInv, phase = "done"
             PROVE  ReportAccounts
  BY Zenon DEF ReportAccounts
<1> PICK n \in Nat : n = Len(archive)
  BY GivenPlaces
<1> PICK l \in Seq(Issues(n)) : l = diagnostics
  BY DEF PlaceInv
<1> PICK k \in 0 .. Len(l) : k = inspected
  BY DEF PlaceInv
<1>1. ASSUME NEW format \in Formats \cup {CompactFormat, FullFormat}
      PROVE  /\ ShownOrCounted(InspectionDiagnostics, format)
             /\ ShownOrCounted(diagnostics, format)
             /\ IsPrefix(FormatDiagnostics(InspectionDiagnostics, format).shown,
                         FormatDiagnostics(diagnostics, format).shown)
  <2>1. format \in Format
    BY FormatsAre
  <2>2. k \in Nat /\ k <= Len(l)
    OBVIOUS
  <2>3. SubSeq(l, 1, k) \in Seq(Issues(n))
    BY <2>2, FirstOfIs
  <2>4. InspectionDiagnostics = SubSeq(l, 1, k)
    BY Zenon DEF InspectionDiagnostics
  <2>5. ShownOrCounted(SubSeq(l, 1, k), format)
    BY <2>1, <2>3, ShownOrCountedHolds
  <2>6. ShownOrCounted(l, format)
    BY <2>1, ShownOrCountedHolds
  <2>7. IsPrefix(FormatDiagnostics(SubSeq(l, 1, k), format).shown,
                 FormatDiagnostics(l, format).shown)
    BY <2>1, ShownFirst
  <2> QED
    BY <2>4, <2>5, <2>6, <2>7, Zenon
<1>2. StatusIs(diagnostics)
  BY StatusHolds
<1>3. /\ Verified <=> StatusLine.summary["error"] = 0
      /\ Verified <=> HighestSeverity(diagnostics) # "error"
      /\ ~Verified => /\ BySeverity(diagnostics, "error") # <<>>
                      /\ FormatDiagnostics(diagnostics, CompactFormat).shown # <<>>
  <2>1. StatusLine.summary = Summary(diagnostics)
    BY DEF StatusLine
  <2> QED
    BY <1>2, <2>1, Zenon DEF StatusIs, Verified
<1>4. ASSUME NEW limit \in RowLimits, NEW t \in TopEntries(limit)
      PROVE  /\ Len(t.rows) + t.omitted = StatusLine.entries
             /\ t.rows # <<>> => Head(t.rows).original = stats.largest
  <2>1. PICK s \in BySize : t = Table(s, limit)
    BY Zenon DEF TopEntries
  <2>2. limit \in Nat
    BY ReportsAssumption
  <2>3. s \in Seq(ToSet(manifest)) /\ Len(s) = Len(manifest)
    BY BySizeIs
  <2>4. /\ Len(Table(s, limit).rows) + Table(s, limit).omitted = Len(s)
        /\ Table(s, limit).rows # <<>> => Len(s) # 0 /\ Head(Table(s, limit).rows) = s[1]
    BY <2>2, <2>3, TableIs
  <2>5. StatusLine.entries = Len(manifest)
    <3>1. stats.all.count = Len(manifest)
      BY Zenon DEF ExtremesInv, Counted
    <3> QED
      BY <3>1 DEF StatusLine
  <2>6. Len(s) # 0 => s[1].original = stats.largest
    BY FirstBySize
  <2> QED
    BY <2>1, <2>3, <2>4, <2>5, <2>6, Zenon
<1> QED
  BY <1>1, <1>3, <1>4, Zenon DEF ReportAccounts

\* What report.cc and diagnostics.cc show of an archive accounts for what was
\* found in it, whatever format and whatever limit cuts the report short.
THEOREM ReportTheorem == Spec => []ReportAccounts
<1>1. PlaceInv /\ SummariesInv => ReportAccounts
  BY ReportFollows DEF SummariesInv
<1> QED
  BY <1>1, PlaceTheorem, SummariesTheorem, PTL

-----------------------------------------------------------------------------
(* The lists drawn from the manifest.                                      *)

\* The places of the manifest the summaries count.
CompressedPlaces == {i \in 1 .. Len(manifest) : manifest[i].compressed}
\* those that are nested,
NestedPlaces == {i \in 1 .. Len(manifest) : manifest[i].nested}
\* and those of a group.
GroupPlaces(b, g) == {i \in 1 .. Len(manifest) : Group(manifest[i])[b] = g}

\* How many of some places are among the first n.
PlacesUpTo(P, n) == Cardinality(P \cap (1 .. n))

\* Every tally counts the entries of its group, of which there are some; and the
\* best of the compressed entries is one.
CountsInv ==
    /\ compression.compressed.count = PlacesUpTo(CompressedPlaces, Counted)
    /\ stats.nested = PlacesUpTo(NestedPlaces, Counted)
    /\ compression.best # 0 =>
          \E i \in 1 .. Counted : manifest[i].id = compression.best /\ manifest[i].compressed
    /\ \A b \in Breakdowns :
          /\ DOMAIN breakdowns[b] = {Group(manifest[i])[b] : i \in 1 .. Counted}
          /\ \A g \in DOMAIN breakdowns[b] :
                breakdowns[b][g].count = PlacesUpTo(GroupPlaces(b, g), Counted)

\* One place more.
LEMMA OneMorePlace ==
    ASSUME NEW P, NEW n \in Nat \ {0}
    PROVE  /\ PlacesUpTo(P, n) = PlacesUpTo(P, n - 1) + (IF n \in P THEN 1 ELSE 0)
           /\ PlacesUpTo(P, n - 1) \in Nat /\ PlacesUpTo(P, 0) = 0
           /\ P \cap (1 .. n - 1) = {} => PlacesUpTo(P, n - 1) = 0
<1> DEFINE before == P \cap (1 .. n - 1)
<1>1. n - 1 \in Nat /\ IsFiniteSet(1 .. n - 1)
  BY FS_Interval
<1>2. IsFiniteSet(before) /\ Cardinality(before) \in Nat
  BY <1>1, FS_Subset, FS_CardinalityType
<1>3. n \notin before
  OBVIOUS
<1>4. ASSUME n \in P
      PROVE  PlacesUpTo(P, n) = PlacesUpTo(P, n - 1) + 1
  <2>1. P \cap (1 .. n) = before \cup {n}
    BY <1>4
  <2>2. Cardinality(before \cup {n}) = Cardinality(before) + 1
    <3> HIDE DEF before
    <3> QED
      BY <1>2, <1>3, FS_AddElement
  <2> QED
    BY <2>1, <2>2 DEF PlacesUpTo
<1>5. ASSUME n \notin P
      PROVE  PlacesUpTo(P, n) = PlacesUpTo(P, n - 1)
  <2>1. P \cap (1 .. n) = before
    BY <1>5
  <2> QED
    BY <2>1 DEF PlacesUpTo
<1>6. PlacesUpTo(P, 0) = 0
  <2>1. P \cap (1 .. 0) = {}
    OBVIOUS
  <2> QED
    BY <2>1, FS_EmptySet DEF PlacesUpTo
<1>7. P \cap (1 .. n - 1) = {} => PlacesUpTo(P, n - 1) = 0
  BY FS_EmptySet DEF PlacesUpTo
<1>8. PlacesUpTo(P, n - 1) \in Nat
  BY <1>2 DEF PlacesUpTo
<1> QED
  BY <1>4, <1>5, <1>6, <1>7, <1>8

\* No places.
LEMMA NoPlace ==
    ASSUME NEW P
    PROVE  PlacesUpTo(P, 0) = 0
<1>1. P \cap (1 .. 0) = {}
  OBVIOUS
<1> QED
  BY <1>1, FS_EmptySet DEF PlacesUpTo

\* CountsInv holds before anything is summarized,
LEMMA CountsInit == Init => CountsInv
<1> SUFFICES ASSUME Init PROVE CountsInv
  OBVIOUS
<1>1. /\ phase = "inspect" /\ compression = NoCompression /\ stats = NoStats
      /\ breakdowns = NoBreakdowns
  BY DEF Init
<1>2. Counted = 0 /\ 1 .. Counted = {}
  BY <1>1 DEF Counted
<1>3. \A b \in Breakdowns : DOMAIN breakdowns[b] = {}
  BY <1>1 DEF NoBreakdowns
<1>4. stats.nested = 0 /\ compression.compressed.count = 0 /\ compression.best = 0
  BY <1>1 DEF NoStats, NoCompression, NoTally
<1>5. \A b \in Breakdowns :
          /\ DOMAIN breakdowns[b] = {Group(manifest[i])[b] : i \in 1 .. Counted}
          /\ \A g \in DOMAIN breakdowns[b] :
                breakdowns[b][g].count = PlacesUpTo(GroupPlaces(b, g), Counted)
  BY <1>2, <1>3
<1> QED
  BY <1>2, <1>4, <1>5, NoPlace DEF CountsInv

\* while nothing is,
LEMMA CountsKept ==
    ASSUME CountsInv, UNCHANGED summaries, Counted' = Counted,
           UNCHANGED manifest \/ Counted = 0
    PROVE  CountsInv'
<1>1. stats' = stats /\ compression' = compression /\ breakdowns' = breakdowns
  BY DEF summaries
<1>2. CASE UNCHANGED manifest
  <2>1. CompressedPlaces' = CompressedPlaces /\ NestedPlaces' = NestedPlaces
    BY <1>2, Zenon DEF CompressedPlaces, NestedPlaces
  <2>2. \A b, g : GroupPlaces(b, g)' = GroupPlaces(b, g)
    BY <1>2, Zenon DEF GroupPlaces
  <2> QED
    BY <1>1, <1>2, <2>1, <2>2, Zenon DEF CountsInv, PlacesUpTo
<1>3. CASE Counted = 0
  <2>1. 1 .. Counted = {} /\ 1 .. Counted' = {} /\ Counted' = 0
    BY <1>3
  <2>2. \A b \in Breakdowns : DOMAIN breakdowns[b] = {}
    BY <2>1 DEF CountsInv
  <2>3. compression.compressed.count = 0 /\ stats.nested = 0 /\ compression.best = 0
    BY <1>3, <2>1, NoPlace DEF CountsInv
  <2>4. /\ compression'.compressed.count = PlacesUpTo(CompressedPlaces', Counted')
        /\ stats'.nested = PlacesUpTo(NestedPlaces', Counted')
    BY <1>1, <2>1, <2>3, NoPlace
  <2>5. \A b \in Breakdowns :
          /\ DOMAIN breakdowns'[b] = {Group(manifest'[i])[b] : i \in 1 .. Counted'}
          /\ \A g \in DOMAIN breakdowns'[b] :
                breakdowns'[b][g].count = PlacesUpTo(GroupPlaces(b, g)', Counted')
    BY <1>1, <2>1, <2>2
  <2>6. compression'.best = 0
    BY <1>1, <2>3
  <2> QED
    BY <2>4, <2>5, <2>6, Zenon DEF CountsInv, PlacesUpTo, Group
<1> QED
  BY <1>2, <1>3

\* when an entry is,
LEMMA CountsSummarize ==
    ASSUME PlaceInv, TalliesInv, ExtremesInv, CountsInv, SummarizeEntry
    PROVE  CountsInv'
<1> PICK m \in Descriptions(archive) :
              /\ m = manifest[next] /\ next \in 1 .. Len(manifest)
              /\ Counted = next - 1 /\ Counted' = next /\ manifest' = manifest
              /\ stats' = WithStats(stats, m)
              /\ compression' = WithCompression(compression, m)
              /\ \A b \in Breakdowns : breakdowns'[b] = WithEntry(breakdowns[b], Group(m)[b], m)
              /\ m.compressed \in BOOLEAN /\ m.nested \in BOOLEAN
  BY SummarizeDoes, Zenon
<1> PICK n \in Nat \ {0} : n = next
  BY GivenPlaces
<1>1. /\ stats \in StatsType /\ compression \in CompressionType
      /\ \A b \in Breakdowns : \A g \in DOMAIN breakdowns[b] : breakdowns[b][g] \in Tally
  BY DEF TalliesInv
<1>2. /\ CompressedPlaces' = CompressedPlaces /\ NestedPlaces' = NestedPlaces
      /\ \A b, g : GroupPlaces(b, g)' = GroupPlaces(b, g)
  BY Zenon DEF CompressedPlaces, NestedPlaces, GroupPlaces
<1>3. 1 .. n = (1 .. n - 1) \cup {n} /\ n \in 1 .. Len(manifest)
  OBVIOUS
<1>4. Counted = n - 1 /\ Counted' = n
  OBVIOUS
<1>5. compression'.compressed.count = PlacesUpTo(CompressedPlaces, n)
  <2>1. compression.compressed.count = PlacesUpTo(CompressedPlaces, n - 1)
    BY <1>4, Zenon DEF CountsInv
  <2>2. n \in CompressedPlaces <=> m.compressed
    BY <1>3 DEF CompressedPlaces
  <2>3. PlacesUpTo(CompressedPlaces, n)
          = PlacesUpTo(CompressedPlaces, n - 1) + (IF n \in CompressedPlaces THEN 1 ELSE 0)
    BY OneMorePlace
  <2>5. PlacesUpTo(CompressedPlaces, n - 1) \in Nat
    BY OneMorePlace
  <2>4. compression'.compressed.count
          = compression.compressed.count + (IF m.compressed THEN 1 ELSE 0)
    <3>1. compression.compressed.count \in Nat
      BY <2>1, <2>5
    <3>2. CASE m.compressed
      <4>1. compression'.compressed = Added(compression.compressed, m)
        BY <1>1, <3>2 DEF WithCompression, CompressionType
      <4> QED
        BY <3>2, <4>1 DEF Added
    <3>3. CASE ~m.compressed
      <4>1. compression'.compressed = compression.compressed
        BY <1>1, <3>3 DEF WithCompression, CompressionType
      <4> QED
        BY <3>1, <3>3, <4>1
    <3> QED
      BY <3>2, <3>3
  <2> QED
    BY <2>1, <2>2, <2>3, <2>4, Zenon
<1>6. stats'.nested = PlacesUpTo(NestedPlaces, n)
  <2>1. stats.nested = PlacesUpTo(NestedPlaces, n - 1)
    BY <1>4, Zenon DEF CountsInv
  <2>2. n \in NestedPlaces <=> m.nested
    BY <1>3 DEF NestedPlaces
  <2>3. PlacesUpTo(NestedPlaces, n)
          = PlacesUpTo(NestedPlaces, n - 1) + (IF n \in NestedPlaces THEN 1 ELSE 0)
    BY OneMorePlace
  <2>4. stats'.nested = stats.nested + (IF m.nested THEN 1 ELSE 0)
    BY DEF WithStats
  <2> QED
    BY <2>1, <2>2, <2>3, <2>4, Zenon
<1>7. compression'.best # 0 =>
         \E i \in 1 .. n : manifest[i].id = compression'.best /\ manifest[i].compressed
  <2> SUFFICES ASSUME compression'.best # 0
               PROVE  \E i \in 1 .. n :
                         manifest[i].id = compression'.best /\ manifest[i].compressed
    OBVIOUS
  <2>1. CASE m.compressed /\ compression'.best = m.id
    BY <1>3, <2>1
  <2>2. CASE ~(m.compressed /\ compression'.best = m.id)
    <3>1. compression'.best = compression.best
      BY <1>1, <2>2 DEF WithCompression, CompressionType
    <3>2. \E i \in 1 .. n - 1 : manifest[i].id = compression.best /\ manifest[i].compressed
      BY <1>4, <3>1, Zenon DEF CountsInv
    <3> QED
      BY <1>3, <3>1, <3>2
  <2> QED
    BY <2>1, <2>2
<1>8. ASSUME NEW b \in Breakdowns
      PROVE  /\ DOMAIN breakdowns'[b] = {Group(manifest[i])[b] : i \in 1 .. n}
             /\ \A g \in DOMAIN breakdowns'[b] :
                   breakdowns'[b][g].count = PlacesUpTo(GroupPlaces(b, g), n)
  <2> PICK groups : groups = breakdowns[b]
    OBVIOUS
  <2> PICK h : h = Group(m)[b]
    OBVIOUS
  <2> PICK with : with = breakdowns'[b]
    OBVIOUS
  <2>1. /\ DOMAIN groups = {Group(manifest[i])[b] : i \in 1 .. n - 1}
        /\ \A g \in DOMAIN groups :
              groups[g].count = PlacesUpTo(GroupPlaces(b, g), n - 1)
    BY <1>4, Zenon DEF CountsInv
  <2>2. with = WithEntry(groups, h, m)
    BY Zenon
  <2>3. /\ DOMAIN with = DOMAIN groups \cup {h}
        /\ h \in DOMAIN groups => with[h] = Added(groups[h], m)
        /\ h \notin DOMAIN groups => with[h] = Added(NoTally, m)
        /\ \A x \in DOMAIN groups : x # h => with[x] = groups[x]
    <3>1. /\ DOMAIN WithEntry(groups, h, m) = DOMAIN groups \cup {h}
          /\ h \in DOMAIN groups => WithEntry(groups, h, m)[h] = Added(groups[h], m)
          /\ h \notin DOMAIN groups => WithEntry(groups, h, m)[h] = Added(NoTally, m)
          /\ \A x \in DOMAIN groups : x # h => WithEntry(groups, h, m)[x] = groups[x]
      BY Zenon DEF WithEntry
    <3> QED
      BY <2>2, <3>1, Zenon
  <2>4. DOMAIN with = {Group(manifest[i])[b] : i \in 1 .. n}
    <3>1. Group(manifest[n])[b] = h
      OBVIOUS
    <3> QED
      BY <1>3, <2>1, <2>3, <3>1
  <2>5. ASSUME NEW g \in DOMAIN with
        PROVE  with[g].count = PlacesUpTo(GroupPlaces(b, g), n)
    <3>1. n \in GroupPlaces(b, g) <=> g = h
      BY <1>3 DEF GroupPlaces
    <3> PICK P : P = GroupPlaces(b, g)
      OBVIOUS
    <3>2. PlacesUpTo(P, n) = PlacesUpTo(P, n - 1) + (IF n \in P THEN 1 ELSE 0)
      BY OneMorePlace
    <3>6. PlacesUpTo(P, n - 1) \in Nat
      BY OneMorePlace
    <3>7. P \cap (1 .. n - 1) = {} => PlacesUpTo(P, n - 1) = 0
      BY FS_EmptySet DEF PlacesUpTo
    <3>3. CASE g # h
      <4>1. with[g] = groups[g] /\ g \in DOMAIN groups
        BY <2>3, <3>3
      <4> QED
        BY <2>1, <3>1, <3>2, <3>3, <3>6, <4>1
    <3>4. CASE g = h /\ h \in DOMAIN groups
      <4>1. with[g] = Added(groups[g], m) /\ g \in DOMAIN groups
        BY <2>3, <3>4
      <4>2. with[g].count = groups[g].count + 1
        BY <4>1 DEF Added
      <4> QED
        BY <2>1, <3>1, <3>2, <3>4, <4>1, <4>2
    <3>5. CASE g = h /\ h \notin DOMAIN groups
      <4>1. with[g] = Added(NoTally, m) /\ g \notin DOMAIN groups
        BY <2>3, <3>5
      <4>2. with[g].count = 0 + 1
        BY <4>1 DEF Added, NoTally
      <4>3. GroupPlaces(b, g) \cap (1 .. n - 1) = {}
        BY <2>1, <4>1 DEF GroupPlaces
      <4> QED
        BY <3>1, <3>2, <3>5, <3>7, <4>2, <4>3
    <3> QED
      BY <3>3, <3>4, <3>5
  <2> QED
    BY <2>4, <2>5, Zenon
<1>9. \A b \in Breakdowns :
         /\ DOMAIN breakdowns'[b] = {Group(manifest[i])[b] : i \in 1 .. n}
         /\ \A g \in DOMAIN breakdowns'[b] :
               breakdowns'[b][g].count = PlacesUpTo(GroupPlaces(b, g), n)
  BY <1>8, Zenon
<1> QED
  BY <1>2, <1>4, <1>5, <1>6, <1>7, <1>9, ZenonT(60) DEF CountsInv, PlacesUpTo

\* after every step,
LEMMA CountsStep ==
    PlaceInv /\ TalliesInv /\ ExtremesInv /\ CountsInv /\ [Next]_vars => CountsInv'
<1> SUFFICES ASSUME PlaceInv, TalliesInv, ExtremesInv, CountsInv, [Next]_vars
             PROVE  CountsInv'
  BY Zenon
<1>2. next \in Nat /\ Len(manifest) \in Nat
  BY GivenPlaces DEF PlaceInv
<1>4. ASSUME UNCHANGED summaries,
             phase \notin {"summarize", "done"}, phase' \notin {"summarize", "done"}
      PROVE  CountsInv'
  <2>1. Counted = 0 /\ Counted' = 0
    BY <1>4 DEF Counted
  <2> QED
    BY <1>4, <2>1, CountsKept
<1>3. CASE InspectEntry
  <2>1. UNCHANGED summaries /\ phase = "inspect" /\ phase' = "inspect"
    BY <1>3 DEF InspectEntry, At
  <2> QED
    BY <1>4, <2>1
<1>5. CASE EndInspection
  <2>1. UNCHANGED summaries /\ phase = "inspect" /\ phase' = "header"
    BY <1>5 DEF EndInspection, Past
  <2> QED
    BY <1>4, <2>1
<1>6. CASE CheckHeader
  <2>1. UNCHANGED summaries /\ phase = "header" /\ phase' = "format"
    BY <1>6 DEF CheckHeader
  <2> QED
    BY <1>4, <2>1
<1>7. CASE CheckFormat
  <2>1. UNCHANGED summaries /\ phase = "format" /\ phase' = "format"
    BY <1>7 DEF CheckFormat, At
  <2> QED
    BY <1>4, <2>1
<1>8. CASE ValidateTotals
  <2>1. UNCHANGED summaries /\ phase = "format" /\ phase' = "entries"
    BY <1>8 DEF ValidateTotals, Past
  <2> QED
    BY <1>4, <2>1
<1>9. CASE ValidateEntry
  <2>1. UNCHANGED summaries /\ phase = "entries" /\ phase' = "entries"
    BY <1>9 DEF ValidateEntry, At
  <2> QED
    BY <1>4, <2>1
<1>10. CASE EndValidation
  <2>1. UNCHANGED manifest /\ UNCHANGED summaries /\ phase = "entries"
        /\ phase' = "summarize" /\ next' = 1
    BY <1>10 DEF EndValidation, Past
  <2>2. Counted = 0 /\ Counted' = 0
    BY <2>1 DEF Counted
  <2> QED
    BY <2>1, <2>2, CountsKept
<1>11. CASE SummarizeEntry
  BY <1>11, CountsSummarize
<1>12. CASE Compare
  <2>1. UNCHANGED manifest /\ UNCHANGED summaries /\ phase = "summarize"
        /\ phase' = "done" /\ next > Len(manifest)
    BY <1>12 DEF Compare, Past
  <2>2. Counted \in 0 .. Len(manifest)
    BY Zenon DEF ExtremesInv
  <2>3. Counted = Len(manifest) /\ Counted' = Len(manifest)
    BY <1>2, <2>1, <2>2 DEF Counted
  <2> QED
    BY <2>1, <2>3, CountsKept
<1>13. CASE UNCHANGED vars
  <2>1. UNCHANGED manifest /\ UNCHANGED summaries /\ Counted' = Counted
    BY <1>13 DEF vars, Counted, summaries
  <2> QED
    BY <2>1, CountsKept
<1> QED
  BY <1>3, <1>5, <1>6, <1>7, <1>8, <1>9, <1>10, <1>11, <1>12, <1>13 DEF Next, Finished

\* and so always.
LEMMA CountsTheorem == Spec => []CountsInv
<1>1. Init => PlaceInv /\ SummariesInv /\ CountsInv
  BY PlaceInit, TalliesInit, SumsInit, CountsInit DEF SummariesInv
<1>2. PlaceInv /\ SummariesInv /\ CountsInv /\ [Next]_vars
        => PlaceInv' /\ SummariesInv' /\ CountsInv'
  <2>1. SummariesInv => TalliesInv /\ ExtremesInv
    BY Zenon DEF SummariesInv
  <2> QED
    BY <2>1, PlaceStep, PlaceStutters, SummariesStep, CountsStep, Zenon
<1> QED
  BY <1>1, <1>2, PTL DEF Spec

\* A list cut off has its first members, in their order.
LEMMA CutOffIs ==
    ASSUME NEW T, NEW s \in Seq(T), NEW limit \in Nat, NEW c, c = CutOff(s, limit)
    PROVE  /\ c \in Seq(T) /\ Len(c) = Smaller(limit, Len(s)) /\ Len(c) <= Len(s)
           /\ \A i \in 1 .. Len(c) : c[i] = s[i]
           /\ \A m \in ToSet(s) \ ToSet(c), x \in ToSet(c) :
                 \E i, j \in 1 .. Len(s) : i < j /\ x = s[i] /\ m = s[j]
<1> PICK n \in Nat : n = Smaller(limit, Len(s)) /\ n <= Len(s)
  BY DEF Smaller
<1>1. c = SubSeq(s, 1, n)
  BY DEF CutOff
<1>2. SubSeq(s, 1, n) \in Seq(T) /\ Len(SubSeq(s, 1, n)) = n
      /\ \A i \in 1 .. n : SubSeq(s, 1, n)[i] = s[i]
  BY FirstOfIs
<1>3. c \in Seq(T) /\ Len(c) = n /\ \A i \in 1 .. n : c[i] = s[i]
  BY <1>1, <1>2
<1>4. ASSUME NEW m \in ToSet(s) \ ToSet(c), NEW x \in ToSet(c)
      PROVE  \E i, j \in 1 .. Len(s) : i < j /\ x = s[i] /\ m = s[j]
  <2>1. ToSet(s) = {s[i] : i \in 1 .. Len(s)} /\ ToSet(c) = {c[i] : i \in 1 .. Len(c)}
    BY <1>3, MembersOf
  <2> PICK j \in 1 .. Len(s) : m = s[j]
    BY <2>1
  <2> PICK i \in 1 .. n : x = c[i]
    BY <1>3, <2>1
  <2>2. ~(j <= n)
    <3> SUFFICES ASSUME j <= n PROVE FALSE
      OBVIOUS
    <3>1. c[j] = m /\ j \in 1 .. Len(c)
      BY <1>3
    <3> QED
      BY <2>1, <3>1
  <2> QED
    BY <1>3, <2>2
<1> QED
  BY <1>3, <1>4

\* The order by ratio.
LEMMA ByRatioIs ==
    ASSUME PlaceInv, NEW s \in ByRatio
    PROVE  /\ s \in Seq(ToSet(manifest)) /\ Len(s) \in Nat
           /\ EachOnce(s) /\ ToSet(s) = ToSet(manifest)
           /\ \A i, j \in 1 .. Len(s) : i < j => ~Below(Ratio(s[i]), Ratio(s[j]))
<1> DEFINE key == [m \in ToSet(manifest) |-> Ratio(m)]
<1>1. s \in Orders(key)
  BY Zenon DEF ByRatio
<1>2. /\ s \in Seq(ToSet(manifest)) /\ Len(s) \in Nat
      /\ EachOnce(s) /\ ToSet(s) = ToSet(manifest)
      /\ \A i, j \in 1 .. Len(s) : i < j => ~Below(key[s[i]], key[s[j]])
  <2> HIDE DEF key
  <2> QED
    BY <1>1, OrdersAre
<1>3. \A i \in 1 .. Len(s) : key[s[i]] = Ratio(s[i])
  BY <1>2
<1> QED
  BY <1>2, <1>3, Zenon

\* As many entries are of a kind as there are places of the manifest with one.
LEMMA PlacesCounted ==
    ASSUME PlaceInv, NEW S, S \subseteq ToSet(manifest)
    PROVE  /\ IsFiniteSet(S)
           /\ Cardinality(S) = PlacesUpTo({i \in 1 .. Len(manifest) : manifest[i] \in S},
                                          Len(manifest))
<1> PICK l : l = manifest
  OBVIOUS
<1> DEFINE P == {i \in 1 .. Len(l) : l[i] \in S}
<1>1. /\ Len(l) \in Nat /\ \A m \in ToSet(l) : \E i \in 1 .. Len(l) : m = l[i]
      /\ \A i, j \in 1 .. Len(l) : l[i] = l[j] => i = j
  BY ManifestIs DEF EachOnce
<1>2. IsFiniteSet(P)
  <2>1. IsFiniteSet(1 .. Len(l)) /\ P \in SUBSET (1 .. Len(l))
    BY <1>1, FS_Interval
  <2> HIDE DEF P
  <2> QED
    BY <2>1, FS_Subset
<1>3. \A i, j \in P : l[i] = l[j] => i = j
  BY <1>1
<1>4. {l[i] : i \in P} = S
  BY <1>1
<1>5. P \cap (1 .. Len(l)) = P
  OBVIOUS
<1>6. IsFiniteSet({l[i] : i \in P}) /\ Cardinality({l[i] : i \in P}) = Cardinality(P)
  <2> HIDE DEF P
  <2> QED
    BY <1>2, <1>3, ImageOnce
<1> QED
  BY <1>4, <1>5, <1>6, Zenon DEF PlacesUpTo

\* As many entries are compressed as were counted.
LEMMA CompressedAre ==
    ASSUME PlaceInv, CountsInv, phase = "done", NEW S, S = {m \in ToSet(manifest) : m.compressed}
    PROVE  IsFiniteSet(S) /\ Cardinality(S) = compression.compressed.count
<1>1. /\ IsFiniteSet(S)
      /\ Cardinality(S) = PlacesUpTo({i \in 1 .. Len(manifest) : manifest[i] \in S},
                                     Len(manifest))
  BY PlacesCounted, Zenon
<1>2. {i \in 1 .. Len(manifest) : manifest[i] \in S} = CompressedPlaces
  BY ManifestIs DEF CompressedPlaces
<1>3. Counted = Len(manifest)
  BY DEF Counted
<1>4. compression.compressed.count = PlacesUpTo(CompressedPlaces, Counted)
  BY Zenon DEF CountsInv
<1> QED
  BY <1>1, <1>2, <1>3, <1>4, Zenon

\* Lists by ratio, of the compressed entries only.
OnlyCompressed(s) == Within(s, {m \in ToSet(s) : m.compressed})

\* They are those of the order by ratio that are taken out of it.
LEMMA CompressedByRatio ==
    ASSUME PlaceInv, CountsInv, phase = "done", NEW s \in ByRatio, NEW w,
           w = OnlyCompressed(s)
    PROVE  /\ w \in Seq(ToSet(manifest)) /\ Len(w) = compression.compressed.count
           /\ ToSet(w) = {m \in ToSet(manifest) : m.compressed}
           /\ \A m \in ToSet(w) : \E i \in 1 .. Len(w) : m = w[i]
           /\ \A i, j \in 1 .. Len(w) : i < j => ~Below(Ratio(w[i]), Ratio(w[j]))
<1> PICK T : T = ToSet(manifest)
  OBVIOUS
<1> PICK S : S = {m \in T : m.compressed}
  OBVIOUS
<1>1. /\ s \in Seq(T) /\ EachOnce(s) /\ ToSet(s) = T
      /\ \A i, j \in 1 .. Len(s) : i < j => ~Below(Ratio(s[i]), Ratio(s[j]))
  BY ByRatioIs
<1>2. w = Within(s, S)
  BY <1>1 DEF OnlyCompressed
<1>3. w \in Seq(T) /\ ToSet(w) = S
  <2>1. Within(s, S) \in Seq(T) /\ ToSet(Within(s, S)) = ToSet(s) \cap S
    BY <1>1, WithinMembers
  <2> QED
    BY <1>1, <1>2, <2>1
<1>4. EachOnce(w)
  BY <1>1, <1>2, WithinOnce
<1>5. Cardinality(ToSet(w)) = Len(w)
  BY <1>3, <1>4, OnceIs
<1>6. Cardinality(S) = compression.compressed.count
  BY CompressedAre
<1>7. \A m \in ToSet(w) : \E i \in 1 .. Len(w) : m = w[i]
  <2>1. w \in Seq(T)
    BY <1>3
  <2>2. ToSet(w) = {w[i] : i \in 1 .. Len(w)}
    BY <2>1, MembersOf
  <2> QED
    BY <2>2
<1>8. PICK place : Places(place, w, s, S, Len(s))
  BY <1>1, <1>2, WithinPlaces
<1>9. /\ \A i \in 1 .. Len(w) : w[i] = s[place[i]] /\ place[i] \in 1 .. Len(s)
      /\ \A i, j \in 1 .. Len(w) : i < j => place[i] < place[j]
  BY <1>8 DEF Places
<1>10. \A i, j \in 1 .. Len(w) : i < j => ~Below(Ratio(w[i]), Ratio(w[j]))
  BY <1>1, <1>9, Zenon
<1> QED
  BY <1>3, <1>5, <1>6, <1>7, <1>10, Zenon

\* The list of the largest entries,
LEMMA LargestCutOff ==
    ASSUME PlaceInv, ExtremesInv, phase = "done", NEW limit \in Nat,
           NEW s \in LargestEntries(limit)
    PROVE  /\ Len(s) = Smaller(limit, stats.all.count)
           /\ s # <<>> => Head(s).original = stats.largest
           /\ \A m \in ToSet(manifest) \ ToSet(s), x \in ToSet(s) : m.original <= x.original
<1> PICK T : T = ToSet(manifest)
  OBVIOUS
<1>1. PICK t \in BySize : s = CutOff(t, limit)
  BY Zenon DEF LargestEntries
<1>2. /\ t \in Seq(T) /\ Len(t) = Len(manifest) /\ ToSet(t) = T /\ Len(t) \in Nat
      /\ \A i, j \in 1 .. Len(t) : i < j => t[j].original <= t[i].original
  BY BySizeIs
<1>3. /\ s \in Seq(T) /\ Len(s) = Smaller(limit, Len(t)) /\ Len(s) <= Len(t)
      /\ \A i \in 1 .. Len(s) : s[i] = t[i]
  BY <1>1, <1>2, CutOffIs
<1>4. \A m \in ToSet(t) \ ToSet(s), x \in ToSet(s) :
         \E i, j \in 1 .. Len(t) : i < j /\ x = t[i] /\ m = t[j]
  BY <1>1, <1>2, CutOffIs
<1>5. stats.all.count = Len(manifest)
  BY Zenon DEF ExtremesInv, Counted
<1>6. Len(t) # 0 => t[1].original = stats.largest
  BY FirstBySize
<1>7. ASSUME s # <<>> PROVE Head(s).original = stats.largest
  <2>1. Len(s) \in Nat \ {0} /\ Head(s) = s[1]
    BY <1>3, <1>7
  <2>2. s[1] = t[1] /\ Len(t) # 0
    BY <1>2, <1>3, <2>1
  <2> QED
    BY <1>6, <2>1, <2>2
<1>8. \A m \in T \ ToSet(s), x \in ToSet(s) : m.original <= x.original
  BY <1>2, <1>4
<1> QED
  BY <1>2, <1>3, <1>5, <1>7, <1>8, Zenon

\* that of the most compressed,
LEMMA MostCompressedCutOff ==
    ASSUME PlaceInv, ExtremesInv, CountsInv, phase = "done", NEW limit \in Nat,
           NEW s \in MostCompressedEntries(limit)
    PROVE  /\ Len(s) = Smaller(limit, compression.compressed.count)
           /\ s # <<>> => ~Below(Ratio(Head(s)), Ratio(Listed(compression.best)))
           /\ \A m \in ToSet(manifest) \ ToSet(s), x \in ToSet(s) :
                 m.compressed => ~Below(Ratio(x), Ratio(m))
<1> PICK T : T = ToSet(manifest)
  OBVIOUS
<1>1. PICK t \in ByRatio : s = CutOff(OnlyCompressed(t), limit)
  BY Zenon DEF MostCompressedEntries, OnlyCompressed
<1> PICK w : w = OnlyCompressed(t)
  OBVIOUS
<1>2. /\ w \in Seq(T) /\ Len(w) = compression.compressed.count
      /\ ToSet(w) = {m \in T : m.compressed}
      /\ \A m \in ToSet(w) : \E i \in 1 .. Len(w) : m = w[i]
      /\ \A i, j \in 1 .. Len(w) : i < j => ~Below(Ratio(w[i]), Ratio(w[j]))
  BY CompressedByRatio
<1>3. s = CutOff(w, limit) /\ Len(w) \in Nat /\ w \in Seq(T)
  BY <1>1, <1>2
<1>4. /\ s \in Seq(T) /\ Len(s) = Smaller(limit, Len(w)) /\ Len(s) <= Len(w)
      /\ \A i \in 1 .. Len(s) : s[i] = w[i]
  BY <1>3, CutOffIs
<1>5. \A m \in ToSet(w) \ ToSet(s), x \in ToSet(s) :
         \E i, j \in 1 .. Len(w) : i < j /\ x = w[i] /\ m = w[j]
  BY <1>3, CutOffIs
<1>6. \A m \in T \ ToSet(s), x \in ToSet(s) : m.compressed => ~Below(Ratio(x), Ratio(m))
  <2> TAKE m \in T \ ToSet(s), x \in ToSet(s)
  <2> HAVE m.compressed
  <2>1. m \in ToSet(w) \ ToSet(s)
    BY <1>2
  <2>2. PICK i \in 1 .. Len(w), j \in 1 .. Len(w) : i < j /\ x = w[i] /\ m = w[j]
    BY <1>5, <2>1
  <2> QED
    BY <1>2, <2>2
<1>7. ASSUME s # <<>> PROVE ~Below(Ratio(Head(s)), Ratio(Listed(compression.best)))
  <2>1. Len(s) \in Nat \ {0} /\ Head(s) = s[1]
    BY <1>4, <1>7
  <2>2. s[1] = w[1] /\ 1 \in 1 .. Len(w) /\ w[1] \in T /\ w[1] \in ToSet(w)
    BY <1>2, <1>3, <1>4, <2>1, MembersOf
  <2>3. w[1].compressed
    BY <1>2, <2>2
  <2>4. Counted = Len(manifest)
    BY DEF Counted
  <2>5. PICK k \in 1 .. Len(manifest) : w[1] = manifest[k]
    BY <2>2, ManifestIs
  <2>6. compression.best # 0
    BY <2>3, <2>4, <2>5, Zenon DEF ExtremesInv, BestOf
  <2>7. PICK i \in 1 .. Len(manifest) :
           manifest[i].id = compression.best /\ manifest[i].compressed
    BY <2>4, <2>6, Zenon DEF CountsInv
  <2>8. Listed(compression.best) = manifest[i] /\ manifest[i] \in T
    BY <2>7, ListedIs, ManifestIs
  <2>9. PICK j \in 1 .. Len(w) : manifest[i] = w[j]
    BY <1>2, <2>7, <2>8
  <2>10. Ratio(w[1]) \in Fraction
    BY <2>2, RatioIs, ManifestIs
  <2>11. ~Below(Ratio(w[1]), Ratio(w[j]))
    <3>1. CASE j = 1
      BY <2>10, <3>1, BelowIsOneWay
    <3>2. CASE j # 1
      BY <1>2, <2>2, <3>2
    <3> QED
      BY <3>1, <3>2
  <2> QED
    BY <2>1, <2>2, <2>8, <2>9, <2>11, Zenon
<1> QED
  BY <1>2, <1>4, <1>6, <1>7, Zenon

\* and so the lists that are cut off.
LEMMA CutOffsFollow ==
    ASSUME PlaceInv, ExtremesInv, CountsInv, phase = "done", NEW limit \in Nat
    PROVE  CutOffsExact(limit)
  BY LargestCutOff, MostCompressedCutOff, Zenon DEF CutOffsExact

\* The list of the entries of a kind, and the summaries' count of them.
LEMMA TakenAre ==
    ASSUME PlaceInv, NEW S, S \subseteq ToSet(manifest), NEW P,
           P = {i \in 1 .. Len(manifest) : manifest[i] \in S}
    PROVE  /\ ToSet(Within(manifest, S)) = S
           /\ Len(Within(manifest, S)) = PlacesUpTo(P, Len(manifest))
           /\ Cardinality(S) = PlacesUpTo(P, Len(manifest))
<1> PICK T : T = ToSet(manifest)
  OBVIOUS
<1>1. manifest \in Seq(T) /\ EachOnce(manifest)
  BY ManifestIs
<1>2. Within(manifest, S) \in Seq(T) /\ ToSet(Within(manifest, S)) = ToSet(manifest) \cap S
  BY <1>1, WithinMembers
<1>3. EachOnce(Within(manifest, S))
  BY <1>1, WithinOnce
<1>4. Cardinality(ToSet(Within(manifest, S))) = Len(Within(manifest, S))
  BY <1>2, <1>3, OnceIs
<1>5. Cardinality(S) = PlacesUpTo({i \in 1 .. Len(manifest) : manifest[i] \in S}, Len(manifest))
  BY PlacesCounted, Zenon
<1>6. ToSet(Within(manifest, S)) = S
  BY <1>2
<1> QED
  BY <1>4, <1>5, <1>6, Zenon

\* The places of a group are as many as were counted in it.
LEMMA GroupIs ==
    ASSUME CountsInv, phase = "done", NEW b \in Breakdowns, NEW g
    PROVE  PlacesUpTo(GroupPlaces(b, g), Len(manifest))
             = IF g \in DOMAIN breakdowns[b] THEN breakdowns[b][g].count ELSE 0
<1>1. Counted = Len(manifest)
  BY DEF Counted
<1>2. /\ DOMAIN breakdowns[b] = {Group(manifest[i])[b] : i \in 1 .. Len(manifest)}
      /\ \A h \in DOMAIN breakdowns[b] :
            breakdowns[b][h].count = PlacesUpTo(GroupPlaces(b, h), Len(manifest))
  BY <1>1, Zenon DEF CountsInv
<1>3. CASE g \in DOMAIN breakdowns[b]
  BY <1>2, <1>3
<1>4. CASE g \notin DOMAIN breakdowns[b]
  <2>1. GroupPlaces(b, g) \cap (1 .. Len(manifest)) = {}
    BY <1>2, <1>4 DEF GroupPlaces
  <2> QED
    BY <1>4, <2>1, FS_EmptySet DEF PlacesUpTo
<1> QED
  BY <1>3, <1>4

\* The list of a depth.
LEMMA DepthListed ==
    ASSUME PlaceInv, CountsInv, phase = "done", NEW d \in DOMAIN breakdowns["depth"]
    PROVE  /\ Len(EntriesAtDepth(d)) = breakdowns["depth"][d].count
           /\ FilterByDepth(d, d) = ToSet(EntriesAtDepth(d))
<1> DEFINE S == {m \in ToSet(manifest) : m.depth = d}
           P == {i \in 1 .. Len(manifest) : manifest[i] \in S}
<1>1. "depth" \in Breakdowns
  BY DEF Breakdowns
<1>2. P = GroupPlaces("depth", d)
  <2>1. \A i \in 1 .. Len(manifest) : manifest[i] \in ToSet(manifest)
    BY ManifestIs
  <2>2. \A m : Group(m)["depth"] = m.depth
    BY DEF Group
  <2> QED
    BY <2>1, <2>2 DEF GroupPlaces
<1>3. S \subseteq ToSet(manifest)
  OBVIOUS
<1>4. /\ ToSet(Within(manifest, S)) = S
      /\ Len(Within(manifest, S)) = PlacesUpTo(P, Len(manifest))
  <2> HIDE DEF S
  <2> QED
    BY <1>3, TakenAre
<1>5. PlacesUpTo(GroupPlaces("depth", d), Len(manifest)) = breakdowns["depth"][d].count
  BY <1>1, GroupIs
<1>6. FilterByDepth(d, d) = S
  <2>1. \A m \in ToSet(manifest) : m.depth \in Nat
    <3> TAKE m \in ToSet(manifest)
    <3>1. m \in Descriptions(archive) /\ options.max_depth \in Nat
      BY ManifestIs, GivenPlaces
    <3>2. m.depth \in 0 .. options.max_depth
      BY <3>1, DescriptionsAre
    <3> QED
      BY <3>1, <3>2
  <2>2. d \in Nat
    <3>1. Counted = Len(manifest)
      BY DEF Counted
    <3>2. DOMAIN breakdowns["depth"] = {Group(manifest[i])["depth"] : i \in 1 .. Len(manifest)}
      BY <1>1, <3>1, Zenon DEF CountsInv
    <3>3. PICK i \in 1 .. Len(manifest) : d = Group(manifest[i])["depth"]
      BY <3>2
    <3>4. d = manifest[i].depth
      BY <3>3 DEF Group
    <3> QED
      BY <2>1, <3>4, ManifestIs
  <2> QED
    BY <2>1, <2>2 DEF FilterByDepth, Catalog
<1>7. EntriesAtDepth(d) = Within(manifest, S)
  BY DEF EntriesAtDepth
<1> HIDE DEF S, P
<1> QED
  BY <1>2, <1>4, <1>5, <1>6, <1>7, Zenon

\* Folding twice changes nothing more.
LEMMA FoldedIs ==
    ASSUME NEW w \in Words, NEW t, NEW c, c = [word |-> w, tail |-> t]
    PROVE  Folded(Folded(c)) = Folded(c)
<1>1. Lexicon[w].fold \in Words /\ Lexicon[Lexicon[w].fold].fold = Lexicon[w].fold
  BY WordIs, PathsAssumption DEF WordFacts
<1>2. ASSUME NEW v, NEW u
      PROVE  [[word |-> v, tail |-> t] EXCEPT !.word = u] = [word |-> u, tail |-> t]
  OBVIOUS
<1>3. \A v : Folded([word |-> v, tail |-> t]) = [word |-> Lexicon[v].fold, tail |-> t]
  <2> TAKE v
  <2>1. [word |-> v, tail |-> t].word = v
    OBVIOUS
  <2> QED
    BY <1>2, <2>1, Zenon DEF Folded
<1> QED
  BY <1>1, <1>3, Zenon

\* An extension is a word with a tail, and that a word which ends another, or none.
LEMMA ExtensionIs ==
    ASSUME NEW c \in Component
    PROVE  \E v \in Words : \E t : Extension(c) = [word |-> Lexicon[v].ext, tail |-> t]
<1>1. /\ NoWord \in Words /\ Lexicon[NoWord].ext = NoWord
      /\ c.word \in Words /\ Lexicon[c.word].ext \in Words
  BY WordsOf, PathsAssumption
<1>2. [c EXCEPT !.word = Lexicon[c.word].ext] = [word |-> Lexicon[c.word].ext, tail |-> c.tail]
  BY DEF Component
<1>3. Empty = [word |-> NoWord, tail |-> <<>>]
  BY DEF Empty, Bare
<1>4. \/ Extension(c) = [word |-> NoWord, tail |-> SubSeq(c.tail, LastDot(c), Len(c.tail))]
      \/ Extension(c) = [c EXCEPT !.word = Lexicon[c.word].ext]
      \/ Extension(c) = Empty
  BY DEF Extension
<1> QED
  BY <1>1, <1>2, <1>3, <1>4, Zenon

\* Folding changes the word.
LEMMA FoldedWord ==
    ASSUME NEW v, NEW t
    PROVE  Folded([word |-> v, tail |-> t]) = [word |-> Lexicon[v].fold, tail |-> t]
<1>1. [[word |-> v, tail |-> t] EXCEPT !.word = Lexicon[v].fold]
        = [word |-> Lexicon[v].fold, tail |-> t]
  OBVIOUS
<1>2. [word |-> v, tail |-> t].word = v
  OBVIOUS
<1> QED
  BY <1>1, <1>2, Zenon DEF Folded

\* In lower case, no extension is what those without one are counted as.
LEMMA FoldedExtension ==
    ASSUME PlaceInv, NEW i \in 1 .. Len(manifest), NEW ext,
           ext = Folded(Extension(Last(manifest[i].name.components)))
    PROVE  Folded(ext) = ext /\ ext # NoExtension
<1> PICK m : m = manifest[i]
  OBVIOUS
<1>1. m.name \in Name
  BY ManifestIs, DescribedEntry
<1>2. Last(m.name.components) \in Component
  BY <1>1, NameType DEF Last
<1> PICK v \in Words : \E u :
      Extension(Last(m.name.components)) = [word |-> Lexicon[v].ext, tail |-> u]
  BY <1>2, ExtensionIs
<1>3. PICK t : Extension(Last(m.name.components)) = [word |-> Lexicon[v].ext, tail |-> t]
  OBVIOUS
<1>4. Lexicon[v].ext \in Words
  BY WordIs DEF WordFacts
<1>5. Folded(ext) = ext
  BY <1>3, <1>4, FoldedIs
<1>6. ext = [word |-> Lexicon[Lexicon[v].ext].fold, tail |-> t]
  BY <1>3, FoldedWord
<1>7. NoExtension = [word |-> Lexicon[NoneWord].fold, tail |-> <<>>]
  BY FoldedWord DEF NoExtension, Bare
<1>8. Lexicon[Lexicon[v].ext].fold # Lexicon[NoneWord].fold
  BY NoneAssumption
<1> QED
  BY <1>5, <1>6, <1>7, <1>8

\* What is asked for and what is called "(none)" are what they are in lower case.
LEMMA NamedGroups == Folded(Empty) = Empty /\ Folded(NoExtension) = NoExtension
<1>1. Folded(Empty) = Empty
  BY FoldedWord, NoneAssumption DEF Empty, Bare
<1>2. NoneWord \in Words
  BY NoneAssumption
<1>3. Folded(NoExtension) = NoExtension
  BY <1>2, FoldedIs DEF NoExtension, Bare
<1> QED
  BY <1>1, <1>3

\* The places whose extension is asked for.
Asked(e) ==
    {i \in 1 .. Len(manifest) :
       Folded(Extension(Last(manifest[i].name.components))) = Folded(e)}

\* The list of an extension is as long as there are such places.
LEMMA ExtensionPlaces ==
    ASSUME PlaceInv, NEW e
    PROVE  Len(EntriesWithExtension(e)) = PlacesUpTo(Asked(e), Len(manifest))
<1> DEFINE S == {m \in ToSet(manifest) :
                   Folded(Extension(Last(m.name.components))) = Folded(e)}
<1>1. \A i \in 1 .. Len(manifest) : manifest[i] \in ToSet(manifest)
  BY ManifestIs
<1>2. Asked(e) = {i \in 1 .. Len(manifest) : manifest[i] \in S}
  BY <1>1 DEF Asked
<1>3. S \subseteq ToSet(manifest)
  OBVIOUS
<1>4. EntriesWithExtension(e) = Within(manifest, S)
  BY Zenon DEF EntriesWithExtension
<1> HIDE DEF S
<1> QED
  BY <1>2, <1>3, <1>4, TakenAre

\* Of no places there are none.
LEMMA NowhereIs == ASSUME NEW n PROVE PlacesUpTo({}, n) = 0
<1>1. {} \cap (1 .. n) = {}
  OBVIOUS
<1> QED
  BY <1>1, FS_EmptySet DEF PlacesUpTo

\* The lists of the extensions.
LEMMA ExtensionsListed ==
    ASSUME PlaceInv, CountsInv, phase = "done"
    PROVE  /\ \A e \in DOMAIN breakdowns["extension"] :
                Len(EntriesWithExtension(e)) =
                  IF e = NoExtension THEN 0 ELSE breakdowns["extension"][e].count
           /\ Len(EntriesWithExtension(Empty)) =
                IF NoExtension \in DOMAIN breakdowns["extension"]
                  THEN breakdowns["extension"][NoExtension].count ELSE 0
<1> PICK groups : groups = breakdowns["extension"]
  OBVIOUS
<1>1. "extension" \in Breakdowns
  BY DEF Breakdowns
<1>2. DOMAIN groups = {Group(manifest[i])["extension"] : i \in 1 .. Len(manifest)}
  <2>1. Counted = Len(manifest)
    BY DEF Counted
  <2> QED
    BY <1>1, <2>1, Zenon DEF CountsInv
<1>3. PICK ext : ext = [i \in 1 .. Len(manifest) |->
                          Folded(Extension(Last(manifest[i].name.components)))]
  OBVIOUS
<1>4. ASSUME NEW i \in 1 .. Len(manifest)
      PROVE  /\ Folded(ext[i]) = ext[i] /\ ext[i] # NoExtension
             /\ Group(manifest[i])["extension"] = IF ext[i] = Empty THEN NoExtension ELSE ext[i]
  <2>1. ext[i] = Folded(Extension(Last(manifest[i].name.components)))
    BY <1>3
  <2>2. Folded(ext[i]) = ext[i] /\ ext[i] # NoExtension
    BY <2>1, FoldedExtension
  <2>3. Group(manifest[i])["extension"] = ExtensionGroup(manifest[i].name)
    BY DEF Group
  <2>4. ExtensionGroup(manifest[i].name) = IF ext[i] = Empty THEN NoExtension ELSE ext[i]
    BY <2>1, Zenon DEF ExtensionGroup
  <2> QED
    BY <2>2, <2>3, <2>4
<1>5. \A e : Asked(e) = {i \in 1 .. Len(manifest) : ext[i] = Folded(e)}
  BY <1>3 DEF Asked
<1>6. \A e \in DOMAIN groups : PlacesUpTo(GroupPlaces("extension", e), Len(manifest)) = groups[e].count
  BY <1>1, GroupIs
<1>7. ASSUME NEW e \in DOMAIN groups
      PROVE  Len(EntriesWithExtension(e)) = IF e = NoExtension THEN 0 ELSE groups[e].count
  <2>1. CASE e = NoExtension
    <3>1. Asked(e) = {}
      BY <1>4, <1>5, <2>1, NamedGroups
    <3> QED
      BY <2>1, <3>1, ExtensionPlaces, NowhereIs
  <2>2. CASE e # NoExtension
    <3>1. PICK i \in 1 .. Len(manifest) : e = Group(manifest[i])["extension"]
      BY <1>2
    <3>2. e = ext[i] /\ e # Empty
      BY <1>4, <2>2, <3>1
    <3>3. Folded(e) = e
      BY <1>4, <3>2
    <3>4. Asked(e) = GroupPlaces("extension", e)
      BY <1>4, <1>5, <2>2, <3>2, <3>3 DEF GroupPlaces
    <3> QED
      BY <1>6, <2>2, <3>4, ExtensionPlaces
  <2> QED
    BY <2>1, <2>2
<1>8. Len(EntriesWithExtension(Empty)) =
        IF NoExtension \in DOMAIN groups THEN groups[NoExtension].count ELSE 0
  <2>1. Asked(Empty) = GroupPlaces("extension", NoExtension)
    <3>1. \A i \in 1 .. Len(manifest) :
             ext[i] = Folded(Empty) <=> Group(manifest[i])["extension"] = NoExtension
      BY <1>4, NamedGroups
    <3> QED
      BY <1>5, <3>1 DEF GroupPlaces
  <2>2. CASE NoExtension \in DOMAIN groups
    BY <1>6, <2>1, <2>2, ExtensionPlaces
  <2>3. CASE NoExtension \notin DOMAIN groups
    <3>1. GroupPlaces("extension", NoExtension) = {}
      BY <1>2, <2>3 DEF GroupPlaces
    <3> QED
      BY <2>1, <2>3, <3>1, ExtensionPlaces, NowhereIs
  <2> QED
    BY <2>2, <2>3
<1> QED
  BY <1>7, <1>8

\* There are n numbers up to n.
LEMMA UpToIs ==
    ASSUME NEW n \in Nat
    PROVE  IsFiniteSet(1 .. n) /\ Cardinality(1 .. n) = n
  BY FS_Interval

\* A size is in the class from whose bound it is to the next.
LEMMA ClassIs ==
    ASSUME NEW bounds \in Seq(Nat), \A i, j \in DOMAIN bounds : i < j => bounds[i] < bounds[j],
           NEW k \in 1 .. Len(bounds) - 1, NEW size \in Nat
    PROVE  ClassOf(bounds, size) = k <=> bounds[k] <= size /\ size < bounds[k + 1]
<1> PICK N \in Nat : N = Len(bounds)
  OBVIOUS
<1> PICK S : S = {i \in DOMAIN bounds : bounds[i] <= size}
  OBVIOUS
<1>1. DOMAIN bounds = 1 .. N /\ \A i \in 1 .. N : bounds[i] \in Nat
  OBVIOUS
<1>2. k \in 1 .. N /\ k + 1 \in 1 .. N /\ k - 1 \in Nat /\ k \in Nat /\ k + 1 \in Nat
  OBVIOUS
<1>3. S \subseteq 1 .. N /\ \A i \in 1 .. N : i \in S <=> bounds[i] <= size
  BY <1>1
<1>4. \A n \in Nat : IsFiniteSet(1 .. n) /\ Cardinality(1 .. n) = n
  BY UpToIs
<1>5. ClassOf(bounds, size) = Cardinality(S)
  BY DEF ClassOf
<1>6. \A i, j \in 1 .. N : i < j => bounds[i] < bounds[j]
  BY <1>1
<1>7. \A i, j \in 1 .. N : i <= j => bounds[i] <= bounds[j]
  <2> TAKE i, j \in 1 .. N
  <2> HAVE i <= j
  <2>1. CASE i = j
    BY <1>1, <2>1
  <2>2. CASE i # j
    BY <1>1, <1>6, <2>2
  <2> QED
    BY <2>1, <2>2
<1>8. ASSUME bounds[k] <= size, size < bounds[k + 1] PROVE Cardinality(S) = k
  <2>1. ASSUME NEW i \in 1 .. N PROVE i \in S <=> i <= k
    <3>1. CASE i <= k
      <4>1. bounds[i] <= bounds[k]
        BY <1>2, <1>7, <3>1
      <4> QED
        BY <1>1, <1>2, <1>3, <1>8, <3>1, <4>1
    <3>2. CASE ~(i <= k)
      <4>1. k + 1 <= i
        BY <3>2
      <4>2. bounds[k + 1] <= bounds[i]
        BY <1>2, <1>7, <4>1
      <4> QED
        BY <1>1, <1>2, <1>3, <1>8, <3>2, <4>2
    <3> QED
      BY <3>1, <3>2
  <2>2. S = 1 .. k
    BY <1>2, <1>3, <2>1
  <2> QED
    BY <1>2, <1>4, <2>2
<1>9. ASSUME Cardinality(S) = k PROVE bounds[k] <= size /\ size < bounds[k + 1]
  <2>0. IsFiniteSet(S)
    BY <1>3, <1>4, FS_Subset
  <2>1. ASSUME ~(bounds[k] <= size) PROVE FALSE
    <3>1. ASSUME NEW i \in S PROVE i \in 1 .. k - 1
      <4> SUFFICES ASSUME k <= i PROVE FALSE
        BY <1>2, <1>3
      <4>1. bounds[k] <= bounds[i] /\ bounds[i] <= size
        BY <1>2, <1>3, <1>7
      <4> QED
        BY <1>1, <1>2, <1>3, <2>1, <4>1
    <3>2. S \in SUBSET (1 .. k - 1)
      BY <3>1
    <3>3. IsFiniteSet(1 .. k - 1) /\ Cardinality(1 .. k - 1) = k - 1
      BY <1>2, <1>4
    <3>4. Cardinality(S) <= Cardinality(1 .. k - 1)
      BY <3>2, <3>3, FS_Subset
    <3> QED
      BY <1>2, <1>9, <3>3, <3>4
  <2>2. ASSUME ~(size < bounds[k + 1]) PROVE FALSE
    <3>1. ASSUME NEW i \in 1 .. k + 1 PROVE i \in S
      <4>1. i \in 1 .. N /\ i <= k + 1
        BY <1>2
      <4>2. bounds[i] <= bounds[k + 1]
        BY <1>2, <1>7, <4>1
      <4> QED
        BY <1>1, <1>2, <1>3, <2>2, <4>1, <4>2
    <3>2. 1 .. k + 1 \in SUBSET S
      BY <3>1
    <3>3. Cardinality(1 .. k + 1) = k + 1
      BY <1>2, <1>4
    <3>4. Cardinality(1 .. k + 1) <= Cardinality(S)
      BY <2>0, <3>2, FS_Subset
    <3> QED
      BY <1>2, <1>9, <3>3, <3>4
  <2> QED
    BY <2>1, <2>2
<1> QED
  BY <1>5, <1>8, <1>9

\* The bounds of the size classes increase from 0.
LEMMA BoundsAre ==
    /\ ClassBounds \in Seq(Nat) /\ Len(ClassBounds) \in Nat \ {0} /\ ClassBounds[1] = 0
    /\ \A i, j \in DOMAIN ClassBounds : i < j => ClassBounds[i] < ClassBounds[j]
    /\ \A i \in 1 .. Len(ClassBounds) : ClassBounds[i] \in Nat
    /\ DOMAIN ClassBounds = 1 .. Len(ClassBounds)
<1>1. /\ ClassBounds \in Seq(Nat) /\ ClassBounds # <<>> /\ Head(ClassBounds) = 0
      /\ \A i, j \in DOMAIN ClassBounds : i < j => ClassBounds[i] < ClassBounds[j]
  BY ManifestsAssumption
<1> QED
  BY <1>1

\* The list of a size class.
LEMMA SizeListed ==
    ASSUME PlaceInv, ExtremesInv, CountsInv, phase = "done",
           NEW k \in 1 .. Len(ClassBounds) - 1
    PROVE  Cardinality(FilterBySize(ClassBounds[k], ClassBounds[k + 1] - 1)) =
             IF ClassBounds[k + 1] = 1 THEN stats.all.count
             ELSE IF k \in DOMAIN breakdowns["size_class"]
                    THEN breakdowns["size_class"][k].count ELSE 0
<1> PICK low \in Nat : low = ClassBounds[k]
  BY BoundsAre
<1> PICK high \in Nat : high = ClassBounds[k + 1]
  BY BoundsAre
<1>1. low < high
  BY BoundsAre
<1>2. CASE high = 1
  <2>1. low = 0 /\ high - 1 = 0
    BY <1>1, <1>2
  <2>2. FilterBySize(low, high - 1) = ToSet(manifest)
    <3>1. \A m \in ToSet(manifest) : low <= m.original
      BY <2>1, ManifestIs
    <3> QED
      BY <2>1, <3>1 DEF FilterBySize, Catalog
  <2>3. Cardinality(ToSet(manifest)) = Len(manifest)
    BY ManifestIs
  <2>4. stats.all.count = Len(manifest)
    BY Zenon DEF ExtremesInv, Counted
  <2> QED
    BY <1>2, <2>2, <2>3, <2>4, Zenon
<1>3. CASE high # 1
  <2> DEFINE S == {m \in ToSet(manifest) : SizeClass(m.original) = k}
             P == {i \in 1 .. Len(manifest) : manifest[i] \in S}
  <2>1. high - 1 \in Nat /\ high - 1 # 0
    BY <1>1, <1>3
  <2>2. \A m \in ToSet(manifest) : SizeClass(m.original) = k <=> low <= m.original /\ m.original < high
    <3> TAKE m \in ToSet(manifest)
    <3>1. m.original \in Nat
      BY ManifestIs
    <3>2. ClassOf(ClassBounds, m.original) = k
            <=> ClassBounds[k] <= m.original /\ m.original < ClassBounds[k + 1]
      BY <3>1, BoundsAre, ClassIs
    <3> QED
      BY <3>2 DEF SizeClass
  <2>3. FilterBySize(low, high - 1) = S
    <3>1. \A m \in ToSet(manifest) : m.original \in Nat
      BY ManifestIs
    <3>2. \A m \in ToSet(manifest) :
             SizeClass(m.original) = k
               <=> low <= m.original /\ (high - 1 = 0 \/ m.original <= high - 1)
      BY <2>1, <2>2, <3>1
    <3> QED
      BY <3>2, Zenon DEF FilterBySize, Catalog
  <2>4. "size_class" \in Breakdowns
    BY DEF Breakdowns
  <2>5. P = GroupPlaces("size_class", k)
    <3>1. \A i \in 1 .. Len(manifest) : manifest[i] \in ToSet(manifest)
      BY ManifestIs
    <3>2. \A m : Group(m)["size_class"] = SizeClass(m.original)
      BY DEF Group
    <3> QED
      BY <3>1, <3>2 DEF GroupPlaces
  <2>6. S \subseteq ToSet(manifest)
    OBVIOUS
  <2>7. Cardinality(S) = PlacesUpTo(P, Len(manifest))
    <3> HIDE DEF S
    <3> QED
      BY <2>6, TakenAre
  <2>8. PlacesUpTo(GroupPlaces("size_class", k), Len(manifest))
          = IF k \in DOMAIN breakdowns["size_class"]
              THEN breakdowns["size_class"][k].count ELSE 0
    BY <2>4, GroupIs
  <2> HIDE DEF S, P
  <2> QED
    BY <1>3, <2>3, <2>5, <2>7, <2>8, Zenon
<1> QED
  BY <1>2, <1>3

\* The lists of a flag.
LEMMA FlagsListed ==
    ASSUME PlaceInv, SumsInv, CountsInv, phase = "done"
    PROVE  /\ Cardinality(FilterByFlags(TRUE, FALSE)) = stats.compressed
           /\ Cardinality(FilterByFlags(FALSE, TRUE)) = stats.nested
<1> DEFINE S == {m \in ToSet(manifest) : m.compressed}
           R == {m \in ToSet(manifest) : m.nested}
           P == {i \in 1 .. Len(manifest) : manifest[i] \in R}
<1>1. FilterByFlags(TRUE, FALSE) = S /\ FilterByFlags(FALSE, TRUE) = R
  BY Zenon DEF FilterByFlags, Catalog
<1>2. Cardinality(S) = compression.compressed.count
  <2>1. S = {m \in ToSet(manifest) : m.compressed}
    OBVIOUS
  <2> HIDE DEF S
  <2> QED
    BY <2>1, CompressedAre, Zenon
<1>3. R \subseteq ToSet(manifest)
  OBVIOUS
<1>4. P = NestedPlaces
  BY ManifestIs DEF NestedPlaces
<1>5. Cardinality(R) = PlacesUpTo(P, Len(manifest))
  <2> HIDE DEF R
  <2> QED
    BY <1>3, TakenAre
<1>6. stats.nested = PlacesUpTo(NestedPlaces, Len(manifest))
  <2>1. Counted = Len(manifest)
    BY DEF Counted
  <2> QED
    BY <2>1, Zenon DEF CountsInv
<1>7. stats.compressed = compression.compressed.count
  BY Zenon DEF SumsInv
<1> HIDE DEF S, R, P
<1> QED
  BY <1>1, <1>2, <1>4, <1>5, <1>6, <1>7, Zenon

\* The list of every group has as many entries as were counted.
LEMMA GroupsFollow ==
    ASSUME PlaceInv, SumsInv, ExtremesInv, CountsInv, phase = "done"
    PROVE  GroupsListed
<1>1. \A d \in DOMAIN breakdowns["depth"] :
          /\ Len(EntriesAtDepth(d)) = breakdowns["depth"][d].count
          /\ FilterByDepth(d, d) = ToSet(EntriesAtDepth(d))
  BY DepthListed
<1>2. /\ \A e \in DOMAIN breakdowns["extension"] :
            Len(EntriesWithExtension(e)) =
              IF e = NoExtension THEN 0 ELSE breakdowns["extension"][e].count
      /\ Len(EntriesWithExtension(Empty)) =
            IF NoExtension \in DOMAIN breakdowns["extension"]
              THEN breakdowns["extension"][NoExtension].count ELSE 0
  BY ExtensionsListed
<1>3. \A k \in 1 .. Len(ClassBounds) - 1 :
          Cardinality(FilterBySize(ClassBounds[k], ClassBounds[k + 1] - 1)) =
            IF ClassBounds[k + 1] = 1 THEN stats.all.count
            ELSE IF k \in DOMAIN breakdowns["size_class"]
                   THEN breakdowns["size_class"][k].count ELSE 0
  BY SizeListed
<1>4. /\ Cardinality(FilterByFlags(TRUE, FALSE)) = stats.compressed
      /\ Cardinality(FilterByFlags(FALSE, TRUE)) = stats.nested
  BY FlagsListed
<1> QED
  BY <1>1, <1>2, <1>3, <1>4, Zenon DEF GroupsListed

-----------------------------------------------------------------------------
(* How often each name occurs.                                             *)

\* All that are counted, of any name.
AllOf(counts) == MapThenSumSet(LAMBDA k : counts[k], DOMAIN counts)

\* One more of a name.
OneMore(counts, key) ==
    [k \in DOMAIN counts \cup {key} |->
       (IF k \in DOMAIN counts THEN counts[k] ELSE 0) + (IF k = key THEN 1 ELSE 0)]

\* That is a sum.
LEMMA AllOfIs ==
    ASSUME NEW counts, IsFiniteSet(DOMAIN counts), \A x \in DOMAIN counts : counts[x] \in Nat
    PROVE  \E F : SumsOf(F, counts, DOMAIN counts) /\ AllOf(counts) = F[DOMAIN counts]
<1> DEFINE D == DOMAIN counts
           Body(G) == [s \in SUBSET D |->
                         IF s = {} THEN 0
                         ELSE counts[CHOOSE x \in s : TRUE] + G[s \ {CHOOSE x \in s : TRUE}]]
           F == CHOOSE G : G = Body(G)
<1>1. AllOf(counts) = F[D]
  BY Zenon DEF AllOf, MapThenSumSet, MapThenFoldSet
<1>2. \A x \in D : counts[x] \in Nat
  OBVIOUS
<1>3. IsFiniteSet(D)
  OBVIOUS
<1> HIDE DEF D
<1>4. PICK G : G = [s \in SUBSET D |-> G[s]] /\ SumsByPick(G, counts, D)
  BY <1>2, <1>3, SumFixed
<1>5. G = Body(G)
  <2>1. \A s \in SUBSET D :
           G[s] = IF s = {} THEN 0
                  ELSE counts[CHOOSE x \in s : TRUE] + G[s \ {CHOOSE x \in s : TRUE}]
    BY <1>4, Zenon DEF SumsByPick
  <2> QED
    BY <1>4, <2>1, Zenon
<1> HIDE DEF Body
<1>6. F = Body(F)
  BY <1>5, Zenon
<1> HIDE DEF F
<1>7. SumsByPick(F, counts, D)
  BY <1>6, Zenon DEF Body, SumsByPick
<1>8. SumsOf(F, counts, D)
  BY <1>2, <1>3, <1>7, SumChosen
<1> QED
  BY <1>1, <1>8, Zenon DEF D

\* The counts there may be of names with keys in a set.
Countings(K) == UNION {[D -> Nat] : D \in SUBSET K}

\* What one more of a name makes of the counts.
Recounted(K, v, x, w) ==
    /\ w \in Countings(K) /\ DOMAIN w = DOMAIN v \cup {x}
    /\ \A y \in DOMAIN v : v[y] \in Nat /\ w[y] >= v[y]
    /\ w[x] = (IF x \in DOMAIN v THEN v[x] ELSE 0) + 1
    /\ AllOf(w) = AllOf(v) + 1

\* So it does.
LEMMA OneMoreIs ==
    ASSUME NEW K, IsFiniteSet(K), NEW counts \in Countings(K), NEW key \in K
    PROVE  Recounted(K, counts, key, OneMore(counts, key))
<1> PICK more : more = OneMore(counts, key)
  OBVIOUS
<1> PICK D \in SUBSET K : counts \in [D -> Nat]
  BY DEF Countings
<1> PICK E \in SUBSET K : E = D \cup {key}
  OBVIOUS
<1>1. DOMAIN counts = D /\ \A k \in D : counts[k] \in Nat
  OBVIOUS
<1>2. more = [k \in E |-> (IF k \in D THEN counts[k] ELSE 0) + (IF k = key THEN 1 ELSE 0)]
  BY <1>1 DEF OneMore
<1>3. more \in [E -> Nat] /\ DOMAIN more = E /\ \A k \in E : more[k] \in Nat
  BY <1>1, <1>2
<1>4. more \in Countings(K)
  BY <1>3 DEF Countings
<1>5. /\ \A k \in D : more[k] >= counts[k] /\ (k # key => more[k] = counts[k])
      /\ more[key] = (IF key \in D THEN counts[key] ELSE 0) + 1
  BY <1>1, <1>2
<1>6. IsFiniteSet(D) /\ IsFiniteSet(E)
  BY FS_Subset
<1>7. PICK F : SumsOf(F, counts, D) /\ AllOf(counts) = F[D]
  BY <1>1, <1>6, AllOfIs
<1>8. PICK H : SumsOf(H, more, E) /\ AllOf(more) = H[E]
  BY <1>3, <1>6, AllOfIs
<1>9. AlikeApart(counts, more, D, key)
  BY <1>5 DEF AlikeApart
<1>10. PICK r \in Nat : /\ H[E] = more[key] + r
                        /\ key \in D => F[D] = counts[key] + r
                        /\ key \notin D => F[D] = r
  <2>1. IsFiniteSet(D) /\ SumsOf(F, counts, D)
    BY <1>6, <1>7
  <2>2. E = D \cup {key} /\ SumsOf(H, more, E)
    BY <1>8
  <2>3. SumGrew(counts, F, D, more, H, E, key)
    BY <1>9, <2>1, <2>2, SumChanged, Zenon
  <2> QED
    BY <2>3, Zenon DEF SumGrew
<1>11. AllOf(counts) \in Nat /\ AllOf(more) = AllOf(counts) + 1
  BY <1>1, <1>5, <1>7, <1>8, <1>10
<1>12. /\ DOMAIN more = DOMAIN counts \cup {key}
       /\ \A y \in DOMAIN counts : counts[y] \in Nat /\ more[y] >= counts[y]
       /\ more[key] = (IF key \in DOMAIN counts THEN counts[key] ELSE 0) + 1
  BY <1>1, <1>3, <1>5
<1>13. Recounted(K, counts, key, more)
  BY <1>4, <1>11, <1>12, Zenon DEF Recounted
<1> QED
  BY <1>13

\* What is counted of the first of a list's names.
CountsFirst(v, key, k, K) ==
    /\ v \in Countings(K) /\ AllOf(v) = k
    /\ \A i \in 1 .. k : key[i] \in DOMAIN v /\ v[key[i]] >= 1
    /\ \A i, j \in 1 .. k : i < j /\ key[i] = key[j] => v[key[i]] > 1

\* So it is of none,
LEMMA NoneCounted ==
    ASSUME NEW K, NEW key
    PROVE  CountsFirst([k \in {} |-> 0], key, 0, K)
<1> PICK v : v = [k \in {} |-> 0]
  OBVIOUS
<1>1. v \in [{} -> Nat] /\ DOMAIN v = {} /\ \A x \in DOMAIN v : v[x] \in Nat
  OBVIOUS
<1>2. v \in Countings(K)
  BY <1>1 DEF Countings
<1>3. IsFiniteSet({})
  BY FS_EmptySet
<1>4. PICK F : SumsOf(F, v, {}) /\ AllOf(v) = F[{}]
  BY <1>1, <1>3, AllOfIs
<1>5. AllOf(v) = 0
  <2>1. {} \in SUBSET {}
    OBVIOUS
  <2> QED
    BY <1>4, <2>1, Zenon DEF SumsOf
<1>6. 1 .. 0 = {}
  OBVIOUS
<1>7. CountsFirst(v, key, 0, K)
  BY <1>2, <1>5, <1>6 DEF CountsFirst
<1> QED
  BY <1>7

\* of one more,
LEMMA OneCounted ==
    ASSUME NEW K, IsFiniteSet(K), NEW N \in Nat, NEW key \in [1 .. N -> K],
           NEW k \in Nat, k + 1 \in 1 .. N, NEW v, CountsFirst(v, key, k, K)
    PROVE  CountsFirst(OneMore(v, key[k + 1]), key, k + 1, K)
<1>1. /\ v \in Countings(K) /\ AllOf(v) = k
      /\ \A i \in 1 .. k : key[i] \in DOMAIN v /\ v[key[i]] >= 1
      /\ \A i, j \in 1 .. k : i < j /\ key[i] = key[j] => v[key[i]] > 1
  BY DEF CountsFirst
<1> PICK w : w = OneMore(v, key[k + 1])
  OBVIOUS
<1> PICK x \in K : x = key[k + 1]
  OBVIOUS
<1>2. w = OneMore(v, x)
  OBVIOUS
<1>3. /\ w \in Countings(K) /\ DOMAIN w = DOMAIN v \cup {x}
      /\ \A y \in DOMAIN v : v[y] \in Nat /\ w[y] >= v[y]
      /\ w[x] = (IF x \in DOMAIN v THEN v[x] ELSE 0) + 1
      /\ AllOf(w) = AllOf(v) + 1
  <2>1. v \in Countings(K) /\ x \in K
    BY <1>1
  <2>2. Recounted(K, v, x, OneMore(v, x))
    BY <2>1, OneMoreIs
  <2> QED
    BY <1>2, <2>2, Zenon DEF Recounted
<1>4. \A y \in DOMAIN w : w[y] \in Nat
  BY <1>3 DEF Countings
<1>5. \A i \in 1 .. k + 1 : i \in 1 .. k \/ i = k + 1
  OBVIOUS
<1>6. \A i \in 1 .. k + 1 : key[i] \in DOMAIN w /\ w[key[i]] >= 1
  <2> TAKE i \in 1 .. k + 1
  <2>1. i \in 1 .. k => key[i] \in DOMAIN w /\ w[key[i]] >= 1
    <3> SUFFICES ASSUME i \in 1 .. k PROVE key[i] \in DOMAIN w /\ w[key[i]] >= 1
      OBVIOUS
    <3> PICK y : y = key[i]
      OBVIOUS
    <3>1. y \in DOMAIN v /\ v[y] >= 1
      BY <1>1
    <3>2. y \in DOMAIN w /\ w[y] >= v[y] /\ v[y] \in Nat /\ w[y] \in Nat
      BY <1>3, <1>4, <3>1
    <3> QED
      BY <3>1, <3>2
  <2>2. x \in DOMAIN w /\ w[x] >= 1
    BY <1>3
  <2> QED
    BY <1>5, <2>1, <2>2
<1>7. \A i, j \in 1 .. k + 1 : i < j /\ key[i] = key[j] => w[key[i]] > 1
  <2> TAKE i, j \in 1 .. k + 1
  <2> SUFFICES ASSUME i < j, key[i] = key[j] PROVE w[key[i]] > 1
    OBVIOUS
  <2> PICK y : y = key[i]
    OBVIOUS
  <2>1. i \in 1 .. k /\ y \in DOMAIN v /\ v[y] >= 1 /\ v[y] \in Nat /\ w[y] >= v[y]
        /\ y \in DOMAIN w /\ w[y] \in Nat
    <3>1. i \in 1 .. k
      OBVIOUS
    <3>2. y \in DOMAIN v /\ v[y] >= 1
      BY <1>1, <3>1
    <3> QED
      BY <1>3, <1>4, <3>1, <3>2
  <2>2. j \in 1 .. k => v[y] > 1
    BY <1>1, <2>1
  <2>3. j = k + 1 => w[y] = v[y] + 1
    BY <1>3, <2>1
  <2> QED
    BY <1>5, <2>1, <2>2, <2>3
<1>8. AllOf(w) = k + 1
  BY <1>1, <1>3
<1>9. CountsFirst(w, key, k + 1, K)
  BY <1>3, <1>6, <1>7, <1>8, Zenon DEF CountsFirst
<1> QED
  BY <1>9

\* and of all that normalizedNameCounts (archive_stats.cc) counts.
LEMMA NameCountsIs ==
    ASSUME PlaceInv
    PROVE  CountsFirst(NameCounts, [k \in 1 .. Len(manifest) |-> Key(manifest[k])],
                       Len(manifest), Keys(manifest))
<1> PICK l : l = manifest
  OBVIOUS
<1>0. l \in Seq(ToSet(l)) /\ \A i \in 1 .. Len(l) : l[i] \in ToSet(l)
  BY ManifestIs
<1> PICK N \in Nat : N = Len(l)
  BY <1>0
<1> PICK K : K = Keys(l)
  OBVIOUS
<1>1. NormalizedNames(l)
  BY ListingNames DEF PlaceInv
<1>2. IsFiniteSet(K) /\ \A m \in ToSet(l) : Key(m) \in K
  BY <1>1, KeysAre
<1> PICK key : key = [k \in 1 .. N |-> Key(l[k])]
  OBVIOUS
<1>3. key \in [1 .. N -> K]
  BY <1>0, <1>2
<1>4. \A k \in 1 .. N : key[k] = Key(l[k]) /\ key[k] \in K
  BY <1>3
<1> DEFINE V == Countings(K)
           none == [k \in {} |-> 0]
           step == [k \in 1 .. N |-> [v \in V |-> OneMore(v, Key(l[k]))]]
           Body(g) == [t \in SUBSET (1 .. N) |->
                         IF t = {} THEN none
                         ELSE OneMore(g[t \ {Max(t)}], Key(l[Max(t)]))]
           F == CHOOSE g : g = Body(g)
<1>5. NameCounts = F[1 .. N]
  <2> DEFINE Parts(g) == [t \in SUBSET (1 .. N) |->
                            IF t = {} THEN none
                            ELSE OneMore(g[t \ {Max(t)}], Key(manifest[Max(t)]))]
             H == CHOOSE g : g = Parts(g)
  <2>1. DOMAIN manifest = 1 .. N
    BY <1>0
  <2>2. NameCounts = H[1 .. N]
    BY <2>1, Zenon DEF NameCounts, FoldLeft, MapThenFoldSet, OneMore
  <2>3. H = F
    OBVIOUS
  <2> QED
    BY <2>2, <2>3, Zenon
<1>6. none \in V /\ CountsFirst(none, key, 0, K)
  BY NoneCounted, Zenon DEF CountsFirst
<1> HIDE DEF none
<1>7. \A k \in 1 .. N, v \in V : OneMore(v, Key(l[k])) \in V
  <2> TAKE k \in 1 .. N, v \in V
  <2>1. Key(l[k]) \in K
    BY <1>4
  <2> PICK x \in K : x = Key(l[k])
    BY <2>1
  <2>2. Recounted(K, v, x, OneMore(v, x))
    BY <1>2, OneMoreIs
  <2> QED
    BY <2>2, Zenon DEF Recounted
<1>8. step \in [1 .. N -> [V -> V]]
  <2> HIDE DEF V
  <2> QED
    BY <1>7
<1>9. \A k \in 1 .. N, v \in V : step[k][v] = OneMore(v, Key(l[k]))
  OBVIOUS
<1> HIDE DEF step, V
<1>10. PICK G \in [SUBSET (1 .. N) -> V] : FoldsUpTo(G, none, step, N)
  BY <1>6, <1>8, FoldExists, ZenonT(60)
<1>11. G = Body(G)
  <2>1. \A t \in SUBSET (1 .. N) :
           t # {} => Max(t) \in 1 .. N /\ t \ {Max(t)} \in SUBSET (1 .. N)
    <3> TAKE t \in SUBSET (1 .. N)
    <3>1. t # {} => Max(t) \in t
      BY GreatestMember
    <3> QED
      BY <3>1
  <2>2. \A t \in SUBSET (1 .. N) : G[t] \in V
    BY <1>10
  <2>3. \A t \in SUBSET (1 .. N) :
           G[t] = IF t = {} THEN none ELSE OneMore(G[t \ {Max(t)}], Key(l[Max(t)]))
    BY <1>9, <1>10, <2>1, <2>2, ZenonT(60) DEF FoldsUpTo
  <2> QED
    BY <1>10, <2>3, Zenon
<1> HIDE DEF Body
<1>12. F = Body(F)
  BY <1>11, Zenon
<1> HIDE DEF F
<1> USE DEF Body
<1>13. \A t \in SUBSET (1 .. N) :
           F[t] = IF t = {} THEN none ELSE OneMore(F[t \ {Max(t)}], Key(l[Max(t)]))
  BY <1>12, Zenon
<1>14. F[1 .. 0] = none
  <2>1. 1 .. 0 = {} /\ 1 .. 0 \in SUBSET (1 .. N)
    OBVIOUS
  <2> QED
    BY <1>13, <2>1, Zenon
<1>15. \A k \in 1 .. N : F[1 .. k] = OneMore(F[1 .. k - 1], key[k])
  <2> TAKE k \in 1 .. N
  <2>1. 1 .. k # {} /\ 1 .. k \in SUBSET (1 .. N) /\ Max(1 .. k) = k
        /\ (1 .. k) \ {k} = 1 .. k - 1
    BY MaxUpTo
  <2> QED
    BY <1>4, <1>13, <2>1, Zenon
<1> HIDE DEF Body
<1> DEFINE S == {k \in Nat : k <= N => CountsFirst(F[1 .. k], key, k, K)}
<1>16. 0 \in S
  BY <1>6, <1>14
<1>17. ASSUME NEW k \in Nat, k \in S PROVE k + 1 \in S
  <2> SUFFICES ASSUME k + 1 <= N PROVE CountsFirst(F[1 .. k + 1], key, k + 1, K)
    OBVIOUS
  <2>1. k <= N /\ k + 1 \in 1 .. N /\ (k + 1) - 1 = k
    OBVIOUS
  <2> PICK v : v = F[1 .. k]
    OBVIOUS
  <2>2. CountsFirst(v, key, k, K)
    BY <1>17, <2>1
  <2>3. F[1 .. k + 1] = OneMore(v, key[k + 1])
    BY <1>15, <2>1
  <2>4. CountsFirst(OneMore(v, key[k + 1]), key, k + 1, K)
    BY <1>2, <1>3, <2>1, <2>2, OneCounted
  <2> QED
    BY <2>3, <2>4, Zenon
<1>18. N \in S
  <2> HIDE DEF S
  <2> QED
    BY <1>16, <1>17, NumbersIn
<1>19. CountsFirst(NameCounts, key, N, K)
  BY <1>5, <1>18
<1> QED
  BY <1>19

\* A search finds the first place of those that are looked for.
LEMMA FirstPlaceIs ==
    ASSUME NEW I, NEW n \in Nat, I \subseteq 1 .. n, NEW i \in I
    PROVE  Min(I) \in I /\ Min(I) <= i
<1>1. I \subseteq Nat /\ I # {}
  OBVIOUS
<1>2. \E m \in I : \A y \in I : m <= y
  BY <1>1, LeastMember
<1> DEFINE k == CHOOSE x \in I : \A y \in I : x <= y
<1>3. Min(I) = k
  BY DEF Min
<1>4. k \in I /\ \A y \in I : k <= y
  BY <1>2
<1> QED
  BY <1>3, <1>4

\* findEntryByName finds the entry or one before it.
LEMMA FoundIs ==
    ASSUME PlaceInv, NEW i \in 1 .. Len(manifest)
    PROVE  LET name == manifest[i].name
               k == FindEntryByName(name)
           IN  /\ k \in 1 .. i
               /\ manifest[k].name = name \/ manifest[k].normalized = name
<1> DEFINE name == manifest[i].name
           I == {j \in 1 .. Len(manifest) :
                   manifest[j].name = name \/ manifest[j].normalized = name}
<1>1. Len(manifest) \in Nat /\ i \in I /\ I \subseteq 1 .. Len(manifest)
  BY ManifestIs
<1>2. FindEntryByName(name) = Min(I)
  <2>1. I # {}
    BY <1>1
  <2> QED
    BY <2>1, Zenon DEF FindEntryByName, SelectInSeq
<1>3. Min(I) \in I /\ Min(I) <= i
  <2> HIDE DEF I
  <2> QED
    BY <1>1, FirstPlaceIs
<1>4. Min(I) \in 1 .. i
  BY <1>1, <1>3
<1> QED
  BY <1>2, <1>3, <1>4

\* A search for an entry's own name, as ListingsAgree has it.
LEMMA SearchFollows ==
    ASSUME PlaceInv, NEW m \in ToSet(manifest)
    PROVE  LET place == FindEntryByName(m.name)
               found == manifest[place]
           IN  /\ place # 0
               /\ found.name # m.name =>
                    /\ found.id < m.id
                    /\ ~NameChanged(m) => Key(found) = Key(m) /\ NameCounts[Key(m)] > 1
<1> PICK N \in Nat : N = Len(manifest)
  BY ManifestIs
<1> PICK i \in 1 .. N : m = manifest[i]
  BY ManifestIs
<1> PICK k : k = FindEntryByName(m.name)
  OBVIOUS
<1>1. k \in 1 .. i /\ (manifest[k].name = m.name \/ manifest[k].normalized = m.name)
  BY FoundIs
<1>2. k # 0 /\ k \in 1 .. N
  BY <1>1
<1> PICK key : key = [j \in 1 .. N |-> Key(manifest[j])]
  OBVIOUS
<1>3. key[i] = Key(m) /\ key[k] = Key(manifest[k])
  BY <1>2
<1>4. CountsFirst(NameCounts, key, N, Keys(manifest))
  BY NameCountsIs
<1>5. ASSUME manifest[k].name # m.name
      PROVE  /\ manifest[k].id < m.id
             /\ ~NameChanged(m) =>
                  Key(manifest[k]) = Key(m) /\ NameCounts[Key(m)] > 1
  <2>1. k # i
    BY <1>5
  <2>2. k < i
    BY <1>1, <2>1
  <2>3. manifest[k].id < manifest[i].id
    <3>1. \A p, q \in 1 .. Len(manifest) : p < q => manifest[p].id < manifest[q].id
      BY DEF PlaceInv, Listing
    <3> QED
      BY <1>2, <2>2, <3>1
  <2>4. ASSUME ~NameChanged(m)
        PROVE  Key(manifest[k]) = Key(m) /\ NameCounts[Key(m)] > 1
    <3>1. manifest[k].normalized = m.normalized
      BY <1>1, <1>5, <2>4 DEF NameChanged
    <3>2. Key(manifest[k]) = Key(m)
      BY <3>1, Zenon DEF Key
    <3>3. key[k] = key[i]
      BY <1>3, <3>2
    <3>4. \A p, q \in 1 .. N : p < q /\ key[p] = key[q] => NameCounts[key[p]] > 1
      BY <1>4 DEF CountsFirst
    <3>5. NameCounts[key[k]] > 1
      BY <1>2, <2>2, <3>3, <3>4
    <3> QED
      BY <1>3, <3>2, <3>5
  <2> QED
    BY <2>3, <2>4
<1> QED
  BY <1>2, <1>5

\* ListingsAgree follows from what is summarized.
LEMMA ListingsFollow == PlaceInv /\ SummariesInv /\ CountsInv => ListingsAgree
<1> SUFFICES ASSUME PlaceInv, SummariesInv, CountsInv, phase = "done" PROVE ListingsAgree
  BY Zenon DEF ListingsAgree
<1>1. SumsInv /\ ExtremesInv
  BY Zenon DEF SummariesInv
<1>2. Len(manifest) \in Nat
  BY ManifestIs
<1>3. \A limit \in 0 .. Len(manifest) + 1 : CutOffsExact(limit)
  <2> TAKE limit \in 0 .. Len(manifest) + 1
  <2>1. limit \in Nat
    BY <1>2
  <2> QED
    BY <1>1, <2>1, CutOffsFollow
<1>4. GroupsListed
  BY <1>1, GroupsFollow
<1>5. MapThenSumSet(LAMBDA k : NameCounts[k], DOMAIN NameCounts) = stats.all.count
  <2>1. AllOf(NameCounts) = Len(manifest)
    BY NameCountsIs, Zenon DEF CountsFirst
  <2>2. AllOf(NameCounts) = MapThenSumSet(LAMBDA k : NameCounts[k], DOMAIN NameCounts)
    BY Zenon DEF AllOf
  <2>3. stats.all.count = Len(manifest)
    BY <1>1, Zenon DEF ExtremesInv, Counted
  <2> QED
    BY <2>1, <2>2, <2>3, Zenon
<1>6. \A m \in ToSet(manifest) :
         LET place == FindEntryByName(m.name)
             found == manifest[place]
         IN  /\ place # 0
             /\ found.name # m.name =>
                  /\ found.id < m.id
                  /\ ~NameChanged(m) => Key(found) = Key(m) /\ NameCounts[Key(m)] > 1
  BY SearchFollows, Zenon
<1> QED
  BY <1>3, <1>4, <1>5, <1>6, Zenon DEF ListingsAgree

\* Every list drawn from the manifest (manifest.cc, catalog.cc, archive_stats.cc)
\* agrees with the summary of the same analysis.
THEOREM ListingsTheorem == Spec => []ListingsAgree
<1>1. PlaceInv /\ SummariesInv /\ CountsInv => ListingsAgree
  BY ListingsFollow
<1> QED
  BY <1>1, PlaceTheorem, SummariesTheorem, CountsTheorem, PTL
=============================================================================
