------------------------------ MODULE Listings ------------------------------
(***************************************************************************)
(* The lists that may be drawn from a manifest: sorted and cut off         *)
(* (sortedEntries and what uses it, in src/src/archive_stats.cc), filtered *)
(* (the same file, and src/src/catalog.cc), and the search for a name      *)
(* (src/src/manifest.cc).  Each goes through all entries again, by tests   *)
(* of its own.                                                             *)
(***************************************************************************)
EXTENDS Manifests

\* sortedEntries, by a key and descending; std::sort leaves open how entries
\* that compare equal are ordered, so that these are the orders there may be.
Orders(key) ==
    {s \in SetToSeqs(ToSet(manifest)) :
       \A i, j \in DOMAIN s : i < j => ~Below(key[s[i]], key[s[j]])}

BySize == Orders([m \in ToSet(manifest) |-> [num |-> m.original, den |-> 1]])
ByRatio == Orders([m \in ToSet(manifest) |-> Ratio(m)])

Smaller(a, b) == IF a < b THEN a ELSE b
CutOff(list, limit) == SubSeq(list, 1, Smaller(limit, Len(list)))

\* largestEntries
LargestEntries(limit) == {CutOff(s, limit) : s \in BySize}

\* Mutant: the list is cut off before other entries are taken out of it.
MostCompressedOfFirst(limit) ==
    {Within(CutOff(s, limit), {m \in ToSet(s) : m.compressed}) : s \in ByRatio}

\* mostCompressedEntries
MostCompressedEntries(limit) ==
    {CutOff(Within(s, {m \in ToSet(s) : m.compressed}), limit) : s \in ByRatio}

EntriesAtDepth(depth) == Within(manifest, {m \in ToSet(manifest) : m.depth = depth})

EntriesWithExtension(ext) ==
    Within(manifest,
           {m \in ToSet(manifest) : Folded(Extension(Last(m.name.components))) = Folded(ext)})

\* buildCatalog: the entries, in the order of their names, which is left open.
Catalog == ToSet(manifest)

\* filterCatalogByDepth
FilterByDepth(low, high) == {m \in Catalog : low <= m.depth /\ m.depth <= high}

\* filterCatalogBySize: a maximum of 0 is none.
FilterBySize(low, high) ==
    {m \in Catalog : low <= m.original /\ (high = 0 \/ m.original <= high)}

\* filterCatalogByFlags
FilterByFlags(compressed, nested) ==
    {m \in Catalog : (compressed => m.compressed) /\ (nested => m.nested)}

\* normalizedNameCounts
NameCounts ==
    FoldLeft(LAMBDA counts, m :
               [k \in DOMAIN counts \cup {Key(m)} |->
                  (IF k \in DOMAIN counts THEN counts[k] ELSE 0)
                    + (IF k = Key(m) THEN 1 ELSE 0)],
             [k \in {} |-> 0], manifest)

\* findEntryByName: the place of the first entry that has the name or was given
\* it, 0 if there is none.
FindEntryByName(name) ==
    SelectInSeq(manifest, LAMBDA m : m.name = name \/ m.normalized = name)

-----------------------------------------------------------------------------
(* Properties.                                                             *)

\* A list cut off is as long as it may be, begins with what the summary singles
\* out, and leaves out nothing that should stand before what it has.
CutOffsExact(limit) ==
    /\ \A s \in LargestEntries(limit) :
          /\ Len(s) = Smaller(limit, stats.all.count)
          /\ s # <<>> => Head(s).original = stats.largest
          /\ \A m \in ToSet(manifest) \ ToSet(s), x \in ToSet(s) : m.original <= x.original
    /\ \A s \in MostCompressedEntries(limit) :
          /\ Len(s) = Smaller(limit, compression.compressed.count)
          /\ s # <<>> => ~Below(Ratio(Head(s)), Ratio(Listed(compression.best)))
          /\ \A m \in ToSet(manifest) \ ToSet(s), x \in ToSet(s) :
                m.compressed => ~Below(Ratio(x), Ratio(m))

\* For every group the summaries count there is a list, and as many entries are
\* on it, with two exceptions.  The list of what is called "(none)" is empty: the
\* entries without extension are those of the empty one (archive_stats.cc:266,
\* 424).  And asked for the class of empty entries, sizes from 0 to 0,
\* filterCatalogBySize (catalog.cc:118) lists all.
GroupsListed ==
    /\ \A d \in DOMAIN breakdowns["depth"] :
          /\ Len(EntriesAtDepth(d)) = breakdowns["depth"][d].count
          /\ FilterByDepth(d, d) = ToSet(EntriesAtDepth(d))
    /\ \A e \in DOMAIN breakdowns["extension"] :
          Len(EntriesWithExtension(e)) =
            IF e = NoExtension THEN 0 ELSE breakdowns["extension"][e].count
    /\ Len(EntriesWithExtension(Empty)) =
          IF NoExtension \in DOMAIN breakdowns["extension"]
            THEN breakdowns["extension"][NoExtension].count ELSE 0
    /\ \A k \in 1 .. Len(ClassBounds) - 1 :
          Cardinality(FilterBySize(ClassBounds[k], ClassBounds[k + 1] - 1)) =
            IF ClassBounds[k + 1] = 1 THEN stats.all.count
            ELSE IF k \in DOMAIN breakdowns["size_class"]
                   THEN breakdowns["size_class"][k].count ELSE 0
    /\ Cardinality(FilterByFlags(TRUE, FALSE)) = stats.compressed
    /\ Cardinality(FilterByFlags(FALSE, TRUE)) = stats.nested

\* Every list agrees with the summary of the same analysis.  And looking for an
\* entry by its own name (manifest.cc:252) finds it, another of that name, or an
\* earlier one that was given its name: names are counted as the same then, and
\* neither of the two is alone.
ListingsAgree ==
    phase = "done" =>
       /\ \A limit \in 0 .. Len(manifest) + 1 : CutOffsExact(limit)
       /\ GroupsListed
       /\ MapThenSumSet(LAMBDA k : NameCounts[k], DOMAIN NameCounts) = stats.all.count
       /\ \A m \in ToSet(manifest) :
             LET place == FindEntryByName(m.name)
                 found == manifest[place]
             IN  /\ place # 0
                 /\ found.name # m.name =>
                      /\ found.id < m.id
                      /\ ~NameChanged(m) => Key(found) = Key(m) /\ NameCounts[Key(m)] > 1

=============================================================================
