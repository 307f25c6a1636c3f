------------------------------ MODULE MCUnpack ------------------------------
(***************************************************************************)
(* Archives for TLC: two plain files, archives of plain files with at most *)
(* one defect, all archives of up to three of these, and archives two      *)
(* levels deeper.  A byte string is written as a tuple that says what it   *)
(* is.  Sizes matter to the pool only: whether a slot grows, and that a    *)
(* nested archive of 71 bytes (71 % 17 = 3) recycles it from depth 2 on.   *)
(***************************************************************************)
EXTENDS UnpackFidelity, TLC

a == <<"a">>
b == <<"b">>
Flat(n, defect) == <<"flat", n, defect>>
Outer(children) == <<"outer", children, "">>

Defects == {"none", "header", "scan", "refused", "broken", "cut"}

\* Four files need one buffer more than the ring has beside the container's.
Inner == {a, b} \cup {Flat(n, "none") : n \in {0, 1, 3, 4}} \cup {Flat(2, "broken")}

Pairs == {<<p>> : p \in Inner} \cup {<<p, q>> : p, q \in Inner}
Triples == {<<p, q, a>> : p, q \in Inner}

\* Levels 2 and 3; "small" is Flat(1, "none") in 71 bytes.
Small == <<"small">>
AroundSmall == {Outer(<<Small>>), Outer(<<Small, a>>)}
Middle == AroundSmall \cup
          {Outer(<<Flat(1, "none"), a>>), Outer(<<a, Flat(0, "none")>>),
           Outer(<<Outer(<<Flat(0, "none")>>)>>)}
Deep(middle) ==
    {Outer(<<m>>) : m \in middle} \cup {Outer(<<m, b>>) : m \in middle}
      \cup {Outer(<<b, Outer(<<m>>)>>) : m \in middle}

\* x.vec is extracted into the directory x.d, where the next entry is a file;
\* a plain file whose index flag says it is an archive.
Clash == <<"clash">>
Flagged == <<"flagged">>

MCRoots ==
    {Flat(n, defect) : n \in {2, 4}, defect \in Defects}
      \cup {Outer(children) : children \in Pairs \cup Triples}
      \cup Deep(Middle)
      \cup {Clash, Flagged, Outer(<<Flagged>>)}

\* Those with an archive that the pool is recycled for, and all others.
MCRecycling == Deep(AroundSmall)
MCNotRecycling == MCRoots \ MCRecycling

MCPayloads ==
    MCRoots \cup Inner \cup Middle \cup {Small} \cup {Outer(<<m>>) : m \in Middle}
            \cup {Outer(<<Flat(0, "none")>>)}

File(name, payload) ==
    [name |-> name, nested |-> FALSE, scan |-> TRUE, chunk |-> "ok",
     payload |-> payload]

Plain(size) ==
    [size |-> size, vec |-> FALSE, parses |-> FALSE, entries |-> <<>>,
     extension |-> "absent"]

Archive(size, entries, extension) ==
    [size |-> size, vec |-> TRUE, parses |-> TRUE, entries |-> entries,
     extension |-> extension]

\* The defect is in the last file, or in the header or the extension.
FlatArchive(n, defect) ==
    LET name(k) == IF k = 1 THEN <<"a">> ELSE IF k = 2 THEN <<"..", "b">>
                   ELSE IF k = 3 THEN <<"c", "a">> ELSE <<"d">>
        file(k) == File(name(k), IF k % 2 = 1 THEN a ELSE b)
        last == [file(n) EXCEPT !.scan = defect # "scan",
                                !.chunk = IF defect \in {"refused", "broken"}
                                            THEN defect ELSE "ok"]
    IN  [Archive(20 + 30 * n,
                 [k \in 1 .. n |-> IF k = n THEN last ELSE file(k)],
                 IF defect = "cut" THEN "truncated"
                 ELSE IF n = 3 THEN "mismatch" ELSE "ok")
           EXCEPT !.parses = defect # "header"]

OuterArchive(children) ==
    LET name(k) == CASE k = 1 -> <<"x.vec">> [] k = 2 -> <<"y.vec">> [] k = 3 -> <<>>
    IN  Archive(200 + 10 * Len(children),
                [k \in 1 .. Len(children) |-> File(name(k), children[k])], "absent")

MCBytes ==
    [p \in MCPayloads |->
       CASE p = a -> Plain(5)
         [] p = b -> Plain(40)
         [] p[1] = "flat" -> FlatArchive(p[2], p[3])
         [] p = Small -> [FlatArchive(1, "none") EXCEPT !.size = 71]
         [] p = Clash -> Archive(120, <<File(<<"x.vec">>, Flat(1, "none")),
                                        File(<<"x.d">>, a)>>, "absent")
         [] p = Flagged -> Archive(80, <<[File(<<"x">>, a) EXCEPT !.nested = TRUE]>>,
                                   "absent")
         [] OTHER -> OuterArchive(p[2])]

\* A buffer that is no longer ours holds a file or an archive.
MCResidue == {b, Small}

MCReplaceExtension ==
    [a |-> "a.d", b |-> "b.d", c |-> "c.d", d |-> "d.d", x |-> "x.d",
     unnamed |-> "unnamed.d"]
      @@ [part \in {"x.vec", "x.d"} |-> "x.d"] @@ [part \in {"y.vec"} |-> "y.d"]
=============================================================================
