---------------------------- MODULE MCManifests ----------------------------
EXTENDS Reports

MCBucketBounds == <<0, 1, 3>>
MCClassBounds == <<0, 1, 2, 4>>
MCFormatSizes == [archive |-> 5, extension |-> 1]

\* size, fold, stem, ext, marked, replaced and what the word is.
Word1(size, fold, stem, ext, marked, replaced, kinds) ==
    [size |-> size, fold |-> fold, stem |-> stem, ext |-> ext, marked |-> marked,
     replaced |-> replaced, device |-> "device" \in kinds, drive |-> "drive" \in kinds,
     control |-> "control" \in kinds, wildcard |-> "wildcard" \in kinds,
     dotted |-> "dotted" \in kinds, begins |-> kinds \cap {"editor-swap"},
     ends |-> kinds \cap {"backup", "temporary", "system-metadata"},
     packed |-> "packed" \in kinds]

Plain(w, size) == Word1(size, w, w, "", w, w, {})

Dotted(w, size, fold, stem, ext, marked) == Word1(size, fold, stem, ext, marked, w, {})

MCLexicon ==
    [w \in {"", "a", "long", "_con", "_tl", "_", ".c", ".txt"} |-> Plain(w, Len(w))]
    @@ ("unnamed" :> Plain("unnamed", 5))
    @@ ("(none)" :> Plain("(none)", 6))
    @@ ("A" :> Word1(1, "a", "A", "", "A", "A", {}))
    @@ ("con" :> Word1(3, "con", "con", "", "_con", "con", {"device"}))
    @@ ("con.c" :> Dotted("con.c", 5, "con.c", "con", ".c", "_con.c"))
    @@ ("_con.c" :> Dotted("_con.c", 5, "_con.c", "_con", ".c", "_con.c"))
    @@ ("a.txt" :> Dotted("a.txt", 5, "a.txt", "a", ".txt", "a.txt"))
    @@ ("A.txt" :> Dotted("A.txt", 5, "a.txt", "A", ".txt", "A.txt"))
    @@ (".zip" :> Word1(4, ".zip", ".zip", "", ".zip", ".zip", {"dotted", "packed"}))
    @@ ("a.zip" :> Dotted("a.zip", 5, "a.zip", "a", ".zip", "a.zip"))
    @@ ("a~" :> Word1(2, "a~", "a~", "", "a~", "a~", {"backup", "temporary"}))
    @@ ("#" :> Word1(1, "#", "#", "", "#", "#", {"editor-swap"}))
    @@ ("c:" :> Word1(2, "c:", "c:", "", "c:", "c:", {"drive"}))
    @@ ("^tl" :> Word1(3, "^tl", "^tl", "", "^tl", "_tl", {"control"}))
    @@ ("*" :> Word1(1, "*", "*", "", "*", "_", {"wildcard"}))

MCPathLimits == [components |-> 2, componentSize |-> 5, pathSize |-> 8]
MCPermissiveLimits == [components |-> 8, componentSize |-> 20, pathSize |-> 32]

MCOptionSets ==
    {[max_depth |-> d, canonical |-> c, empties |-> c, policy |-> p] :
       d \in {1, 2}, c \in {TRUE}, p \in {DefaultPolicy}}
    \cup {[max_depth |-> 0, canonical |-> FALSE, empties |-> FALSE, policy |-> PermissivePolicy]}

Blank == [Empty EXCEPT !.tail = <<"space">>]
WithTail(w, tail) == [word |-> w, tail |-> tail]

Components ==
    {Empty, Current, Parent, Blank}
      \cup {Bare(w) : w \in {"unnamed", "a", "A", "con", "con.c", "_con", "c:", "^tl", "*",
                             "a.txt", "A.txt", "long", ".zip", "a.zip", "a~"}}
      \cup {WithTail(w, t) : w \in {"a", "con"},
              t \in {<<"space">>, <<"dot">>, <<"dot", "space">>, <<"space", "dot">>}}

\* One, two or three components.
Names ==
    ({Joined(<<c>>) : c \in Components}
       \cup {[components |-> <<c, d>>, back |-> b] : c, d \in Components, b \in BOOLEAN}
       \cup {Joined(<<c, d, e>>) : c, d, e \in {Empty, Current, Parent, Bare("a"), Bare("c:")}})
      \ {EmptyName}

\* A file of one byte with that name.
File(name) ==
    [name |-> name, packed |-> 1, original |-> 1, flags |-> {}, length |-> 1,
     chunkFlags |-> {}, inside |-> TRUE, expansion |-> 1, content |-> "plain", owner |-> 0]

Named(w) == File(Joined(<<Bare(w)>>))

Sound ==
    [opens |-> TRUE, known |-> TRUE, size |-> 5, extension |-> 0, sound |-> TRUE,
     overlap |-> FALSE]

Of(entries, rest) == [archive |-> entries, whole |-> Sound, other |-> rest]
Alone1(e) == Of(<<e>>, <<>>)

Wholes ==
    [opens : {TRUE}, known : BOOLEAN, size : {5, 6, 7}, extension : {0, 2}, sound : BOOLEAN,
     overlap : BOOLEAN]
      \cup {[Sound EXCEPT !.opens = FALSE, !.size = z, !.sound = FALSE] : z \in {0, 7}}

\* Chunks of every kind, in and out of order.
Chunks ==
    {e \in {[Named("a") EXCEPT !.packed = p, !.original = o, !.flags = f, !.length = l,
                               !.chunkFlags = g, !.inside = i, !.expansion = x, !.content = c] :
              p \in {0, 1, 3, 5}, o \in {0, 1, 6}, l \in {0, 1, 3, 5},
              f \in {{}, {"compressed"}, {"nested"}, {"compressed", "nested"}, {"unknown"}},
              g \in SUBSET {"compressed", "nested"},
              i \in BOOLEAN, x \in {1, 6}, c \in Contents} :
       /\ e.content # "plain" => Unpacked(e) # 0
       /\ e.inside \/ (e.length = e.packed /\ e.expansion = 1 /\ e.flags = {})
       /\ e.length = e.packed \/ (e.flags = {} /\ e.length = 1)
       /\ e.chunkFlags = e.flags \/ e.chunkFlags \in {{}, {"compressed"}}}

\* Containers in containers.
Containers ==
    {[File(Joined(<<Bare("a")>>)) EXCEPT !.packed = p, !.original = 3, !.length = p,
        !.flags = f, !.chunkFlags = IF p = 3 THEN {} ELSE {"compressed"},
        !.expansion = 3, !.content = "archive"] :
       p \in {1, 3}, f \in {{}, {"nested"}, {"compressed", "nested"}}}

In(e, owner) == [e EXCEPT !.owner = owner]

Trees ==
    {<<c, In(d, 1)>> : c \in Containers, d \in Containers \cup {Named("a"), Named("A.txt")}}
      \cup {<<c, In(d, 1), In(e, 2), f>> :
              c, d \in Containers, e \in Containers \cup {Named("a")}, f \in {Named("A")}}

\* Small archives, to be compared with one another.
Pair(w, big) ==
    IF big THEN [Named(w) EXCEPT !.packed = 3, !.length = 3, !.original = 6, !.expansion = 6,
                                 !.flags = {"compressed"}, !.chunkFlags = {"compressed"}]
           ELSE Named(w)

Entries == {Pair("a", FALSE), Pair("a", TRUE), Pair("A", FALSE), Pair("a.txt", TRUE)}
Smalls == {<<>>} \cup {<<e>> : e \in Entries} \cup {<<e, f>> : e, f \in Entries}

Damaged ==
    {[Of(IF w.opens THEN a ELSE <<>>, <<>>) EXCEPT !.whole = w] :
       w \in Wholes,
       a \in {<<>>, <<Named("a")>>, <<Named("a~"), Named("#")>>}}

\* Of a name that is made into another's.
Blanked == File(Joined(<<WithTail("a", <<"space">>)>>))

MCFormats ==
    [enabled : {{"warning", "error"}, {"error"}, Severity}, max : 0 .. 2]

MCInputs ==
    {Alone1(File(n)) : n \in Names} \cup {Alone1(e) : e \in Chunks}
      \cup {Of(a, b) : a \in Trees, b \in {<<>>, <<Named("a")>>}}
      \cup {Of(a, b) : a, b \in Smalls}
      \cup Damaged
      \cup {Of(<<Blanked, Named("a")>>, <<>>), Of(<<Named("a"), Blanked>>, <<>>)}

=============================================================================
