------------------------------- MODULE Paths -------------------------------
(***************************************************************************)
(* What the program does to an entry's name: the policy of inspection and  *)
(* validation (analyzePath in src/src/path_utils.cc), the classes of the   *)
(* format rules (classifyArchiveName in src/src/format_rules.cc), and the  *)
(* file that extraction writes (safeOutputPath in src/src/nested.cc).      *)
(*                                                                         *)
(* A name is a sequence of components with one kind of separator.  A       *)
(* component is a word with the blanks and dots behind it: ".", ".." and   *)
(* the component between two separators in a row have the word NoWord.     *)
(* Whatever the code asks of a word is an entry of the Lexicon.            *)
(***************************************************************************)
EXTENDS Naturals, Sequences, FiniteSets, SequencesExt

CONSTANTS
    Lexicon,         \* the words, each with what is asked of it
    NoWord, UnnamedWord,
    PathLimits,      \* the limits of the default policy, and of the format rules
    PermissiveLimits \* those of the permissive one

Words == DOMAIN Lexicon

Advisory == {"backup", "temporary", "editor-swap", "system-metadata"}

\* fold: in lower case; stem and ext: the parts before and from the last dot;
\* marked: with "_" before it; replaced: with "_" for each unsafe character;
\* dotted: it begins with a dot; begins: what its beginning suggests, whatever
\* follows; ends: what the whole of it, or its end, suggests; packed: such
\* extensions are of compressed files.
WordFacts ==
    [size : Nat, fold : Words, stem : Words, ext : Words, marked : Words,
     replaced : Words, device : BOOLEAN, drive : BOOLEAN, control : BOOLEAN,
     wildcard : BOOLEAN, dotted : BOOLEAN, begins : SUBSET Advisory,
     ends : SUBSET Advisory, packed : BOOLEAN]

Limits == [components : Nat, componentSize : Nat, pathSize : Nat]

ASSUME PathsAssumption ==
    /\ Lexicon \in [Words -> WordFacts]
    /\ {NoWord, UnnamedWord} \subseteq Words /\ NoWord # UnnamedWord
    /\ Lexicon[NoWord].size = 0
    /\ \A w \in {NoWord, UnnamedWord} :
          /\ Lexicon[w].ext = NoWord /\ ~Lexicon[w].device
          /\ ~Lexicon[w].drive /\ ~Lexicon[w].control
    /\ \A w \in Words : Lexicon[Lexicon[w].fold].fold = Lexicon[w].fold
    /\ PathLimits \in Limits /\ PermissiveLimits \in Limits
    /\ \A limit \in {"components", "componentSize", "pathSize"} :
          PathLimits[limit] <= PermissiveLimits[limit]

Component == [word : Words, tail : Seq({"space", "dot"})]

Bare(w) == [word |-> w, tail |-> <<>>]
Empty == Bare(NoWord)
Current == [word |-> NoWord, tail |-> <<"dot">>]
Parent == [word |-> NoWord, tail |-> <<"dot", "dot">>]
Unnamed == Bare(UnnamedWord)

\* back: the separators are backslashes.
Name ==
    {n \in [components : Seq(Component), back : BOOLEAN] :
       n.components # <<>> /\ (n.back => Len(n.components) > 1)}

\* joinPathComponents of components none of which is empty.
Joined(components) == [components |-> components, back |-> FALSE]
EmptyName == Joined(<<Empty>>)

ComponentSize(c) == Lexicon[c.word].size + Len(c.tail)
NameSize(n) ==
    FoldLeft(LAMBDA size, c : size + ComponentSize(c) + 1, 0, n.components) - 1

\* The members of s that are in set, in their order: SelectSeq, as a function of
\* the length of a prefix.
Within(s, set) ==
    LET upTo[n \in 0 .. Len(s)] ==
          IF n = 0 THEN <<>>
          ELSE IF s[n] \in set THEN Append(upTo[n - 1], s[n]) ELSE upTo[n - 1]
    IN  upTo[Len(s)]

-----------------------------------------------------------------------------
(* Components.                                                             *)

\* The place of the last dot behind the word, 0 if there is none.
LastDot(c) == SelectLastInSeq(c.tail, LAMBDA ch : ch = "dot")

\* A dot at the very beginning starts no extension.
Extension(c) ==
    CASE LastDot(c) > (IF c.word = NoWord THEN 1 ELSE 0) ->
           [word |-> NoWord, tail |-> SubSeq(c.tail, LastDot(c), Len(c.tail))]
      [] LastDot(c) = 0 /\ Lexicon[c.word].ext # NoWord ->
           [c EXCEPT !.word = Lexicon[c.word].ext]
      [] OTHER -> Empty

Stem(c) ==
    CASE LastDot(c) > (IF c.word = NoWord THEN 1 ELSE 0) ->
           [c EXCEPT !.tail = SubSeq(c.tail, 1, LastDot(c) - 1)]
      [] LastDot(c) = 0 /\ Lexicon[c.word].ext # NoWord ->
           Bare(Lexicon[c.word].stem)
      [] OTHER -> c

IsDevice(c) == Stem(c).tail = <<>> /\ Lexicon[Stem(c).word].device
EndsIn(c, ch) == c.tail # <<>> /\ Last(c.tail) = ch

TrimTail(c, ch) ==
    [c EXCEPT !.tail = SubSeq(c.tail, 1, SelectLastInSeq(c.tail, LAMBDA x : x # ch))]

\* The first of a sequence of labelled conditions that holds.
FirstLabel(tests) == tests[SelectInSeq(tests, LAMBDA t : t.holds)].label
Test(label, holds) == [label |-> label, holds |-> holds]

\* The labels of those that hold.
Codes(tests) ==
    LET holding == Within(tests, {t \in ToSet(tests) : t.holds})
    IN  [i \in DOMAIN holding |-> holding[i].label]

\* No device has a dot in its name. A word with "_" before it is neither device
\* nor drive; with "_" for its unsafe characters it is none unless it was before.
ASSUME ReplacementAssumption ==
    \A w \in Words :
       LET facts == Lexicon[w] IN
       /\ facts.device => facts.ext = NoWord
       /\ IsDevice(Bare(w)) =>
             /\ facts.marked # NoWord /\ ~IsDevice(Bare(facts.marked))
             /\ ~Lexicon[facts.marked].drive
             /\ Lexicon[facts.marked].control = facts.control
       /\ facts.control =>
             /\ facts.replaced # NoWord /\ ~Lexicon[facts.replaced].control
             /\ IsDevice(Bare(facts.replaced)) => IsDevice(Bare(w))
             /\ Lexicon[facts.replaced].drive => facts.drive

ComponentKinds ==
    {"empty", "current", "parent", "drive", "device", "control", "space", "dot",
     "wildcard", "normal"}

\* PathPolicy: the kinds it allows, and its limits.
Policy == [allowed : SUBSET (ComponentKinds \cup {"absolute"}), limits : Limits]
DefaultPolicy == [allowed |-> {"current", "wildcard"}, limits |-> PathLimits]
PermissivePolicy ==
    [allowed |-> (ComponentKinds \cup {"absolute"}),
     limits |-> PermissiveLimits]

\* classifyComponent
Kind(p, c) ==
    LET has(kind, holds) == Test(kind, kind \notin p.allowed /\ holds) IN
    FirstLabel(<<Test("empty", c = Empty), Test("current", c = Current),
                 Test("parent", c = Parent), Test("drive", Lexicon[c.word].drive),
                 has("device", IsDevice(c)), has("control", Lexicon[c.word].control),
                 has("space", EndsIn(c, "space")), has("dot", EndsIn(c, "dot")),
                 has("wildcard", Lexicon[c.word].wildcard), Test("normal", TRUE)>>)

KindAllowed(p, kind) == kind = "normal" \/ kind \in p.allowed

\* Mutant: a component "." is kept.
ReplacementKeepingCurrent(p, c) ==
    LET kind == Kind(p, c) IN
    CASE kind \in {"empty", "parent", "drive"} -> Empty
      [] kind = "device" -> [c EXCEPT !.word = Lexicon[c.word].marked]
      [] kind \in {"space", "dot"} -> TrimTail(c, kind)
      [] kind \in {"control", "wildcard"} -> [c EXCEPT !.word = Lexicon[c.word].replaced]
      [] OTHER -> c

\* replacementForComponent: one thing is mended, whatever else there is.
Replacement(p, c) ==
    LET kind == Kind(p, c) IN
    CASE kind \in {"empty", "current", "parent", "drive"} -> Empty
      [] kind = "device" -> [c EXCEPT !.word = Lexicon[c.word].marked]
      [] kind \in {"space", "dot"} -> TrimTail(c, kind)
      [] kind \in {"control", "wildcard"} -> [c EXCEPT !.word = Lexicon[c.word].replaced]
      [] kind = "normal" -> c

-----------------------------------------------------------------------------
(* Names.                                                                  *)

IsAbsolute(n) ==
    \/ Head(n.components) = Empty /\ Len(n.components) > 1
    \/ Lexicon[Head(n.components).word].drive

CleanComponents(p, n) ==
    Within([i \in DOMAIN n.components |-> Replacement(p, n.components[i])],
           Component \ {Empty})

ComponentIssues(p, c) ==
    Codes(<<Test(Kind(p, c), ~KindAllowed(p, Kind(p, c))),
            Test("path.component_too_long", ComponentSize(c) > p.limits.componentSize)>>)

\* The codes analyzePath reports, in that order; a name is valid if there are
\* none.
PathIssues(p, n) ==
    Codes(<<Test("path.empty", n = EmptyName /\ "empty" \notin p.allowed),
            Test("path.too_long", NameSize(n) > p.limits.pathSize),
            Test("path.absolute", IsAbsolute(n) /\ "absolute" \notin p.allowed)>>)
      \o FlattenSeq([i \in DOMAIN n.components |-> ComponentIssues(p, n.components[i])])
      \o Codes(<<Test("path.too_many_components",
                      Len(CleanComponents(p, n)) > p.limits.components)>>)

\* analyzePath(...).normalized
Normalized(p, n) ==
    LET clean == CleanComponents(p, n)
        limit == p.limits.components
    IN  Joined(IF clean = <<>> \/ limit = 0 THEN <<Unnamed>>
               ELSE IF Len(clean) > limit THEN SubSeq(clean, 1, limit) ELSE clean)

\* canonicalCollisionKey: blanks at the end do not count, nor does case.  (No
\* word of the lexicon begins with a blank.)
CanonicalKey(n) ==
    [i \in DOMAIN n.components |->
       LET c == IF i = Len(n.components) THEN TrimTail(n.components[i], "space")
                                         ELSE n.components[i]
       IN  [c EXCEPT !.word = Lexicon[c.word].fold]]

\* classifyArchiveName
NameClass(n) ==
    LET components == ToSet(n.components) IN
    FirstLabel(<<Test("empty", n = EmptyName),
                 Test("long", NameSize(n) > PathLimits.pathSize),
                 Test("control", \E c \in components : Lexicon[c.word].control),
                 Test("absolute", IsAbsolute(n)),
                 Test("dots", components \cap {Current, Parent} # {}),
                 Test("device", IsDevice(Last(n.components))),
                 Test("directory", Len(n.components) > 1),
                 Test("simple", TRUE)>>)

\* dirnameOf: a separator at the very beginning is no directory.
Directory(n) ==
    IF Front(n.components) = <<Empty>> THEN <<>> ELSE Front(n.components)

\* A component of dots and blanks only begins with its first.
StartsDotted(c) ==
    IF c.word = NoWord THEN c.tail # <<>> /\ Head(c.tail) = "dot" ELSE Lexicon[c.word].dotted

\* findExtensionRule of normalizedExtension: a name without separators that
\* begins with a dot is an extension itself.
CommonlyCompressed(n) ==
    LET c == Last(n.components)
        ext == IF Len(n.components) = 1 /\ StartsDotted(c) THEN c ELSE Extension(c)
    IN  ext.tail = <<>> /\ Lexicon[Lexicon[ext.word].fold].packed

\* nameAdvisories, those of them that validation passes on.
Advisories(n) ==
    LET c == Last(n.components)
        word == Lexicon[Lexicon[c.word].fold]
    IN  word.begins \cup IF c.tail = <<>> THEN word.ends ELSE {}

-----------------------------------------------------------------------------
(* Names as std::filesystem takes them, where a backslash separates        *)
(* nothing.                                                                *)

\* path::lexically_normal, without the root, which the callers drop.
LexicallyNormal(components) ==
    FoldLeft(LAMBDA path, c :
               CASE c \in {Empty, Current} -> path
                 [] c = Parent /\ path # <<>> /\ Last(path) # Parent -> Front(path)
                 [] OTHER -> Append(path, c),
             <<>>, components)

BelowRoot(n) == Within(LexicallyNormal(n.components), Component \ {Parent})

\* safeOutputPath
Output(n) ==
    IF n.back THEN n
    ELSE Joined(IF BelowRoot(n) = <<>> THEN <<Unnamed>> ELSE BelowRoot(n))

\* normalizedArchiveName of a path given to pack(), with what becomes of an
\* empty one: a path of dots and separators only falls back on its filename.
PackedName(n) ==
    CASE n.back -> n
      [] ~n.back /\ BelowRoot(n) # <<>> -> Joined(BelowRoot(n))
      [] ~n.back /\ BelowRoot(n) = <<>> ->
           Joined(<<IF Last(n.components) = Empty THEN Unnamed ELSE Last(n.components)>>)

\* What sanitizing would mend, one thing at a time (path_utils.cc:60).
Defects(c) ==
    {d \in {"device", "control", "space", "dot"} :
       \/ d = "device" /\ IsDevice(Bare(c.word))
       \/ d = "control" /\ Lexicon[c.word].control
       \/ d \in ToSet(c.tail)}

=============================================================================
