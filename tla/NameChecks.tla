----------------------------- MODULE NameChecks -----------------------------
(***************************************************************************)
(* The components that look for entries whose output names collide, over   *)
(* one archive with the archives nested in it:                             *)
(*   inspection (src/src/inspect.cc) has a CollisionResolver per archive   *)
(*   and warns of entries it renames;                                      *)
(*   validateDuplicates (src/src/validator.cc) compares the keys of all    *)
(*   entries, of whatever archive;                                         *)
(*   analyzePaths (src/src/archive_stats.cc) counts them;                  *)
(*   buildExtractionPlan (src/src/path_report.cc) names all entries with   *)
(*   one CollisionResolver and the policy it is given.                     *)
(*                                                                         *)
(* The entries are numbered as flattenEntries lists them, a container      *)
(* before its members; owner[i] is the entry that holds the archive entry  *)
(* i is in, 0 for the outermost.  Each loop is run to its end before the   *)
(* next begins; inspections of nested archives interleave, but have        *)
(* resolvers of their own.                                                 *)
(***************************************************************************)
EXTENDS CollisionResolver

CONSTANTS
    Archives,        \* records: the names of the entries, and their owners
    Policies         \* the policies given to buildExtractionPlan

Archive ==
    {a \in [names : Seq(Requests), owner : Seq(Nat)] :
       /\ Len(a.names) = Len(a.owner)
       /\ \A i \in DOMAIN a.owner : a.owner[i] < i}

\* The objects: one for the archive held by entry n, one for the plan.
Inspection(n) == <<"inspect", n>>
Plan == <<"plan", 0>>

ASSUME NamesAssumption ==
    /\ Archives \subseteq Archive
    /\ Policies \subseteq Policy
    /\ \A a \in Archives : \A n \in 0 .. Len(a.names) :
          Inspection(n) \in Resolvers
    /\ Plan \in Resolvers

VARIABLES
    archive,
    pc,              \* "inspect", "duplicates", "plan", "done"
    next,            \* the entry the loop has come to
    seen,            \* the keys of validateDuplicates' map
    duplicates       \* entries with a warning path.duplicate

vars == <<resolverVars, archive, pc, next, seen, duplicates>>

Entries == DOMAIN archive.names
NormalizedName(i) == Normalized[archive.names[i]]

\* The object asked for the name of entry i.
ResolverOf(i) == IF pc = "inspect" THEN Inspection(archive.owner[i]) ELSE Plan

TypeInvariant ==
    /\ archive \in Archives
    /\ pc \in {"inspect", "duplicates", "plan", "done"}
    /\ next \in 1 .. Len(archive.names) + 1
    /\ seen \subseteq Name
    /\ duplicates \subseteq Entries
    /\ policy \in [Resolvers -> Policy]
    /\ keys \in [Resolvers -> SUBSET Name]
    /\ \A r \in Resolvers :
          /\ DOMAIN assignments[r] \subseteq Requests
          /\ \A q \in DOMAIN assignments[r] : assignments[r][q] \in Name
    /\ granted \in [Resolvers -> Seq(Result)]
    /\ call \in Call \cup {NoCall}

Init ==
    /\ archive \in Archives
    /\ \E p \in Policies :
          policy = [r \in Resolvers |-> IF r = Plan THEN p ELSE DefaultPolicy]
    /\ pc = "inspect"
    /\ next = 1
    /\ seen = {}
    /\ duplicates = {}
    /\ ResolverInit

NameEntry ==
    /\ pc \in {"inspect", "plan"}
    /\ next \in Entries
    /\ StartAssign(ResolverOf(next), archive.names[next])
    /\ UNCHANGED <<archive, pc, next, seen, duplicates>>

TryAgain ==
    /\ TryNext
    /\ UNCHANGED <<archive, pc, next, seen, duplicates>>

\* Mutant: the entry behind a named one is skipped.
EntryNamedSkip ==
    /\ Return
    /\ next' = next + 2
    /\ UNCHANGED <<archive, pc, seen, duplicates>>

EntryNamed ==
    /\ Return
    /\ next' = next + 1
    /\ UNCHANGED <<archive, pc, seen, duplicates>>

\* Mutant: validateDuplicates compares the names as they stand.
CompareNames(i) ==
    /\ duplicates' = IF NormalizedName(i) \in seen THEN duplicates \cup {i} ELSE duplicates
    /\ seen' = seen \cup {NormalizedName(i)}

CompareKeys(i) ==
    LET key == CanonicalKey(NormalizedName(i)) IN
    /\ duplicates' = IF key \in seen THEN duplicates \cup {i} ELSE duplicates
    /\ seen' = seen \cup {key}

CheckDuplicate ==
    /\ pc = "duplicates"
    /\ next \in Entries
    /\ CompareKeys(next)
    /\ next' = next + 1
    /\ UNCHANGED <<resolverVars, archive, pc>>

\* The loop under way has come to its end.
NextLoop ==
    /\ pc # "done"
    /\ next \notin Entries
    /\ pc' = CASE pc = "inspect" -> "duplicates"
               [] pc = "duplicates" -> "plan"
               [] pc = "plan" -> "done"
    /\ next' = 1
    /\ UNCHANGED <<resolverVars, archive, seen, duplicates>>

Done == pc = "done" /\ UNCHANGED vars

Next ==
    \/ NameEntry
    \/ TryAgain
    \/ EntryNamed
    \/ CheckDuplicate
    \/ NextLoop
    \/ Done

Spec == Init /\ [][Next]_vars

\* One thread runs the loops, and no iteration waits for anything.
FairSpec == Spec /\ WF_vars(Next)

-----------------------------------------------------------------------------
(* Properties.                                                             *)

KeyGranted(r, i) == CollisionKey(policy[r], granted[r][i].assigned)

\* README.md:126-127: path_utils does "collision resolution": no two entries are given
\* names with the same key, those included that already looked like a name
\* with a mark (path_utils.cc:146-153).
NamesDistinct ==
    \A r \in Resolvers : \A i, j \in DOMAIN granted[r] :
       i # j => KeyGranted(r, i) # KeyGranted(r, j)

\* A name is changed only if it has to be, and no further than it has to: of
\* the names assign() tried before the one it gave, each had been given to an
\* earlier entry.
FirstFree ==
    \A r \in Resolvers : \A i \in DOMAIN granted[r] :
       LET result == granted[r][i]
           wanted == Normalized[result.requested]
           tried == {Candidate(policy[r], wanted, k) : k \in 1 .. result.attempt - 1}
                      \cup (IF result.collided THEN {wanted} ELSE {})
       IN  /\ result.assigned =
                IF result.collided THEN Candidate(policy[r], wanted, result.attempt)
                                   ELSE wanted
           /\ \A n \in tried : \E j \in 1 .. i - 1 :
                 KeyGranted(r, j) = CollisionKey(policy[r], n)

\* analyzePaths: for each key, the entries beyond the first.
DuplicateNormalized ==
    Len(archive.names)
      - Cardinality({CanonicalKey(NormalizedName(i)) : i \in Entries})

\* README.md:110 lists "duplicates, and output collisions" among what verification
\* finds.  The four components agree: the statistics count the duplicates; a
\* plan that ignores case renames all of them, and nothing unless there are
\* some; and where inspection renames an entry, there are.
ChecksAgree ==
    pc = "done" =>
       LET renamed == {i \in Entries : granted[Plan][i].collided} IN
       /\ Cardinality(duplicates) = DuplicateNormalized
       /\ policy[Plan].lowercase =>
             /\ duplicates \subseteq renamed
             /\ renamed # {} => duplicates # {}
       /\ (\E r \in Resolvers \ {Plan} :
             \E i \in DOMAIN granted[r] : granted[r][i].collided) =>
             duplicates # {}

\* assign() returns and the loops end, for strategies that mark names.
NamingEnds == policy[Plan].strategy # "keepFirst" => <>(pc = "done")

=============================================================================
