---------------------------- MODULE ChecksProofs ----------------------------
(***************************************************************************)
(* Proofs about Layout and NameChecks: loops that do not know of each      *)
(* other go through the entries of one archive, and must agree.            *)
(*                                                                         *)
(* The names given out, for any archives, policies and keys of names, and  *)
(* however often the counter of attempts comes round.  The keys a resolver *)
(* keeps are those of the names it has granted (KeysGranted); while        *)
(* assign() is under way, whatever it has tried is among them (CallInv).   *)
(* The count of duplicates and the plan agree since each keeps the keys of *)
(* the entries before the one at hand (ChecksInv).                         *)
(*                                                                         *)
(* The chunks, for every manifest inspection can leave.  Each sweep has an *)
(* invariant of its own: of the chunks visited so far the validator keeps  *)
(* the furthest end, and everything before the cursor of the other sweep   *)
(* is in some segment.  The gaps each reports are the voids of the ranges  *)
(* it has passed (Voids).                                                  *)
(***************************************************************************)
EXTENDS NameChecks, Layout, FiniteSetTheorems, TLAPS

-----------------------------------------------------------------------------
(* Types of the names.                                                     *)

LEMMA CandidateType ==
    ASSUME NEW p \in Policy, NEW n \in Name, NEW attempt \in Nat
    PROVE  Candidate(p, n, attempt) \in Name
<1>1. p.strategy \in Strategies
  BY DEF Policy
<1>2. \A mark \in Mark : WithMark(n, mark) \in Name
  BY DEF Name, WithMark
<1>3. /\ <<"number", attempt + 1, 0>> \in Mark
      /\ <<"hash", Digest[n.base], attempt>> \in Mark
  BY ResolverAssumption DEF Mark, Name
<1> QED
  BY <1>1, <1>2, <1>3 DEF Strategies, Candidate

LEMMA KeyType ==
    ASSUME NEW p \in Policy, NEW n \in Name
    PROVE  CollisionKey(p, n) \in Name /\ CanonicalKey(n) \in Name
  BY ResolverAssumption DEF CollisionKey, CanonicalKey, Name

LEMMA ArchiveType ==
    ASSUME NEW a \in Archives
    PROVE  /\ a.names \in Seq(Requests)
           /\ Len(a.names) \in Nat
           /\ a.owner \in Seq(Nat)
           /\ \A i \in DOMAIN a.names :
                 /\ i \in 1 .. Len(a.names)
                 /\ Inspection(a.owner[i]) \in Resolvers
<1>1. /\ a.names \in Seq(Requests)
      /\ a.owner \in Seq(Nat)
      /\ Len(a.names) = Len(a.owner)
      /\ \A i \in DOMAIN a.owner : a.owner[i] < i
  BY NamesAssumption DEF Archive
<1>2. \A i \in DOMAIN a.names : a.owner[i] \in 0 .. Len(a.names)
  BY <1>1
<1> QED
  BY <1>1, <1>2, NamesAssumption

LEMMA InitType == Init => TypeInvariant
<1> SUFFICES ASSUME Init
             PROVE  TypeInvariant
  OBVIOUS
<1>1. archive \in Archives
  BY DEF Init
<1>2. Len(archive.names) \in Nat
  BY <1>1, ArchiveType
<1>3. policy \in [Resolvers -> Policy]
  <2>1. DefaultPolicy \in Policy
    BY DEF DefaultPolicy, Policy, Strategies
  <2>2. PICK p \in Policies :
           policy = [r \in Resolvers |-> IF r = Plan THEN p ELSE DefaultPolicy]
    BY DEF Init
  <2> QED
    BY <2>1, <2>2, NamesAssumption
<1>4. /\ keys \in [Resolvers -> SUBSET Name]
      /\ granted \in [Resolvers -> Seq(Result)]
      /\ \A r \in Resolvers : DOMAIN assignments[r] = {}
      /\ call = NoCall
  BY DEF Init, ResolverInit
<1> QED
  BY <1>1, <1>2, <1>3, <1>4 DEF Init, TypeInvariant

LEMMA NameEntryType == TypeInvariant /\ NameEntry => TypeInvariant'
<1> SUFFICES ASSUME TypeInvariant, NameEntry
             PROVE  TypeInvariant'
  OBVIOUS
<1>1. ResolverOf(next) \in Resolvers /\ archive.names[next] \in Requests
  BY ArchiveType, NamesAssumption DEF TypeInvariant, NameEntry, ResolverOf, Entries
<1>2. Normalized[archive.names[next]] \in Name
  BY <1>1, ResolverAssumption
<1>3. call' \in Call
  BY <1>1, <1>2, ResolverAssumption DEF NameEntry, StartAssign, Call
<1> QED
  BY <1>3 DEF TypeInvariant, NameEntry, StartAssign, Entries

LEMMA TryAgainType == TypeInvariant /\ TryAgain => TypeInvariant'
<1> SUFFICES ASSUME TypeInvariant, TryAgain
             PROVE  TypeInvariant'
  OBVIOUS
<1>1. call \in Call
  BY DEF TypeInvariant, TryAgain, TryNext, NoCall
<1> DEFINE attempt == (call.attempt + 1) % Word
<1>2. attempt \in Nat /\ attempt \in 0 .. Word - 1
  BY <1>1, ResolverAssumption DEF Call
<1>3. Candidate(policy[call.resolver], Normalized[call.requested], attempt) \in Name
  <2>1. policy[call.resolver] \in Policy /\ Normalized[call.requested] \in Name
    BY <1>1, ResolverAssumption DEF TypeInvariant, Call
  <2> QED
    BY <1>2, <2>1, CandidateType
<1>4. call' \in Call
  BY <1>1, <1>2, <1>3 DEF TryAgain, TryNext, Call
<1> QED
  BY <1>4 DEF TypeInvariant, TryAgain, TryNext, Entries

LEMMA EntryNamedType == TypeInvariant /\ next \in Entries /\ EntryNamed => TypeInvariant'
<1> SUFFICES ASSUME TypeInvariant, next \in Entries, EntryNamed
             PROVE  TypeInvariant'
  OBVIOUS
<1>1. call \in Call
  BY DEF TypeInvariant, EntryNamed, Return, NoCall
<1>2. call.resolver \in Resolvers /\ call.candidate \in Name /\ call.requested \in Requests
  BY <1>1 DEF Call
<1>3. keys' \in [Resolvers -> SUBSET Name]
  <2>1. CollisionKey(policy[call.resolver], call.candidate) \in Name
    BY <1>2, KeyType DEF TypeInvariant
  <2> QED
    BY <1>2, <2>1 DEF TypeInvariant, EntryNamed, Return
<1>4. granted' \in [Resolvers -> Seq(Result)]
  <2>1. ReturnedResult \in Result
    BY <1>1 DEF ReturnedResult, Result, Call
  <2> QED
    BY <1>2, <2>1 DEF TypeInvariant, EntryNamed, Return
<1>5. \A r \in Resolvers :
         /\ DOMAIN assignments'[r] \subseteq Requests
         /\ \A q \in DOMAIN assignments'[r] : assignments'[r][q] \in Name
  BY <1>2 DEF TypeInvariant, EntryNamed, Return, Assign
<1>6. next' \in 1 .. Len(archive'.names) + 1
  BY ArchiveType DEF TypeInvariant, EntryNamed, Entries
<1> QED
  BY <1>3, <1>4, <1>5, <1>6 DEF TypeInvariant, EntryNamed, Return, Entries

\* A name is asked for while the loop is at an entry.
Asking == call.active => pc \in {"inspect", "plan"} /\ next \in Entries

LEMMA TypeStep == TypeInvariant /\ Asking /\ [Next]_vars => TypeInvariant' /\ Asking'
<1> SUFFICES ASSUME TypeInvariant, Asking, [Next]_vars
             PROVE  TypeInvariant' /\ Asking'
  OBVIOUS
<1>1. CASE NameEntry
  BY <1>1, NameEntryType DEF Asking, NameEntry, Entries
<1>2. CASE TryAgain
  BY <1>2, TryAgainType DEF Asking, TryAgain, TryNext, Entries
<1>3. CASE EntryNamed
  BY <1>3, EntryNamedType DEF Asking, EntryNamed, Return, NoCall
<1>4. CASE CheckDuplicate
  <2>1. CanonicalKey(NormalizedName(next)) \in Name
    <3>1. archive.names[next] \in Requests
      BY <1>4, ArchiveType DEF TypeInvariant, CheckDuplicate, Entries
    <3>2. NormalizedName(next) \in Name
      BY <3>1, ResolverAssumption DEF NormalizedName
    <3> QED
      BY <3>2, ResolverAssumption DEF CanonicalKey, Name
  <2>2. next' \in 1 .. Len(archive'.names) + 1
    BY <1>4, ArchiveType DEF TypeInvariant, CheckDuplicate, Entries
  <2>3. ~call.active
    BY <1>4 DEF CheckDuplicate, Asking
  <2> QED
    BY <1>4, <2>1, <2>2, <2>3
       DEF TypeInvariant, Asking, CheckDuplicate, CompareKeys, Entries, resolverVars
<1>5. CASE NextLoop
  <2>1. ~call.active
    BY <1>5 DEF NextLoop, Asking
  <2>2. Len(archive.names) \in Nat
    BY ArchiveType DEF TypeInvariant
  <2> QED
    BY <1>5, <2>1, <2>2 DEF TypeInvariant, Asking, NextLoop, Entries, resolverVars
<1>6. CASE UNCHANGED vars
  BY <1>6 DEF vars, resolverVars, TypeInvariant, Asking, Entries
<1> QED
  BY <1>1, <1>2, <1>3, <1>4, <1>5, <1>6 DEF Next, Done

LEMMA InitAsking == Init => Asking
  BY DEF Init, ResolverInit, NoCall, Asking

\* TypeInvariant of every reachable state: the loops stay inside the archive and
\* the resolvers inside their types, for any archives and policies.
THEOREM TypeCorrect == Spec => []TypeInvariant
<1>1. Init => TypeInvariant /\ Asking
  BY InitType, InitAsking
<1>2. TypeInvariant /\ Asking /\ [Next]_vars => (TypeInvariant /\ Asking)'
  BY TypeStep
<1> QED
  BY <1>1, <1>2, PTL DEF Spec

-----------------------------------------------------------------------------
(* The names granted.                                                      *)

Key(r, n) == CollisionKey(policy[r], n)

\* keys_ holds the keys of the names granted and no others, and those differ.
KeysGranted ==
    \A r \in Resolvers :
       /\ keys[r] = {KeyGranted(r, i) : i \in DOMAIN granted[r]}
       /\ \A i, j \in DOMAIN granted[r] : i # j => KeyGranted(r, i) # KeyGranted(r, j)

\* What assign() has tried before candidate k of a name.
Tried(p, n, collided, k) ==
    {Candidate(p, n, l) : l \in 1 .. k - 1} \cup (IF collided THEN {n} ELSE {})

CandidateAt(p, n, collided, k) == IF collided THEN Candidate(p, n, k) ELSE n

CallInv ==
    call.active =>
       LET p == policy[call.resolver]
           wanted == Normalized[call.requested]
       IN  /\ call.candidate = CandidateAt(p, wanted, call.collided, call.attempt)
           /\ ~call.collided => call.attempt = 0
           /\ \A n \in Tried(p, wanted, call.collided, call.attempt) :
                 Key(call.resolver, n) \in keys[call.resolver]

KeyOf(p, results, i) == CollisionKey(p, results[i].assigned)

\* FirstFree of result i of a resolver with policy p.
FirstOf(p, results, i) ==
    LET result == results[i]
        wanted == Normalized[result.requested]
    IN  /\ result.assigned = CandidateAt(p, wanted, result.collided, result.attempt)
        /\ \A n \in Tried(p, wanted, result.collided, result.attempt) :
              \E j \in 1 .. i - 1 : KeyOf(p, results, j) = CollisionKey(p, n)

GrantedInv ==
    \A r \in Resolvers : \A i \in DOMAIN granted[r] : FirstOf(policy[r], granted[r], i)

NamesInv == TypeInvariant /\ Asking /\ KeysGranted /\ CallInv /\ GrantedInv

LEMMA InitNames == Init => NamesInv
<1> SUFFICES ASSUME Init
             PROVE  NamesInv
  OBVIOUS
<1>1. TypeInvariant /\ Asking
  BY InitType, InitAsking
<1>2. \A r \in Resolvers : granted[r] = <<>> /\ keys[r] = {}
  BY DEF Init, ResolverInit
<1>3. KeysGranted /\ GrantedInv
  BY <1>2 DEF KeysGranted, GrantedInv
<1>4. CallInv
  BY DEF Init, ResolverInit, NoCall, CallInv
<1> QED
  BY <1>1, <1>3, <1>4 DEF NamesInv

LEMMA StartKeeps == NamesInv /\ NameEntry => KeysGranted' /\ CallInv' /\ GrantedInv'
<1> SUFFICES ASSUME NamesInv, NameEntry
             PROVE  KeysGranted' /\ CallInv' /\ GrantedInv'
  OBVIOUS
<1>1. KeysGranted' /\ GrantedInv'
  BY DEF NamesInv, NameEntry, StartAssign, KeysGranted, GrantedInv, KeyGranted
<1>2. /\ call'.collided = FALSE
      /\ call'.attempt = 0
      /\ call'.candidate = Normalized[call'.requested]
  BY DEF NameEntry, StartAssign
<1>3. \A p, n : Tried(p, n, FALSE, 0) = {}
  BY DEF Tried
<1>4. CallInv'
  BY <1>2, <1>3 DEF CallInv, CandidateAt
<1> QED
  BY <1>1, <1>4

LEMMA TryKeeps == NamesInv /\ TryAgain => KeysGranted' /\ CallInv' /\ GrantedInv'
<1> SUFFICES ASSUME NamesInv, TryAgain
             PROVE  KeysGranted' /\ CallInv' /\ GrantedInv'
  OBVIOUS
<1>1. KeysGranted' /\ GrantedInv'
  BY DEF NamesInv, TryAgain, TryNext, KeysGranted, GrantedInv, KeyGranted
<1>2. call \in Call
  BY DEF NamesInv, TypeInvariant, TryAgain, TryNext, NoCall
<1> DEFINE p == policy[call.resolver]
           wanted == Normalized[call.requested]
           attempt == (call.attempt + 1) % Word
<1>3. /\ call' = [call EXCEPT !.collided = TRUE, !.attempt = attempt,
                              !.candidate = Candidate(p, wanted, attempt)]
      /\ Key(call.resolver, call.candidate) \in keys[call.resolver]
  BY DEF TryAgain, TryNext, Taken, Key
<1>4. /\ call'.resolver = call.resolver
      /\ call'.requested = call.requested
      /\ call'.collided = TRUE
      /\ call'.attempt = attempt
      /\ call'.candidate = Candidate(p, wanted, attempt)
  BY <1>2, <1>3 DEF Call
<1>5. \A n \in Tried(p, wanted, TRUE, attempt) :
         n \in Tried(p, wanted, call.collided, call.attempt) \cup {call.candidate}
  <2>1. attempt = 0 \/ attempt = call.attempt + 1
    <3>1. call.attempt \in 0 .. Word - 1 /\ Word \in Nat \ {0}
      BY <1>2, ResolverAssumption DEF Call
    <3>2. CASE call.attempt + 1 = Word
      BY <3>1, <3>2
    <3>3. CASE call.attempt + 1 # Word
      BY <3>1, <3>3
    <3> QED
      BY <3>2, <3>3
  <2>2. call.collided \in BOOLEAN /\ call.attempt \in Nat
    BY <1>2 DEF Call
  <2>3. call.candidate = CandidateAt(p, wanted, call.collided, call.attempt)
        /\ (~call.collided => call.attempt = 0)
    BY <1>2 DEF NamesInv, CallInv, Call
  <2>4. CASE call.collided
    BY <2>1, <2>2, <2>3, <2>4 DEF Tried, CandidateAt
  <2>5. CASE ~call.collided
    BY <2>1, <2>2, <2>3, <2>5 DEF Tried, CandidateAt
  <2> QED
    BY <2>4, <2>5
<1>6. \A n \in Tried(p, wanted, TRUE, attempt) :
         Key(call.resolver, n) \in keys[call.resolver]
  BY <1>2, <1>3, <1>5 DEF NamesInv, CallInv, Call
<1>7. policy' = policy /\ keys' = keys
  BY DEF TryAgain, TryNext
<1>8. CallInv'
  BY <1>4, <1>6, <1>7 DEF CallInv, CandidateAt, Key
<1> QED
  BY <1>1, <1>8

LEMMA ReturnKeeps == NamesInv /\ EntryNamed => KeysGranted' /\ CallInv' /\ GrantedInv'
<1> SUFFICES ASSUME NamesInv, EntryNamed
             PROVE  KeysGranted' /\ CallInv' /\ GrantedInv'
  OBVIOUS
<1>1. call \in Call
  BY DEF NamesInv, TypeInvariant, EntryNamed, Return, NoCall
<1>2. PICK r0 \in Resolvers : r0 = call.resolver
  BY <1>1 DEF Call
<1> DEFINE key == Key(r0, call.candidate)
<1>3. /\ policy' = policy
      /\ ~call'.active
      /\ key \notin keys[r0]
      /\ \A r \in Resolvers \ {r0} : keys'[r] = keys[r] /\ granted'[r] = granted[r]
      /\ keys'[r0] = keys[r0] \cup {key}
      /\ granted'[r0] = Append(granted[r0], ReturnedResult)
  BY <1>2 DEF NamesInv, TypeInvariant, EntryNamed, Return, Taken, Key, NoCall
<1>4. /\ ReturnedResult.requested = call.requested
      /\ ReturnedResult.assigned = call.candidate
      /\ ReturnedResult.collided = call.collided
      /\ ReturnedResult.attempt = call.attempt
  BY DEF ReturnedResult
<1>0. PICK last : last = Len(granted[r0]) + 1
  OBVIOUS
<1>5. /\ DOMAIN granted[r0] = 1 .. last - 1
      /\ DOMAIN granted'[r0] = 1 .. last
      /\ last \in Nat \ {0}
      /\ \A i \in 1 .. last - 1 : granted'[r0][i] = granted[r0][i]
      /\ granted'[r0][last] = ReturnedResult
  <2>1. granted[r0] \in Seq(Result)
    BY <1>2 DEF NamesInv, TypeInvariant
  <2>2. ReturnedResult \in Result
    BY <1>1 DEF ReturnedResult, Result, Call
  <2> QED
    BY <1>0, <1>3, <2>1, <2>2
<1>6. KeyGranted(r0, last)' = key
  BY <1>3, <1>4, <1>5 DEF KeyGranted, Key
<1>7. \A i \in 1 .. last - 1 : KeyGranted(r0, i)' = KeyGranted(r0, i)
  BY <1>3, <1>5 DEF KeyGranted
<1>8. \A r \in Resolvers \ {r0} : \A i : KeyGranted(r, i)' = KeyGranted(r, i)
  BY <1>3 DEF KeyGranted
<1>9. KeysGranted'
  <2>1. ASSUME NEW r \in Resolvers, r # r0
        PROVE  /\ keys'[r] = {KeyGranted(r, i)' : i \in DOMAIN granted'[r]}
               /\ \A i, j \in DOMAIN granted'[r] :
                     i # j => KeyGranted(r, i)' # KeyGranted(r, j)'
    BY <2>1, <1>3, <1>8 DEF NamesInv, KeysGranted
  <2>2. keys[r0] = {KeyGranted(r0, i) : i \in 1 .. last - 1}
        /\ \A i, j \in 1 .. last - 1 : i # j => KeyGranted(r0, i) # KeyGranted(r0, j)
    BY <1>2, <1>5 DEF NamesInv, KeysGranted
  <2>3. keys'[r0] = {KeyGranted(r0, i)' : i \in DOMAIN granted'[r0]}
    BY <2>2, <1>3, <1>5, <1>6, <1>7
  <2>4. \A i, j \in DOMAIN granted'[r0] : i # j => KeyGranted(r0, i)' # KeyGranted(r0, j)'
    <3>1. \A i \in 1 .. last - 1 : KeyGranted(r0, i) # key
      BY <2>2, <1>3
    <3> QED
      BY <2>2, <3>1, <1>5, <1>6, <1>7
  <2> QED
    BY <2>1, <2>3, <2>4 DEF KeysGranted
<1>10. CallInv'
  BY <1>3 DEF CallInv
<1> DEFINE p == policy[r0]
<1>11. ASSUME NEW i \in 1 .. last
       PROVE  FirstOf(p, granted'[r0], i)
  <2>1. \A j \in 1 .. last - 1 : KeyOf(p, granted'[r0], j) = KeyOf(p, granted[r0], j)
    BY <1>5 DEF KeyOf
  <2>2. CASE i \in 1 .. last - 1
    <3>1. FirstOf(p, granted[r0], i) /\ granted'[r0][i] = granted[r0][i]
      BY <2>2, <1>2, <1>5 DEF NamesInv, GrantedInv
    <3>2. \A j \in 1 .. i - 1 : j \in 1 .. last - 1
      BY <2>2, <1>5
    <3> QED
      BY <2>1, <3>1, <3>2 DEF FirstOf
  <2>3. CASE i = last
    <3>1. keys[r0] = {KeyOf(p, granted[r0], j) : j \in 1 .. last - 1}
      BY <1>2, <1>5 DEF NamesInv, KeysGranted, KeyGranted, KeyOf
    <3>2. call.active
      BY DEF EntryNamed, Return
    <3> QED
      BY <2>1, <2>3, <3>1, <3>2, <1>2, <1>4, <1>5 DEF NamesInv, CallInv, FirstOf, Key
  <2> QED
    BY <2>2, <2>3, <1>5
<1>12. GrantedInv'
  BY <1>2, <1>3, <1>5, <1>11 DEF NamesInv, GrantedInv
<1> QED
  BY <1>9, <1>10, <1>12

LEMMA NamesStep == NamesInv /\ [Next]_vars => NamesInv'
<1> SUFFICES ASSUME NamesInv, [Next]_vars
             PROVE  NamesInv'
  OBVIOUS
<1>1. TypeInvariant' /\ Asking'
  BY TypeStep DEF NamesInv
<1>2. KeysGranted' /\ CallInv' /\ GrantedInv'
  <2>1. CASE NameEntry
    BY <2>1, StartKeeps
  <2>2. CASE TryAgain
    BY <2>2, TryKeeps
  <2>3. CASE EntryNamed
    BY <2>3, ReturnKeeps
  <2>4. CASE UNCHANGED resolverVars
    BY <2>4 DEF resolverVars, NamesInv, KeysGranted, CallInv, GrantedInv, KeyGranted,
                Key
  <2> QED
    BY <2>1, <2>2, <2>3, <2>4 DEF Next, Done, CheckDuplicate, NextLoop, vars
<1> QED
  BY <1>1, <1>2 DEF NamesInv

LEMMA NamesAlways == Spec => []NamesInv
  BY InitNames, NamesStep, PTL DEF Spec

\* No two entries are given names with the same key, whatever the strategy, and
\* even if the counter of attempts comes round.
THEOREM DistinctTheorem == Spec => []NamesDistinct
<1>1. NamesInv => NamesDistinct
  BY DEF NamesInv, KeysGranted, NamesDistinct
<1> QED
  BY <1>1, NamesAlways, PTL

\* A name given is the first of its candidates that was free.
THEOREM FirstFreeTheorem == Spec => []FirstFree
<1>1. NamesInv => FirstFree
  BY DEF NamesInv, GrantedInv, FirstOf, FirstFree, CandidateAt, Tried, KeyOf, KeyGranted
<1> QED
  BY <1>1, NamesAlways, PTL

-----------------------------------------------------------------------------
(* What the four loops make of the same entries.                           *)

EntryKey(i) == CanonicalKey(NormalizedName(i))

\* How many entries validateDuplicates has compared.
Compared ==
    IF pc = "inspect" THEN 0
    ELSE IF pc = "duplicates" THEN next - 1 ELSE Len(archive.names)

SeenInv ==
    /\ seen = {EntryKey(i) : i \in 1 .. Compared}
    /\ duplicates = {i \in 1 .. Compared : \E j \in 1 .. i - 1 : EntryKey(j) = EntryKey(i)}
    /\ IsFiniteSet(seen) /\ IsFiniteSet(duplicates)
    /\ Cardinality(seen) + Cardinality(duplicates) = Compared

\* How many entries buildExtractionPlan has named.
PlanNamed ==
    IF pc = "plan" THEN next - 1 ELSE IF pc = "done" THEN Len(archive.names) ELSE 0

PlanInv ==
    /\ DOMAIN granted[Plan] = 1 .. PlanNamed
    /\ \A i \in 1 .. PlanNamed : granted[Plan][i].requested = archive.names[i]

AskedInv ==
    call.active => call.resolver = ResolverOf(next) /\ call.requested = archive.names[next]

PolicyInv == \A r \in Resolvers \ {Plan} : policy[r] = DefaultPolicy

\* What a resolver was asked for is the name of an entry, and while it may be
\* asked again, that of one the loop has passed.
RequestsInv ==
    \A r \in Resolvers : \A k \in DOMAIN granted[r] : \E i \in Entries :
       /\ granted[r][k].requested = archive.names[i]
       /\ pc = "inspect" \/ (pc = "plan" /\ r = Plan) => i < next

HasDuplicate == \E i, j \in Entries : j < i /\ EntryKey(j) = EntryKey(i)

\* A resolver that ignores case renames an entry only if two have one key.
RenamedInv ==
    \A r \in Resolvers :
       policy[r].lowercase /\ (\E k \in DOMAIN granted[r] : granted[r][k].collided)
         => HasDuplicate

ChecksInv == SeenInv /\ PlanInv /\ AskedInv /\ PolicyInv /\ RequestsInv /\ RenamedInv

LEMMA InitChecks == Init => ChecksInv
<1> SUFFICES ASSUME Init
             PROVE  ChecksInv
  OBVIOUS
<1>1. \A r \in Resolvers : granted[r] = <<>>
  BY DEF Init, ResolverInit
<1>2. Compared = 0 /\ seen = {} /\ duplicates = {}
  BY DEF Init, Compared
<1>3. SeenInv
  <2>1. IsFiniteSet({}) /\ Cardinality({}) = 0
    BY FS_EmptySet
  <2> QED
    BY <1>2, <2>1 DEF SeenInv
<1>4. PlanInv
  <2>1. PlanNamed = 0
    BY DEF Init, PlanNamed
  <2> QED
    BY <1>1, <2>1, NamesAssumption DEF PlanInv
<1>5. AskedInv
  BY DEF Init, ResolverInit, NoCall, AskedInv
<1>6. PolicyInv
  BY DEF Init, PolicyInv
<1>7. RequestsInv /\ RenamedInv
  BY <1>1 DEF RequestsInv, RenamedInv
<1> QED
  BY <1>3, <1>4, <1>5, <1>6, <1>7 DEF ChecksInv

\* The steps that grant no name and compare none.
LEMMA AskKeeps ==
    ASSUME NamesInv, ChecksInv, NameEntry \/ TryAgain
    PROVE  ChecksInv'
<1>1. /\ archive' = archive /\ pc' = pc /\ next' = next /\ seen' = seen
      /\ duplicates' = duplicates /\ granted' = granted /\ policy' = policy
  BY DEF NameEntry, StartAssign, TryAgain, TryNext
<1>2. SeenInv' /\ PlanInv' /\ PolicyInv'
  BY <1>1 DEF ChecksInv, SeenInv, PlanInv, PolicyInv, Compared, PlanNamed, EntryKey,
              NormalizedName
<1>3. RequestsInv' /\ RenamedInv'
  BY <1>1 DEF ChecksInv, RequestsInv, RenamedInv, HasDuplicate, EntryKey, NormalizedName,
              Entries
<1>4. AskedInv'
  <2>1. CASE NameEntry
    BY <1>1, <2>1 DEF NameEntry, StartAssign, AskedInv, ResolverOf
  <2>2. CASE TryAgain
    <3>1. call \in Call /\ call.active
      BY <2>2 DEF NamesInv, TypeInvariant, TryAgain, TryNext, NoCall
    <3>2. call'.resolver = call.resolver /\ call'.requested = call.requested
      BY <2>2, <3>1 DEF TryAgain, TryNext, Call
    <3> QED
      BY <1>1, <3>1, <3>2 DEF ChecksInv, AskedInv, ResolverOf
  <2> QED
    BY <2>1, <2>2
<1> QED
  BY <1>2, <1>3, <1>4 DEF ChecksInv

\* Where assign() marked a name, the name itself had the key of an entry before.
LEMMA RenamedHasTwin ==
    ASSUME NamesInv, ChecksInv, call.active, call.collided,
           policy[call.resolver].lowercase,
           \A k \in DOMAIN granted[call.resolver] : ~granted[call.resolver][k].collided
    PROVE  HasDuplicate
<1>1. call \in Call
  BY DEF NamesInv, TypeInvariant, NoCall
<1>2. PICK r \in Resolvers : r = call.resolver
  BY <1>1 DEF Call
<1>3. PICK p : p = policy[r]
  OBVIOUS
<1>4. next \in Entries /\ r = ResolverOf(next) /\ pc \in {"inspect", "plan"}
        /\ call.requested = archive.names[next]
  BY <1>2 DEF NamesInv, Asking, ChecksInv, AskedInv
<1>5. NormalizedName(next) \in Tried(p, Normalized[call.requested], call.collided, call.attempt)
  BY <1>4 DEF Tried, NormalizedName
<1>6. Key(r, NormalizedName(next)) \in keys[r]
  BY <1>2, <1>3, <1>5 DEF NamesInv, CallInv
<1>7. Key(r, NormalizedName(next)) = EntryKey(next)
  BY <1>2 DEF Key, CollisionKey, EntryKey
<1>8. PICK k \in DOMAIN granted[r] : KeyGranted(r, k) = EntryKey(next)
  BY <1>6, <1>7 DEF NamesInv, KeysGranted
<1>9. granted[r][k].assigned = Normalized[granted[r][k].requested]
  BY <1>2, <1>8 DEF NamesInv, GrantedInv, FirstOf, CandidateAt
<1>10. PICK i \in Entries :
          /\ granted[r][k].requested = archive.names[i]
          /\ pc = "inspect" \/ (pc = "plan" /\ r = Plan) => i < next
  BY <1>8 DEF ChecksInv, RequestsInv
<1>11. i < next
  BY <1>4, <1>10 DEF ResolverOf
<1>12. KeyGranted(r, k) = EntryKey(i)
  BY <1>2, <1>9, <1>10 DEF KeyGranted, CollisionKey, EntryKey, NormalizedName
<1> QED
  BY <1>4, <1>8, <1>11, <1>12 DEF HasDuplicate

LEMMA NamedKeeps ==
    ASSUME NamesInv, ChecksInv, EntryNamed
    PROVE  ChecksInv'
<1>1. call \in Call /\ call.active
  BY DEF NamesInv, TypeInvariant, EntryNamed, Return, NoCall
<1>2. PICK r0 \in Resolvers : r0 = call.resolver
  BY <1>1 DEF Call
<1>3. /\ archive' = archive /\ pc' = pc /\ next' = next + 1 /\ seen' = seen
      /\ duplicates' = duplicates /\ policy' = policy /\ ~call'.active
      /\ \A r \in Resolvers \ {r0} : granted'[r] = granted[r]
      /\ granted'[r0] = Append(granted[r0], ReturnedResult)
  BY <1>2 DEF NamesInv, TypeInvariant, EntryNamed, Return, NoCall
<1>4. /\ pc \in {"inspect", "plan"} /\ next \in Entries /\ next \in Nat
      /\ r0 = ResolverOf(next) /\ call.requested = archive.names[next]
  BY <1>1, <1>2, ArchiveType
     DEF NamesInv, Asking, ChecksInv, AskedInv, TypeInvariant, Entries
<1>5. PICK last : last = Len(granted[r0]) + 1
  OBVIOUS
<1>6. /\ DOMAIN granted[r0] = 1 .. last - 1
      /\ DOMAIN granted'[r0] = 1 .. last
      /\ last \in Nat \ {0}
      /\ \A i \in 1 .. last - 1 : granted'[r0][i] = granted[r0][i]
      /\ granted'[r0][last] = ReturnedResult
  <2>1. granted[r0] \in Seq(Result)
    BY <1>2 DEF NamesInv, TypeInvariant
  <2>2. ReturnedResult \in Result
    BY <1>1 DEF ReturnedResult, Result, Call
  <2> QED
    BY <1>3, <1>5, <2>1, <2>2
<1>7. ReturnedResult.requested = archive.names[next]
        /\ ReturnedResult.collided = call.collided
  BY <1>4 DEF ReturnedResult
<1>8. SeenInv'
  BY <1>3, <1>4 DEF ChecksInv, SeenInv, Compared, EntryKey, NormalizedName
<1>9. PlanInv'
  <2>1. CASE pc = "inspect"
    <3>1. r0 # Plan
      BY <1>4, <2>1 DEF ResolverOf, Inspection, Plan
    <3>2. PlanNamed = 0 /\ PlanNamed' = 0 /\ granted'[Plan] = granted[Plan]
      BY <1>3, <2>1, <3>1, NamesAssumption DEF PlanNamed
    <3> QED
      BY <1>3, <3>2 DEF ChecksInv, PlanInv
  <2>2. CASE pc = "plan"
    <3>1. r0 = Plan
      BY <1>4, <2>2 DEF ResolverOf
    <3>2. PlanNamed = next - 1 /\ PlanNamed' = next
      BY <1>3, <1>4, <2>2 DEF PlanNamed
    <3>3. 1 .. last - 1 = 1 .. next - 1
      BY <1>6, <3>1, <3>2 DEF ChecksInv, PlanInv
    <3>4. last = next
      <4>1. CASE last < next
        <5>1. last \in 1 .. next - 1 /\ last \notin 1 .. last - 1
          BY <1>4, <1>6, <4>1
        <5> QED
          BY <3>3, <5>1
      <4>2. CASE next < last
        <5>1. next # 0
          BY <1>4, ArchiveType DEF NamesInv, TypeInvariant, Entries
        <5>2. next \in 1 .. last - 1 /\ next \notin 1 .. next - 1
          BY <1>4, <1>6, <4>2, <5>1
        <5> QED
          BY <3>3, <5>2
      <4> QED
        BY <1>4, <1>6, <4>1, <4>2
    <3>5. \A i \in 1 .. last - 1 : granted[Plan][i].requested = archive.names[i]
      BY <3>2, <3>4 DEF ChecksInv, PlanInv
    <3>6. ASSUME NEW i \in 1 .. last
          PROVE  granted'[Plan][i].requested = archive.names[i]
      <4>1. CASE i = last
        BY <1>6, <1>7, <3>1, <3>4, <4>1
      <4>2. CASE i # last
        BY <1>6, <3>1, <3>5, <4>2
      <4> QED
        BY <4>1, <4>2
    <3> QED
      BY <1>3, <1>6, <3>1, <3>2, <3>4, <3>6 DEF PlanInv
  <2> QED
    BY <1>4, <2>1, <2>2
<1>10. AskedInv' /\ PolicyInv'
  BY <1>3 DEF ChecksInv, AskedInv, PolicyInv
<1>11. RequestsInv'
  <2>1. ASSUME NEW r \in Resolvers, NEW k \in DOMAIN granted[r]
        PROVE  \E i \in Entries :
                 /\ granted[r][k].requested = archive.names[i]
                 /\ pc = "inspect" \/ (pc = "plan" /\ r = Plan) => i < next + 1
    <3>1. PICK i \in Entries :
             /\ granted[r][k].requested = archive.names[i]
             /\ pc = "inspect" \/ (pc = "plan" /\ r = Plan) => i < next
      BY DEF ChecksInv, RequestsInv
    <3>2. i \in Nat
      BY ArchiveType DEF NamesInv, TypeInvariant, Entries
    <3> QED
      BY <1>4, <3>1, <3>2
  <2>2. ASSUME NEW r \in Resolvers, NEW k \in DOMAIN granted'[r]
        PROVE  \E i \in Entries :
                 /\ granted'[r][k].requested = archive.names[i]
                 /\ pc = "inspect" \/ (pc = "plan" /\ r = Plan) => i < next + 1
    <3>1. CASE r # r0 \/ k # last
      <4>1. k \in DOMAIN granted[r] /\ granted'[r][k] = granted[r][k]
        BY <1>3, <1>6, <2>2, <3>1
      <4> QED
        BY <2>1, <4>1
    <3>2. CASE r = r0 /\ k = last
      BY <1>4, <1>6, <1>7, <3>2
    <3> QED
      BY <3>1, <3>2
  <2> QED
    BY <1>3, <2>2 DEF RequestsInv, Entries
<1>12. RenamedInv'
  <2>1. HasDuplicate' <=> HasDuplicate
    BY <1>3 DEF HasDuplicate, Entries, EntryKey, NormalizedName
  <2>2. ASSUME NEW r \in Resolvers, policy[r].lowercase,
               NEW k \in DOMAIN granted'[r], granted'[r][k].collided
        PROVE  HasDuplicate
    <3>1. CASE \E l \in DOMAIN granted[r] : granted[r][l].collided
      BY <2>2, <3>1 DEF ChecksInv, RenamedInv
    <3>2. CASE \A l \in DOMAIN granted[r] : ~granted[r][l].collided
      <4>1. r = r0 /\ k = last
        BY <1>3, <1>6, <2>2, <3>2, SMTT(60)
      <4>2. call.collided
        BY <1>6, <1>7, <2>2, <4>1
      <4> QED
        BY <1>1, <1>2, <2>2, <3>2, <4>1, <4>2, RenamedHasTwin
    <3> QED
      BY <3>1, <3>2
  <2> QED
    BY <1>3, <2>1, <2>2 DEF RenamedInv
<1> QED
  BY <1>8, <1>9, <1>10, <1>11, <1>12 DEF ChecksInv

LEMMA CheckKeeps ==
    ASSUME NamesInv, ChecksInv, CheckDuplicate
    PROVE  ChecksInv'
<1>1. /\ archive' = archive /\ pc' = pc /\ pc = "duplicates" /\ next' = next + 1
      /\ granted' = granted /\ policy' = policy /\ call' = call
      /\ next \in Entries /\ CompareKeys(next)
  BY DEF CheckDuplicate, resolverVars
<1>2. PICK n : n = next
  OBVIOUS
<1>3. n \in Nat \ {0} /\ Compared = n - 1 /\ Compared' = n
  BY <1>1, <1>2, ArchiveType DEF NamesInv, TypeInvariant, Entries, Compared
<1>4. \A i : EntryKey(i)' = EntryKey(i)
  BY <1>1 DEF EntryKey, NormalizedName
<1>5. /\ seen = {EntryKey(i) : i \in 1 .. n - 1}
      /\ duplicates = {i \in 1 .. n - 1 : \E j \in 1 .. i - 1 : EntryKey(j) = EntryKey(i)}
      /\ IsFiniteSet(seen) /\ IsFiniteSet(duplicates)
      /\ Cardinality(seen) + Cardinality(duplicates) = n - 1
  BY <1>3 DEF ChecksInv, SeenInv
<1>6. 1 .. n = 1 .. n - 1 \cup {n} /\ n \notin 1 .. n - 1
  BY <1>3
<1>7. seen' = seen \cup {EntryKey(n)}
        /\ duplicates' = IF EntryKey(n) \in seen THEN duplicates \cup {n} ELSE duplicates
  BY <1>1, <1>2 DEF CompareKeys, EntryKey
<1>8. seen' = {EntryKey(i) : i \in 1 .. n}
  BY <1>5, <1>6, <1>7
<1>9. duplicates' = {i \in 1 .. n : \E j \in 1 .. i - 1 : EntryKey(j) = EntryKey(i)}
  <2>1. EntryKey(n) \in seen <=> \E j \in 1 .. n - 1 : EntryKey(j) = EntryKey(n)
    BY <1>5
  <2> QED
    BY <1>5, <1>6, <1>7, <2>1
<1>10. n \notin duplicates
  BY <1>5, <1>6
<1>11. /\ IsFiniteSet(seen') /\ IsFiniteSet(duplicates')
       /\ Cardinality(seen') + Cardinality(duplicates') = n
  <2>1. Cardinality(seen) \in Nat /\ Cardinality(duplicates) \in Nat
    BY <1>5, FS_CardinalityType
  <2>2. /\ IsFiniteSet(seen')
        /\ Cardinality(seen') =
             IF EntryKey(n) \in seen THEN Cardinality(seen) ELSE Cardinality(seen) + 1
    BY <1>5, <1>7, FS_AddElement
  <2>3. /\ IsFiniteSet(duplicates \cup {n})
        /\ Cardinality(duplicates \cup {n}) = Cardinality(duplicates) + 1
    BY <1>5, <1>10, FS_AddElement
  <2>4. CASE EntryKey(n) \in seen
    BY <1>3, <1>5, <1>7, <2>1, <2>2, <2>3, <2>4
  <2>5. CASE EntryKey(n) \notin seen
    BY <1>3, <1>5, <1>7, <2>1, <2>2, <2>5
  <2> QED
    BY <2>4, <2>5
<1>12. SeenInv'
  BY <1>3, <1>4, <1>8, <1>9, <1>11 DEF SeenInv
<1>13. PlanInv' /\ PolicyInv'
  BY <1>1 DEF ChecksInv, PlanInv, PolicyInv, PlanNamed
<1>14. AskedInv'
  BY <1>1 DEF NamesInv, Asking, AskedInv
<1>15. RequestsInv' /\ RenamedInv'
  BY <1>1, <1>4 DEF ChecksInv, RequestsInv, RenamedInv, HasDuplicate, Entries
<1> QED
  BY <1>12, <1>13, <1>14, <1>15 DEF ChecksInv

LEMMA LoopKeeps ==
    ASSUME NamesInv, ChecksInv, NextLoop
    PROVE  ChecksInv'
<1>1. /\ archive' = archive /\ granted' = granted /\ policy' = policy /\ call' = call
      /\ seen' = seen /\ duplicates' = duplicates /\ next' = 1 /\ next \notin Entries
      /\ pc \in {"inspect", "duplicates", "plan"}
      /\ pc = "inspect" => pc' = "duplicates"
      /\ pc = "duplicates" => pc' = "plan"
      /\ pc = "plan" => pc' = "done"
  BY DEF NamesInv, TypeInvariant, NextLoop, resolverVars
<1>2. Len(archive.names) \in Nat /\ next = Len(archive.names) + 1
  BY <1>1, ArchiveType DEF NamesInv, TypeInvariant, Entries
<1>3. Compared' = Compared /\ PlanNamed' = PlanNamed
  BY <1>1, <1>2 DEF Compared, PlanNamed
<1>4. SeenInv' /\ PlanInv' /\ PolicyInv'
  BY <1>1, <1>3 DEF ChecksInv, SeenInv, PlanInv, PolicyInv, EntryKey, NormalizedName
<1>5. AskedInv'
  BY <1>1 DEF NamesInv, Asking, AskedInv
<1>6. RenamedInv'
  BY <1>1 DEF ChecksInv, RenamedInv, HasDuplicate, Entries, EntryKey, NormalizedName
<1>7. RequestsInv'
  <2>1. pc' = "plan" => DOMAIN granted[Plan] = {}
    BY <1>1 DEF ChecksInv, PlanInv, PlanNamed
  <2>2. pc' # "inspect"
    BY <1>1
  <2>3. \A r \in Resolvers : \A k \in DOMAIN granted[r] :
           \E i \in Entries : granted[r][k].requested = archive.names[i]
    BY DEF ChecksInv, RequestsInv
  <2> QED
    BY <1>1, <2>1, <2>2, <2>3 DEF RequestsInv, Entries
<1> QED
  BY <1>4, <1>5, <1>6, <1>7 DEF ChecksInv

LEMMA ChecksStep == NamesInv /\ ChecksInv /\ [Next]_vars => ChecksInv'
<1> SUFFICES ASSUME NamesInv, ChecksInv, [Next]_vars
             PROVE  ChecksInv'
  OBVIOUS
<1>1. CASE NameEntry \/ TryAgain
  BY <1>1, AskKeeps
<1>2. CASE EntryNamed
  BY <1>2, NamedKeeps
<1>3. CASE CheckDuplicate
  BY <1>3, CheckKeeps
<1>4. CASE NextLoop
  BY <1>4, LoopKeeps
<1>5. CASE UNCHANGED vars
  <2>1. SeenInv' /\ PlanInv' /\ PolicyInv' /\ AskedInv'
    BY <1>5 DEF vars, resolverVars, ChecksInv, SeenInv, PlanInv, PolicyInv, AskedInv,
                Compared, PlanNamed, EntryKey, NormalizedName, ResolverOf
  <2>2. RequestsInv' /\ RenamedInv'
    BY <1>5 DEF vars, resolverVars, ChecksInv, RequestsInv, RenamedInv, HasDuplicate,
                Entries, EntryKey, NormalizedName
  <2> QED
    BY <2>1, <2>2 DEF ChecksInv
<1> QED
  BY <1>1, <1>2, <1>3, <1>4, <1>5 DEF Next, Done

\* Inspection, verification, statistics and a plan agree on which entries collide,
\* for any archives, nested in any way, and any keys of names.
THEOREM ChecksTheorem == Spec => []ChecksAgree
<1>1. NamesInv /\ ChecksInv => ChecksAgree
  <2> SUFFICES ASSUME NamesInv, ChecksInv, pc = "done"
               PROVE  ChecksAgree
    BY DEF ChecksAgree
  <2> DEFINE renamed == {i \in Entries : granted[Plan][i].collided}
  <2>1. /\ Plan \in Resolvers /\ archive \in Archives
        /\ Len(archive.names) \in Nat /\ Entries = 1 .. Len(archive.names)
        /\ Compared = Len(archive.names)
        /\ DOMAIN granted[Plan] = Entries
        /\ \A i \in Entries : granted[Plan][i].requested = archive.names[i]
    BY ArchiveType, NamesAssumption
       DEF NamesInv, TypeInvariant, Entries, Compared, ChecksInv, PlanInv, PlanNamed
  <2>2. /\ seen = {EntryKey(i) : i \in Entries}
        /\ duplicates = {i \in Entries : \E j \in 1 .. i - 1 : EntryKey(j) = EntryKey(i)}
        /\ IsFiniteSet(seen) /\ IsFiniteSet(duplicates)
        /\ Cardinality(seen) + Cardinality(duplicates) = Len(archive.names)
    BY <2>1 DEF ChecksInv, SeenInv
  <2>3. Cardinality(duplicates) = DuplicateNormalized
    <3>1. Cardinality(seen) \in Nat /\ Cardinality(duplicates) \in Nat
      BY <2>2, FS_CardinalityType
    <3>2. seen = {CanonicalKey(NormalizedName(i)) : i \in Entries}
      BY <2>2 DEF EntryKey
    <3>3. DuplicateNormalized = Len(archive.names) - Cardinality(seen)
      BY <3>2, Zenon DEF DuplicateNormalized
    <3>4. ASSUME NEW a \in Nat, NEW b \in Nat, NEW n \in Nat, a + b = n
          PROVE  b = n - a
      BY <3>4
    <3> QED
      BY <2>1, <2>2, <3>1, <3>3, <3>4
  <2>4. HasDuplicate => duplicates # {}
    <3> SUFFICES ASSUME HasDuplicate
                 PROVE  duplicates # {}
      OBVIOUS
    <3>1. PICK i \in Entries, j \in Entries : j < i /\ EntryKey(j) = EntryKey(i)
      BY DEF HasDuplicate
    <3>2. j \in 1 .. i - 1
      BY <2>1, <3>1
    <3> QED
      BY <2>2, <3>1, <3>2
  <2>5. ASSUME policy[Plan].lowercase, NEW i \in duplicates
        PROVE  i \in renamed
    <3>1. i \in Entries /\ \E j \in 1 .. i - 1 : EntryKey(j) = EntryKey(i)
      BY <2>2, <2>5
    <3>2. PICK j \in Entries : j < i /\ EntryKey(j) = EntryKey(i)
      BY <2>1, <3>1
    <3>3. \A k \in Entries : ~granted[Plan][k].collided => KeyGranted(Plan, k) = EntryKey(k)
      <4>1. \A k \in Entries : ~granted[Plan][k].collided =>
               granted[Plan][k].assigned = NormalizedName(k)
        BY <2>1 DEF NamesInv, GrantedInv, FirstOf, CandidateAt, NormalizedName
      <4> QED
        BY <2>5, <4>1 DEF KeyGranted, CollisionKey, EntryKey
    <3>4. ASSUME granted[Plan][j].collided
          PROVE  \E l \in 1 .. j - 1 : KeyGranted(Plan, l) = EntryKey(j)
      <4>1. NormalizedName(j) \in
               Tried(policy[Plan], Normalized[granted[Plan][j].requested],
                     granted[Plan][j].collided, granted[Plan][j].attempt)
        BY <2>1, <3>4 DEF Tried, NormalizedName
      <4>2. \E l \in 1 .. j - 1 :
               KeyOf(policy[Plan], granted[Plan], l)
                 = CollisionKey(policy[Plan], NormalizedName(j))
        BY <2>1, <4>1 DEF NamesInv, GrantedInv, FirstOf
      <4> QED
        BY <2>5, <4>2 DEF KeyOf, KeyGranted, CollisionKey, EntryKey
    <3>5. \E l \in Entries : l < i /\ KeyGranted(Plan, l) = EntryKey(i)
      <4>1. CASE granted[Plan][j].collided
        <5>1. PICK l \in 1 .. j - 1 : KeyGranted(Plan, l) = EntryKey(j)
          BY <3>4, <4>1
        <5>2. l \in Entries /\ l < i
          BY <2>1, <3>1, <3>2
        <5> QED
          BY <3>2, <5>1, <5>2
      <4>2. CASE ~granted[Plan][j].collided
        BY <3>2, <3>3, <4>2
      <4> QED
        BY <4>1, <4>2
    <3>6. \A k, l \in Entries : k # l => KeyGranted(Plan, k) # KeyGranted(Plan, l)
      BY <2>1 DEF NamesInv, KeysGranted
    <3>7. PICK l \in Entries : l < i /\ KeyGranted(Plan, l) = EntryKey(i)
      BY <3>5
    <3>8. l # i
      BY <2>1, <3>1, <3>7
    <3> QED
      BY <3>1, <3>3, <3>6, <3>7, <3>8
  <2>6. policy[Plan].lowercase /\ renamed # {} => duplicates # {}
    BY <2>1, <2>4 DEF ChecksInv, RenamedInv
  <2>7. ASSUME NEW r \in Resolvers \ {Plan}, NEW i \in DOMAIN granted[r], granted[r][i].collided
        PROVE  duplicates # {}
    <3>1. policy[r].lowercase
      BY DEF ChecksInv, PolicyInv, DefaultPolicy
    <3> QED
      BY <2>4, <2>7, <3>1 DEF ChecksInv, RenamedInv
  <2> QED
    BY <2>3, <2>5, <2>6, <2>7 DEF ChecksAgree
<1> QED
  BY <1>1, InitChecks, ChecksStep, NamesAlways, PTL DEF Spec

-----------------------------------------------------------------------------
(* The sweeps over the chunks.                                             *)

Checked == DOMAIN manifest.entries \ unchecked

LEMMA ManifestType ==
    ASSUME NEW m \in Manifests
    PROVE  /\ m \in Manifest
           /\ Inspected(m)
           /\ \A i \in DOMAIN m.entries : m.entries[i] \in Chunk /\ i \in Nat
           /\ Counted(m) \subseteq DOMAIN m.entries
<1>1. m \in Manifest /\ Inspected(m)
  BY LayoutAssumption
<1>2. m.entries \in Seq(Chunk)
  BY <1>1 DEF Manifest
<1> QED
  BY <1>1, <1>2 DEF Counted

-----------------------------------------------------------------------------
(* Types of the sweeps.                                                    *)

LEMMA SegmentsType ==
    ASSUME NEW m \in Manifests
    PROVE  Segments(m) \subseteq Segment
<1>1. HeaderSize \in Nat /\ m \in Manifest
  BY LayoutAssumption
<1>2. HeaderSegment \in Segment
  BY <1>1 DEF HeaderSegment, Segment, Kinds
<1>3. IndexSegment(m) \in Segment
  BY <1>1 DEF IndexSegment, Segment, Kinds, Manifest
<1>4. ExtensionSegments(m) \subseteq Segment
  BY <1>1 DEF ExtensionSegments, Segment, Kinds, Manifest
<1>5. ChunkSegments(m) \subseteq Segment
  BY ManifestType DEF ChunkSegments, Segment, Kinds, Chunk
<1> QED
  BY <1>2, <1>3, <1>4, <1>5 DEF Segments

\* Both sweeps keep their variables in range, for every manifest.
THEOREM LayoutTypesTheorem == LayoutSpec => []LayoutTypes
<1>1. LayoutInit => LayoutTypes
  BY ManifestType DEF LayoutInit, LayoutTypes, Manifest
<1>2. LayoutTypes /\ [LayoutNext]_layoutVars => LayoutTypes'
  <2> SUFFICES ASSUME LayoutTypes, [LayoutNext]_layoutVars
               PROVE  LayoutTypes'
    OBVIOUS
  <2>1. CASE CheckEntry
    <3>1. PICK i \in unchecked :
             /\ unchecked' = unchecked \ {i}
             /\ IF i \in Counted(manifest)
                  THEN Compare(i)
                  ELSE UNCHANGED <<previous_end, overlaps, gaps>>
      BY <2>1 DEF CheckEntry
    <3>2. manifest.entries[i] \in Chunk /\ i \in DOMAIN manifest.entries
      BY ManifestType DEF LayoutTypes
    <3>3. End(manifest.entries[i]) \in Nat /\ manifest.entries[i].offset \in Nat
      BY <3>2 DEF End, Chunk
    <3>4. previous_end' \in Nat /\ gaps' \subseteq Nat \X Nat
            /\ overlaps' \subseteq DOMAIN manifest.entries
      BY <3>1, <3>2, <3>3 DEF Compare, LayoutTypes, Larger
    <3> QED
      BY <2>1, <3>1, <3>4 DEF CheckEntry, LayoutTypes
  <2>2. CASE BuildLayoutSegments
    BY <2>2, SegmentsType DEF BuildLayoutSegments, LayoutTypes
  <2>3. CASE PlaceSegment
    <3>1. PICK s \in left : left' = left \ {s} /\ Place(s)
      BY <2>3 DEF PlaceSegment
    <3>2. s \in Segment
      BY DEF LayoutTypes
    <3>3. s.offset \in Nat /\ SegmentEnd(s) \in Nat /\ cursor \in Nat
      BY <3>2 DEF Segment, SegmentEnd, LayoutTypes
    <3>4. s.offset > cursor => Unassigned("gap", cursor, s.offset) \in Segment
      BY <3>3 DEF Unassigned, Segment, Kinds
    <3>5. cursor' \in Nat /\ layout' \subseteq Segment
      BY <3>1, <3>2, <3>3, <3>4 DEF Place, Larger, LayoutTypes
    <3> QED
      BY <2>3, <3>1, <3>5 DEF PlaceSegment, LayoutTypes
  <2>4. CASE AddTrailing
    <3>1. manifest.size \in Nat /\ cursor \in Nat
      BY ManifestType DEF LayoutTypes, Manifest
    <3>2. manifest.size > cursor =>
             Unassigned("trailing", cursor, manifest.size) \in Segment
      BY <3>1 DEF Unassigned, Segment, Kinds
    <3> QED
      BY <2>4, <3>2 DEF AddTrailing, LayoutTypes
  <2>5. CASE UNCHANGED layoutVars
    BY <2>5 DEF layoutVars, LayoutTypes
  <2> QED
    BY <2>1, <2>2, <2>3, <2>4, <2>5 DEF LayoutNext, LayoutDone
<1> QED
  BY <1>1, <1>2, PTL DEF LayoutSpec

-----------------------------------------------------------------------------
(* The validator's sweep.                                                  *)

OverlapInv ==
    /\ \A i \in Counted(manifest) \cap Checked :
          End(manifest.entries[i]) <= previous_end
    /\ \/ previous_end = manifest.chunk_start
       \/ \E i \in Counted(manifest) \cap Checked :
             End(manifest.entries[i]) = previous_end
    /\ \A i \in Checked, j \in unchecked :
          manifest.entries[i].offset <= manifest.entries[j].offset
    /\ \A i, j \in Counted(manifest) \cap Checked :
          i # j /\ Share(manifest, i, j) => i \in overlaps \/ j \in overlaps
    /\ \A i \in overlaps :
          \E j \in Counted(manifest) \cap Checked : i # j /\ Share(manifest, i, j)

\* What the rule compares is enough: a chunk that starts before the furthest
\* end shares its first byte with the chunk that ends there, and one that does
\* not shares nothing with any chunk before it.
LEMMA CompareLemma ==
    ASSUME LayoutTypes, OverlapInv,
           NEW i \in unchecked, i \in Counted(manifest),
           \A j \in unchecked : manifest.entries[i].offset <= manifest.entries[j].offset
    PROVE  /\ manifest.entries[i].offset < previous_end =>
                 \E j \in Counted(manifest) \cap Checked : i # j /\ Share(manifest, i, j)
           /\ ~(manifest.entries[i].offset < previous_end) =>
                 \A j \in Counted(manifest) \cap Checked :
                    ~Share(manifest, i, j) /\ ~Share(manifest, j, i)
<1> DEFINE m == manifest
<1> DEFINE c == m.entries[i]
<1>1. m \in Manifest /\ Inspected(m) /\ Counted(m) \subseteq DOMAIN m.entries
        /\ \A k \in DOMAIN m.entries : m.entries[k] \in Chunk
  BY ManifestType DEF LayoutTypes
<1>2. \A k \in Counted(m) :
         /\ m.entries[k].offset \in Nat /\ m.entries[k].header \in Nat
         /\ m.entries[k].payload \in Nat
         /\ m.entries[k].offset >= m.chunk_start
         /\ m.entries[k].header >= 2
         /\ End(m.entries[k]) <= m.size
         /\ End(m.entries[k]) = m.entries[k].offset + m.entries[k].header + m.entries[k].payload
  BY <1>1 DEF Inspected, Chunk, Counted, End
<1>3. m.chunk_start \in Nat /\ m.size \in Nat /\ previous_end \in Nat
  BY <1>1 DEF Manifest, LayoutTypes
<1>4. ASSUME c.offset < previous_end
      PROVE  \E j \in Counted(m) \cap Checked : i # j /\ Share(m, i, j)
  <2>1. previous_end # m.chunk_start
    BY <1>2, <1>3, <1>4
  <2>2. PICK j \in Counted(m) \cap Checked : End(m.entries[j]) = previous_end
    BY <2>1 DEF OverlapInv
  <2>3. i # j /\ m.entries[j].offset <= c.offset
    BY DEF OverlapInv, Checked
  <2>4. c.offset \in 0 .. m.size - 1
    BY <1>2, <1>3, <1>4, <2>2
  <2>5. InChunk(c.offset, c) /\ InChunk(c.offset, m.entries[j])
    BY <1>2, <1>3, <1>4, <2>2, <2>3 DEF InChunk
  <2> QED
    BY <2>2, <2>3, <2>4, <2>5 DEF Share
<1>5. ASSUME ~(c.offset < previous_end), NEW j \in Counted(m) \cap Checked
      PROVE  ~Share(m, i, j) /\ ~Share(m, j, i)
  <2>1. End(m.entries[j]) <= previous_end
    BY DEF OverlapInv
  <2>2. \A b \in 0 .. m.size - 1 : ~(InChunk(b, c) /\ InChunk(b, m.entries[j]))
    BY <1>2, <1>3, <1>5, <2>1 DEF InChunk
  <2> QED
    BY <2>2 DEF Share
<1> QED
  BY <1>4, <1>5

LEMMA OverlapStep ==
    ASSUME LayoutTypes, OverlapInv, CheckEntry
    PROVE  OverlapInv'
<1> DEFINE m == manifest
<1>1. PICK i \in unchecked :
         /\ \A j \in unchecked : m.entries[i].offset <= m.entries[j].offset
         /\ unchecked' = unchecked \ {i}
         /\ IF i \in Counted(m)
              THEN Compare(i)
              ELSE UNCHANGED <<previous_end, overlaps, gaps>>
  BY DEF CheckEntry
<1>2. manifest' = m
  BY DEF CheckEntry
<1>3. Checked' = Checked \cup {i} /\ i \notin Checked
  BY <1>1, <1>2 DEF Checked, LayoutTypes
<1>4. \A k \in DOMAIN m.entries : m.entries[k].offset \in Nat
  BY ManifestType DEF LayoutTypes, Chunk
<1>5. \A k \in Checked', j \in unchecked' :
         m.entries[k].offset <= m.entries[j].offset
  BY <1>1, <1>3 DEF OverlapInv
<1>6. CASE i \notin Counted(m)
  BY <1>1, <1>2, <1>3, <1>5, <1>6 DEF OverlapInv
<1>7. CASE i \in Counted(m)
  <2>1. Compare(i)
    BY <1>1, <1>7
  <2>2. Counted(m) \cap Checked' = (Counted(m) \cap Checked) \cup {i}
    BY <1>3, <1>7
  <2>3. End(m.entries[i]) \in Nat /\ previous_end \in Nat
          /\ \A k \in Counted(m) : End(m.entries[k]) \in Nat
    BY ManifestType DEF LayoutTypes, Chunk, End, Counted
  <2>4. \A k \in Counted(m) \cap Checked' : End(m.entries[k]) <= previous_end'
    BY <2>1, <2>2, <2>3 DEF Compare, Larger, OverlapInv
  <2>5. \/ previous_end' = m.chunk_start
        \/ \E k \in Counted(m) \cap Checked' : End(m.entries[k]) = previous_end'
    BY <2>1, <2>2, <2>3 DEF Compare, Larger, OverlapInv
  <2>6. \A k, j \in Counted(m) \cap Checked' :
           k # j /\ Share(m, k, j) => k \in overlaps' \/ j \in overlaps'
    BY <1>1, <1>7, <2>1, <2>2, CompareLemma DEF Compare, OverlapInv
  <2>7. \A k \in overlaps' :
           \E j \in Counted(m) \cap Checked' : k # j /\ Share(m, k, j)
    BY <1>1, <1>7, <2>1, <2>2, CompareLemma DEF Compare, OverlapInv
  <2> QED
    BY <1>2, <1>5, <2>4, <2>5, <2>6, <2>7 DEF OverlapInv
<1> QED
  BY <1>6, <1>7

\* Verification reports overlaps exactly: every pair of overlapping chunks
\* gives an error, and every error has such a pair.
THEOREM OverlapTheorem == LayoutSpec => []OverlapExact
<1>1. LayoutInit => OverlapInv
  BY DEF LayoutInit, OverlapInv, Checked
<1>2. LayoutTypes /\ OverlapInv /\ [LayoutNext]_layoutVars => OverlapInv'
  <2> SUFFICES ASSUME LayoutTypes, OverlapInv, [LayoutNext]_layoutVars
               PROVE  OverlapInv'
    OBVIOUS
  <2>1. CASE CheckEntry
    BY <2>1, OverlapStep
  <2>2. CASE UNCHANGED <<manifest, unchecked, previous_end, overlaps>>
    BY <2>2 DEF OverlapInv, Checked
  <2> QED
    BY <2>1, <2>2 DEF LayoutNext, BuildLayoutSegments, PlaceSegment, AddTrailing, LayoutDone, layoutVars
<1>3. LayoutTypes /\ OverlapInv => OverlapExact
  BY ManifestType DEF OverlapInv, OverlapExact, Checked, LayoutTypes
<1> QED
  BY <1>1, <1>2, <1>3, LayoutTypesTheorem, PTL DEF LayoutSpec

-----------------------------------------------------------------------------
(* The sweep over the segments.                                            *)

GapsOf(segments) == {s \in segments : s.kind = "gap"}

SweepInv ==
    /\ sweep = "validate" => layout = {} /\ left = {} /\ cursor = 0
    /\ sweep # "validate" => unchecked = {}
    /\ sweep = "segments" =>
         /\ left \subseteq Segments(manifest)
         /\ layout \subseteq Segments(manifest) \cup GapsOf(layout)
         /\ \A g \in GapsOf(layout) : g.depth = 0
         /\ \A s \in layout : s.depth = 0 => SegmentEnd(s) <= cursor
         /\ \A b \in Nat : b < cursor =>
               \E s \in layout : s.depth = 0 /\ InSegment(b, s)
         /\ \A g \in GapsOf(layout), t \in left :
               t.depth = 0 => SegmentEnd(g) <= t.offset
         /\ \A g \in GapsOf(layout), s \in layout, b \in Nat :
               s.depth = 0 /\ InSegment(b, g) /\ InSegment(b, s) => s = g
    /\ sweep = "done" =>
         layout \subseteq Segments(manifest) \cup Leftover

LEMMA SegmentKinds ==
    ASSUME NEW m, NEW s \in Segments(m)
    PROVE  s.kind \notin {"gap", "trailing"}
BY DEF Segments, HeaderSegment, IndexSegment, ChunkSegments, ExtensionSegments

LEMMA PlaceStep ==
    ASSUME LayoutTypes, LayoutTypes', SweepInv, PlaceSegment
    PROVE  SweepInv'
<1> DEFINE Segs == Segments(manifest)
<1>1. PICK s \in left :
         (\A t \in left : Before(s, t)) /\ left' = left \ {s} /\ Place(s)
  BY DEF PlaceSegment
<1>2. /\ sweep = "segments" /\ sweep' = "segments" /\ manifest' = manifest
      /\ unchecked' = unchecked
  BY DEF PlaceSegment
<1>3. /\ s \in Segment /\ s \in Segs /\ left \subseteq Segment
      /\ layout \subseteq Segment /\ cursor \in Nat
      /\ s.offset \in Nat /\ s.length \in Nat
  BY <1>2 DEF LayoutTypes, SweepInv, Segment
<1>4. s.kind # "gap"
  BY <1>3, SegmentKinds
<1>5. \A t \in left : s.offset <= t.offset
  BY <1>1, <1>3 DEF Before, Segment
<1> DEFINE g == Unassigned("gap", cursor, s.offset)
<1>6. CASE s.depth # 0 \/ ~(s.offset > cursor)
  <2>1. layout' = layout \cup {s} /\ GapsOf(layout') = GapsOf(layout)
    BY <1>1, <1>4, <1>6 DEF Place, GapsOf
  <2>2. cursor' \in Nat /\ cursor <= cursor'
          /\ (s.depth = 0 => SegmentEnd(s) <= cursor' /\ s.offset <= cursor)
          /\ (cursor' # cursor => s.depth = 0 /\ cursor' = SegmentEnd(s))
    BY <1>1, <1>3, <1>6 DEF Place, Larger, SegmentEnd
  <2>3. left' \subseteq Segs /\ layout' \subseteq Segs \cup GapsOf(layout')
    BY <1>1, <1>2, <1>3, <2>1 DEF SweepInv
  <2>4. \A t \in layout' : t.depth = 0 => SegmentEnd(t) <= cursor'
    BY <1>2, <1>3, <2>1, <2>2 DEF SweepInv, SegmentEnd, Segment
  <2>5. ASSUME NEW b \in Nat, b < cursor'
        PROVE  \E t \in layout' : t.depth = 0 /\ InSegment(b, t)
    <3>1. CASE b < cursor
      BY <1>2, <2>1, <3>1 DEF SweepInv
    <3>2. CASE ~(b < cursor)
      <4>1. s.depth = 0 /\ InSegment(b, s)
        BY <1>3, <2>2, <2>5, <3>2 DEF InSegment
      <4> QED
        BY <2>1, <4>1
    <3> QED
      BY <3>1, <3>2
  <2>6. \A h \in GapsOf(layout'), t \in left' : t.depth = 0 => SegmentEnd(h) <= t.offset
    BY <1>1, <1>2, <2>1 DEF SweepInv
  <2>7. ASSUME NEW h \in GapsOf(layout'), NEW t \in layout', NEW b \in Nat,
               t.depth = 0, InSegment(b, h), InSegment(b, t)
        PROVE  t = h
    <3>1. CASE t \in layout
      BY <1>2, <2>1, <2>7, <3>1 DEF SweepInv
    <3>2. CASE t = s
      <4>1. SegmentEnd(h) <= s.offset
        BY <1>2, <2>1, <2>7, <3>2 DEF SweepInv
      <4>2. SegmentEnd(h) \in Nat
        BY <1>3, <2>1 DEF GapsOf, SegmentEnd, Segment
      <4> QED
        BY <1>3, <2>7, <3>2, <4>1, <4>2 DEF InSegment
    <3> QED
      BY <2>1, <3>1, <3>2
  <2>8. \A h \in GapsOf(layout') : h.depth = 0
    BY <1>2, <2>1 DEF SweepInv
  <2> QED
    BY <1>2, <2>3, <2>4, <2>5, <2>6, <2>7, <2>8 DEF SweepInv
<1>7. CASE s.depth = 0 /\ s.offset > cursor
  <2>1. layout' = layout \cup {s, g}
    BY <1>1, <1>7 DEF Place
  <2>2. /\ g.kind = "gap" /\ g.depth = 0 /\ g.offset = cursor
        /\ SegmentEnd(g) = s.offset
    BY <1>3, <1>7 DEF Unassigned, SegmentEnd
  <2>3. GapsOf(layout') = GapsOf(layout) \cup {g}
    BY <1>4, <2>1, <2>2 DEF GapsOf
  <2>4. SegmentEnd(s) \in Nat /\ s.offset <= SegmentEnd(s)
    BY <1>3 DEF SegmentEnd
  <2>5. cursor' = SegmentEnd(s)
    BY <1>1, <1>3, <1>7, <2>4 DEF Place, Larger
  <2>6. left' \subseteq Segs /\ layout' \subseteq Segs \cup GapsOf(layout')
    BY <1>1, <1>2, <1>3, <2>1, <2>3 DEF SweepInv
  <2>7. \A t \in layout' : t.depth = 0 => SegmentEnd(t) <= cursor'
    <3>1. \A t \in layout : SegmentEnd(t) \in Nat
      BY <1>3 DEF SegmentEnd, Segment
    <3>2. \A t \in layout : t.depth = 0 => SegmentEnd(t) <= cursor
      BY <1>2 DEF SweepInv
    <3> QED
      BY <1>3, <1>7, <2>1, <2>2, <2>4, <2>5, <3>1, <3>2
  <2>8. ASSUME NEW b \in Nat, b < cursor'
        PROVE  \E t \in layout' : t.depth = 0 /\ InSegment(b, t)
    <3>1. CASE b < cursor
      BY <1>2, <2>1, <3>1 DEF SweepInv
    <3>2. CASE ~(b < cursor) /\ b < s.offset
      <4>1. InSegment(b, g)
        BY <1>3, <2>2, <3>2 DEF InSegment
      <4> QED
        BY <2>1, <2>2, <4>1
    <3>3. CASE ~(b < s.offset)
      <4>1. InSegment(b, s)
        BY <1>3, <2>5, <2>8, <3>3 DEF InSegment
      <4> QED
        BY <1>7, <2>1, <4>1
    <3> QED
      BY <3>1, <3>2, <3>3
  <2>9. ASSUME NEW h \in GapsOf(layout'), NEW t \in left', t.depth = 0
        PROVE  SegmentEnd(h) <= t.offset
    BY <1>1, <1>2, <1>5, <2>2, <2>3, <2>9 DEF SweepInv
  <2>10. ASSUME NEW h \in GapsOf(layout'), NEW t \in layout', NEW b \in Nat,
                t.depth = 0, InSegment(b, h), InSegment(b, t)
         PROVE  t = h
    <3>1. h \in Segment /\ t \in Segment
      BY <2>3 DEF GapsOf, LayoutTypes
    <3>2. SegmentEnd(h) \in Nat /\ SegmentEnd(t) \in Nat /\ h.offset \in Nat /\ t.offset \in Nat
      BY <3>1 DEF SegmentEnd, Segment
    <3>3. CASE h \in GapsOf(layout) /\ t \in layout
      BY <1>2, <2>10, <3>3 DEF SweepInv
    <3>4. CASE h \in GapsOf(layout) /\ t = s
      <4>1. SegmentEnd(h) <= s.offset
        BY <1>2, <1>7, <3>4 DEF SweepInv
      <4> QED
        BY <1>3, <2>10, <3>2, <3>4, <4>1 DEF InSegment
    <3>5. CASE h \in GapsOf(layout) /\ t = g
      <4>1. h.depth = 0 => SegmentEnd(h) <= cursor
        BY <1>2, <3>5 DEF SweepInv, GapsOf
      <4>2. h.depth = 0
        BY <1>2, <3>5 DEF SweepInv
      <4> QED
        BY <1>3, <2>2, <2>10, <3>2, <3>5, <4>1, <4>2 DEF InSegment
    <3>6. CASE h = g /\ t \in layout
      <4>1. SegmentEnd(t) <= cursor
        BY <1>2, <2>10, <3>6 DEF SweepInv
      <4> QED
        BY <1>3, <2>2, <2>10, <3>2, <3>6, <4>1 DEF InSegment
    <3>7. CASE h = g /\ t = s
      BY <1>3, <2>2, <2>10, <3>2, <3>7 DEF InSegment
    <3> QED
      BY <2>1, <2>3, <3>3, <3>4, <3>5, <3>6, <3>7
  <2>11. \A h \in GapsOf(layout') : h.depth = 0
    BY <1>2, <2>2, <2>3 DEF SweepInv
  <2> QED
    BY <1>2, <2>6, <2>7, <2>8, <2>9, <2>10, <2>11 DEF SweepInv
<1> QED
  BY <1>6, <1>7

LEMMA SweepInvStep ==
    ASSUME LayoutTypes, LayoutTypes', SweepInv, [LayoutNext]_layoutVars
    PROVE  SweepInv'
<1>1. CASE CheckEntry
  BY <1>1 DEF CheckEntry, SweepInv
<1>2. CASE BuildLayoutSegments
  <2>1. /\ layout' = {} /\ cursor' = 0 /\ left' = Segments(manifest)
        /\ manifest' = manifest /\ sweep' = "segments" /\ unchecked' = {}
    BY <1>2 DEF BuildLayoutSegments, SweepInv
  <2>2. GapsOf(layout') = {}
    BY <2>1 DEF GapsOf
  <2> QED
    BY <2>1, <2>2 DEF SweepInv
<1>3. CASE PlaceSegment
  BY <1>3, PlaceStep
<1>4. CASE AddTrailing
  <2>1. \A g \in GapsOf(layout) : g \in layout' /\ g.kind = "gap"
    BY <1>4 DEF AddTrailing, GapsOf
  <2>2. manifest.size > cursor =>
           Unassigned("trailing", cursor, manifest.size).kind = "trailing"
    BY DEF Unassigned
  <2>3. layout' \subseteq Segments(manifest) \cup Leftover'
    BY <1>4, <2>1, <2>2 DEF AddTrailing, SweepInv, Leftover
  <2> QED
    BY <1>4, <2>3 DEF AddTrailing, SweepInv
<1>5. CASE UNCHANGED layoutVars
  BY <1>5 DEF layoutVars, SweepInv, Leftover
<1> QED
  BY <1>1, <1>2, <1>3, <1>4, <1>5 DEF LayoutNext, LayoutDone

\* What holds before the trailing bytes are added holds of them too.
LEMMA TrailingStep ==
    ASSUME LayoutTypes, LayoutTypes', SweepInv, AddTrailing
    PROVE  AccountsForFile'
<1> DEFINE size == manifest.size
<1> DEFINE t == Unassigned("trailing", cursor, size)
<1>1. size \in Nat /\ cursor \in Nat /\ manifest' = manifest /\ layout \subseteq Segment
  BY ManifestType DEF LayoutTypes, Manifest, AddTrailing
<1>2. sweep = "segments" /\ left = {}
        /\ layout' = layout \cup (IF size > cursor THEN {t} ELSE {})
  BY DEF AddTrailing
<1>3. t.kind = "trailing" /\ t.depth = 0 /\ t.offset = cursor
        /\ (size > cursor => SegmentEnd(t) = size)
  BY <1>1 DEF Unassigned, SegmentEnd
<1>4. \A s \in layout : s.kind # "trailing"
  BY <1>2, SegmentKinds DEF SweepInv, GapsOf
<1>5. ASSUME NEW b \in 0 .. size - 1
      PROVE  \E s \in layout' : s.depth = 0 /\ InSegment(b, s)
  <2>1. b \in Nat
    BY <1>1
  <2>2. CASE b < cursor
    BY <1>2, <2>1, <2>2 DEF SweepInv
  <2>3. CASE ~(b < cursor)
    <3>1. size > cursor /\ InSegment(b, t)
      BY <1>1, <1>3, <2>1, <2>3 DEF InSegment
    <3> QED
      BY <1>2, <1>3, <3>1
  <2> QED
    BY <2>2, <2>3
<1>6. ASSUME NEW g \in layout', g.kind \in {"gap", "trailing"},
             NEW s \in layout', s.depth = 0,
             NEW b \in 0 .. size - 1, InSegment(b, g), InSegment(b, s)
      PROVE  s = g
  <2>1. b \in Nat
    BY <1>1
  <2>2. CASE g \in layout /\ s \in layout
    <3>1. g \in GapsOf(layout)
      BY <1>4, <1>6, <2>2 DEF GapsOf
    <3> QED
      BY <1>2, <1>6, <2>1, <2>2, <3>1 DEF SweepInv
  <2>3. ASSUME NEW u \in layout, u.depth = 0
        PROVE  ~(InSegment(b, u) /\ InSegment(b, t))
    <3>1. SegmentEnd(u) <= cursor /\ SegmentEnd(u) \in Nat
      BY <1>1, <1>2, <2>3 DEF SweepInv, SegmentEnd, Segment
    <3> QED
      BY <1>1, <1>3, <2>1, <3>1 DEF InSegment
  <2>4. CASE g = t /\ s \in layout
    BY <1>6, <2>3, <2>4
  <2>5. CASE g \in layout /\ s = t
    <3>1. g \in GapsOf(layout)
      BY <1>4, <1>6, <2>5 DEF GapsOf
    <3>2. g.depth = 0
      BY <1>2, <3>1 DEF SweepInv
    <3> QED
      BY <1>6, <2>3, <2>5, <3>2
  <2> QED
    BY <1>2, <2>2, <2>4, <2>5
<1> QED
  BY <1>1, <1>5, <1>6 DEF AccountsForFile, Own, Leftover

\* The segments account for every byte of the file, whatever the chunks, and
\* what is called a gap or trailing bytes is claimed by nothing else.
THEOREM AccountsTheorem == LayoutSpec => []AccountsForFile
<1>1. LayoutInit => SweepInv /\ AccountsForFile
  BY DEF LayoutInit, SweepInv, AccountsForFile
<1>2. LayoutTypes /\ LayoutTypes' /\ SweepInv /\ AccountsForFile /\ [LayoutNext]_layoutVars
        => SweepInv' /\ AccountsForFile'
  <2> SUFFICES ASSUME LayoutTypes, LayoutTypes', SweepInv, AccountsForFile,
                      [LayoutNext]_layoutVars
               PROVE  AccountsForFile'
    BY SweepInvStep
  <2>1. CASE AddTrailing
    BY <2>1, TrailingStep
  <2>2. CASE UNCHANGED layoutVars
    BY <2>2 DEF layoutVars, AccountsForFile, Own, Leftover
  <2>3. CASE sweep' # "done"
    BY <2>3 DEF AccountsForFile
  <2> QED
    BY <2>1, <2>2, <2>3
       DEF LayoutNext, CheckEntry, BuildLayoutSegments, PlaceSegment, LayoutDone
<1> QED
  BY <1>1, <1>2, LayoutTypesTheorem, PTL DEF LayoutSpec

-----------------------------------------------------------------------------
(* The partition.                                                          *)

\* Where the segments of the archive itself can be: one after the other the
\* header, the index, the chunks and the extension.
LEMMA SegmentZones ==
    ASSUME NEW m \in Manifests, NEW s \in Segments(m), s.depth = 0,
           NEW b \in 0 .. m.size - 1, InSegment(b, s)
    PROVE  \/ s = HeaderSegment /\ b < HeaderSize
           \/ s = IndexSegment(m) /\ HeaderSize <= b /\ b < m.chunk_start
           \/ /\ \E i \in Counted(m) :
                    /\ s.entry = i
                    /\ InChunk(b, m.entries[i])
                    /\ s.kind = "chunk_header" =>
                          /\ s = [kind |-> "chunk_header", offset |-> m.entries[i].offset,
                                  length |-> m.entries[i].header, depth |-> 0, entry |-> i]
                          /\ b < m.entries[i].offset + m.entries[i].header
                    /\ s.kind # "chunk_header" =>
                          /\ s = [kind |-> "chunk_payload",
                                  offset |-> m.entries[i].offset + m.entries[i].header,
                                  length |-> m.entries[i].payload, depth |-> 0, entry |-> i]
                          /\ b >= m.entries[i].offset + m.entries[i].header
              /\ m.chunk_start # 0
              /\ HeaderSize <= m.chunk_start
              /\ m.chunk_start <= b
              /\ m.extension_size # 0 => b < m.extension_offset
           \/ /\ m.extension_size # 0 /\ ExtensionSegments(m) = {s}
              /\ m.chunk_start # 0
              /\ HeaderSize <= m.chunk_start
              /\ m.chunk_start <= b
              /\ m.extension_offset <= b
<1>1. HeaderSize \in Nat /\ m \in Manifest /\ Inspected(m)
  BY LayoutAssumption
<1>2. /\ m.size \in Nat /\ m.chunk_start \in Nat /\ m.extension_offset \in Nat
      /\ m.extension_size \in Nat /\ b \in Nat
  BY <1>1 DEF Manifest
<1>3. CASE s = HeaderSegment
  BY <1>1, <1>2, <1>3 DEF HeaderSegment, InSegment, SegmentEnd
<1>4. CASE s = IndexSegment(m)
  BY <1>1, <1>2, <1>4 DEF IndexSegment, InSegment, SegmentEnd
<1>5. CASE s \in ChunkSegments(m)
  <2>1. PICK i \in DOMAIN m.entries :
          /\ m.entries[i].readable
          /\ \/ s = [kind |-> "chunk_header", offset |-> m.entries[i].offset,
                     length |-> m.entries[i].header, depth |-> m.entries[i].depth,
                     entry |-> i]
             \/ s = [kind |-> "chunk_payload",
                     offset |-> m.entries[i].offset + m.entries[i].header,
                     length |-> m.entries[i].payload, depth |-> m.entries[i].depth,
                     entry |-> i]
    BY <1>5 DEF ChunkSegments
  <2> DEFINE c == m.entries[i]
  <2>2. c \in Chunk /\ i \in Counted(m)
    BY <2>1, ManifestType DEF Counted
  <2>3. /\ c.offset \in Nat /\ c.header \in Nat /\ c.payload \in Nat
        /\ c.depth = 0
        /\ End(c) = c.offset + c.header + c.payload
    BY <2>1, <2>2 DEF Chunk, End
  <2>4. m.entries # <<>>
    BY <2>1
  <2>5. /\ m.chunk_start # 0 /\ m.chunk_start >= HeaderSize
        /\ c.offset >= m.chunk_start
        /\ (m.extension_size # 0 => End(c) <= m.extension_offset)
    BY <1>1, <2>2, <2>4 DEF Inspected
  <2>6. InChunk(b, c)
    BY <1>2, <2>1, <2>3 DEF InChunk, InSegment, SegmentEnd
  <2>7. /\ m.chunk_start <= b
        /\ (m.extension_size # 0 => b < m.extension_offset)
    BY <1>2, <2>3, <2>5, <2>6 DEF InChunk
  <2>8. CASE s.kind = "chunk_header"
    <3>1. /\ s = [kind |-> "chunk_header", offset |-> c.offset,
                  length |-> c.header, depth |-> 0, entry |-> i]
          /\ s.entry = i
          /\ b < c.offset + c.header
      BY <1>2, <2>1, <2>3, <2>8 DEF InSegment, SegmentEnd
    <3> QED
      BY <2>2, <2>5, <2>6, <2>7, <2>8, <3>1
  <2>9. CASE s.kind # "chunk_header"
    <3>1. /\ s = [kind |-> "chunk_payload", offset |-> c.offset + c.header,
                  length |-> c.payload, depth |-> 0, entry |-> i]
          /\ s.entry = i
          /\ b >= c.offset + c.header
      BY <1>2, <2>1, <2>3, <2>9 DEF InSegment, SegmentEnd
    <3> QED
      BY <2>2, <2>5, <2>6, <2>7, <2>9, <3>1
  <2> QED
    BY <2>8, <2>9
<1>6. CASE s \in ExtensionSegments(m)
  <2>1. m.extension_size # 0 /\ s.offset = m.extension_offset
          /\ ExtensionSegments(m) = {s}
    BY <1>6 DEF ExtensionSegments
  <2>2. /\ m.chunk_start # 0 /\ m.chunk_start >= HeaderSize
        /\ m.extension_offset >= m.chunk_start
    BY <1>1, <2>1 DEF Inspected
  <2> QED
    BY <1>2, <2>1, <2>2 DEF InSegment
<1> QED
  BY <1>3, <1>4, <1>5, <1>6 DEF Segments

LEMMA SegmentsDisjoint ==
    ASSUME NEW m \in Manifests,
           \A i, j \in Counted(m) : i # j => ~Share(m, i, j),
           NEW s \in Segments(m), s.depth = 0,
           NEW t \in Segments(m), t.depth = 0,
           NEW b \in 0 .. m.size - 1, InSegment(b, s), InSegment(b, t)
    PROVE  s = t
<1>1. HeaderSize \in Nat /\ m.chunk_start \in Nat /\ m.extension_offset \in Nat
        /\ m.size \in Nat /\ b \in Nat
  BY LayoutAssumption DEF Manifest
<1>2. \A i, j \in Counted(m) :
         InChunk(b, m.entries[i]) /\ InChunk(b, m.entries[j]) => i = j
  BY DEF Share
<1>3. \A i \in Counted(m) : m.entries[i].offset + m.entries[i].header \in Nat
  BY ManifestType DEF Chunk
<1>4. CASE s = HeaderSegment /\ b < HeaderSize
  BY <1>1, <1>4, SegmentZones
<1>5. CASE s = IndexSegment(m) /\ HeaderSize <= b /\ b < m.chunk_start
  BY <1>1, <1>5, SegmentZones
<1>6. CASE m.extension_size # 0 /\ ExtensionSegments(m) = {s}
             /\ HeaderSize <= m.chunk_start /\ m.chunk_start <= b
             /\ m.extension_offset <= b
  BY <1>1, <1>6, SegmentZones
<1>7. CASE t = HeaderSegment /\ b < HeaderSize
  BY <1>1, <1>7, SegmentZones
<1>8. CASE t = IndexSegment(m) /\ HeaderSize <= b /\ b < m.chunk_start
  BY <1>1, <1>8, SegmentZones
<1>9. CASE m.extension_size # 0 /\ ExtensionSegments(m) = {t}
             /\ HeaderSize <= m.chunk_start /\ m.chunk_start <= b
             /\ m.extension_offset <= b
  BY <1>1, <1>9, SegmentZones
<1> DEFINE Piece(i, u) ==
      /\ InChunk(b, m.entries[i])
      /\ u.kind = "chunk_header" =>
            /\ u = [kind |-> "chunk_header", offset |-> m.entries[i].offset,
                    length |-> m.entries[i].header, depth |-> 0, entry |-> i]
            /\ b < m.entries[i].offset + m.entries[i].header
      /\ u.kind # "chunk_header" =>
            /\ u = [kind |-> "chunk_payload",
                    offset |-> m.entries[i].offset + m.entries[i].header,
                    length |-> m.entries[i].payload, depth |-> 0, entry |-> i]
            /\ b >= m.entries[i].offset + m.entries[i].header
<1>10. CASE (\E i \in Counted(m) : Piece(i, s)) /\ (\E j \in Counted(m) : Piece(j, t))
  <2>1. PICK i \in Counted(m) : Piece(i, s)
    BY <1>10
  <2>2. PICK j \in Counted(m) : Piece(j, t)
    BY <1>10
  <2>3. i = j
    BY <1>2, <2>1, <2>2
  <2>4. s.kind = "chunk_header" <=> t.kind = "chunk_header"
    BY <1>1, <1>3, <2>1, <2>2, <2>3
  <2> QED
    BY <2>1, <2>2, <2>3, <2>4
<1> QED
  BY <1>4, <1>5, <1>6, <1>7, <1>8, <1>9, <1>10, SegmentZones

\* Without an overlap error no byte of the file is in two segments.
THEOREM PartitionTheorem == LayoutSpec => []PartitionedUnlessOverlapping
<1>1. LayoutTypes /\ SweepInv /\ OverlapExact /\ AccountsForFile
        => PartitionedUnlessOverlapping
  <2> SUFFICES ASSUME LayoutTypes, SweepInv, OverlapExact, AccountsForFile,
                      sweep = "done", overlaps = {},
                      NEW s \in Own, NEW t \in Own, NEW b \in 0 .. manifest.size - 1,
                      InSegment(b, s), InSegment(b, t)
               PROVE  s = t
    BY DEF PartitionedUnlessOverlapping
  <2>1. CASE s \in Leftover \/ t \in Leftover
    BY <2>1 DEF AccountsForFile
  <2>2. CASE s \notin Leftover /\ t \notin Leftover
    <3>1. s \in Segments(manifest) /\ t \in Segments(manifest) /\ s.depth = 0 /\ t.depth = 0
      BY <2>2 DEF SweepInv, Own
    <3>2. \A i, j \in Counted(manifest) : i # j => ~Share(manifest, i, j)
      BY DEF SweepInv, OverlapExact
    <3> QED
      BY <3>1, <3>2, SegmentsDisjoint DEF LayoutTypes
  <2> QED
    BY <2>1, <2>2
<1>2. LayoutInit => SweepInv
  BY DEF LayoutInit, SweepInv
<1>3. LayoutTypes /\ LayoutTypes' /\ SweepInv /\ [LayoutNext]_layoutVars => SweepInv'
  BY SweepInvStep
<1> QED
  BY <1>1, <1>2, <1>3, LayoutTypesTheorem, OverlapTheorem, AccountsTheorem, PTL DEF LayoutSpec

-----------------------------------------------------------------------------
(* Gaps.  A void of some ranges is what is between the end of one and the  *)
(* beginning of another, and reached by none.  Each sweep finds the voids  *)
(* of the ranges it has come to, and those of the chunks are those of the  *)
(* segments.                                                               *)

Voids(ranges, base) ==
    {v \in Nat \X Nat :
       /\ v[1] < v[2]
       /\ \E x \in ranges : x[1] = v[2]
       /\ v[1] = base \/ \E x \in ranges : x[2] = v[1]
       /\ \A x \in ranges : x[2] <= v[1] \/ x[1] >= v[2]}

\* A range that begins no earlier than those before it adds the void in front
\* of it, if there is one, and takes away none.
LEMMA VoidStep ==
    ASSUME NEW S, S \subseteq Nat \X Nat, NEW x \in Nat \X Nat,
           NEW base \in Nat, NEW reached \in Nat,
           \A y \in S \cup {x} : base <= y[1] /\ y[1] <= y[2],
           \A y \in S : y[1] <= x[1],
           \A y \in S : y[2] <= reached,
           reached = base \/ \E y \in S : y[2] = reached
    PROVE  Voids(S \cup {x}, base) =
             Voids(S, base) \cup (IF x[1] > reached THEN {<<reached, x[1]>>} ELSE {})
<1>1. \A y \in S \cup {x} : y[1] \in Nat /\ y[2] \in Nat
  OBVIOUS
<1>2. ASSUME NEW v \in Nat \X Nat, v \in Voids(S \cup {x}, base), v \notin Voids(S, base)
      PROVE  x[1] > reached /\ v = <<reached, x[1]>>
  <2>1. v[1] \in Nat /\ v[2] \in Nat /\ v[1] < v[2] /\ v = <<v[1], v[2]>>
    BY <1>2 DEF Voids
  <2>2. \A y \in S \cup {x} : y[2] <= v[1] \/ y[1] >= v[2]
    BY <1>2 DEF Voids
  <2>3. v[2] <= x[1]
    BY <1>1, <1>2, <2>1 DEF Voids
  <2>4. v[1] = base \/ \E y \in S : y[2] = v[1]
    BY <1>1, <1>2, <2>1, <2>3 DEF Voids
  <2>5. ~ \E y \in S : y[1] = v[2]
    BY <1>2, <2>1, <2>2, <2>4 DEF Voids
  <2>6. v[2] = x[1]
    BY <1>2, <2>5 DEF Voids
  <2>7. \A y \in S : y[2] <= v[1]
    BY <1>1, <2>1, <2>2, <2>5, <2>6
  <2>8. base <= v[1]
    BY <1>1, <2>1, <2>4
  <2>9. reached = v[1]
    BY <1>1, <2>1, <2>4, <2>7, <2>8
  <2> QED
    BY <1>1, <2>1, <2>6, <2>9
<1>3. ASSUME NEW v \in Voids(S, base)
      PROVE  v \in Voids(S \cup {x}, base)
  <2>1. v[1] \in Nat /\ v[2] \in Nat
    BY DEF Voids
  <2>2. x[1] >= v[2]
    BY <1>1, <2>1 DEF Voids
  <2> QED
    BY <2>2 DEF Voids
<1>4. ASSUME x[1] > reached
      PROVE  <<reached, x[1]>> \in Voids(S \cup {x}, base)
  <2> DEFINE v == <<reached, x[1]>>
  <2>1. v \in Nat \X Nat /\ v[1] = reached /\ v[2] = x[1]
    BY <1>1
  <2> HIDE DEF v
  <2>2. v[1] < v[2] /\ \E y \in S \cup {x} : y[1] = v[2]
    BY <1>1, <1>4, <2>1
  <2>3. v[1] = base \/ \E y \in S \cup {x} : y[2] = v[1]
    BY <2>1
  <2>4. \A y \in S \cup {x} : y[2] <= v[1] \/ y[1] >= v[2]
    BY <1>1, <2>1
  <2>5. v \in Voids(S \cup {x}, base)
    BY <2>1, <2>2, <2>3, <2>4 DEF Voids
  <2> QED
    BY <2>5 DEF v
<1>5. Voids(S \cup {x}, base) \subseteq Nat \X Nat
  BY DEF Voids
<1> QED
  BY <1>2, <1>3, <1>4, <1>5

ChunkRange(m, i) == <<m.entries[i].offset, End(m.entries[i])>>
ChunkRanges(m, some) == {ChunkRange(m, i) : i \in some}

LEMMA ChunkRangesFacts ==
    ASSUME NEW m, NEW some
    PROVE  /\ \A k \in some :
                /\ ChunkRange(m, k) \in ChunkRanges(m, some)
                /\ ChunkRange(m, k)[1] = m.entries[k].offset
                /\ ChunkRange(m, k)[2] = End(m.entries[k])
           /\ \A y \in ChunkRanges(m, some) : \E k \in some :
                /\ y = ChunkRange(m, k)
                /\ y[1] = m.entries[k].offset /\ y[2] = End(m.entries[k])
BY DEF ChunkRanges, ChunkRange

LEMMA ChunkFacts ==
    ASSUME NEW m \in Manifests
    PROVE  /\ HeaderSize \in Nat /\ m.chunk_start \in Nat /\ m.size \in Nat
           /\ m.extension_offset \in Nat /\ m.extension_size \in Nat
           /\ \A i \in Counted(m) :
                /\ m.entries[i].offset \in Nat /\ m.entries[i].header \in Nat
                /\ m.entries[i].payload \in Nat /\ End(m.entries[i]) \in Nat
                /\ m.entries[i].header >= 2
                /\ m.chunk_start # 0 /\ HeaderSize <= m.chunk_start
                /\ m.chunk_start <= m.entries[i].offset
                /\ End(m.entries[i]) =
                     m.entries[i].offset + m.entries[i].header + m.entries[i].payload
                /\ m.entries[i].offset + m.entries[i].header \in Nat
                /\ m.entries[i].offset < m.entries[i].offset + m.entries[i].header
                /\ m.entries[i].offset + m.entries[i].header <= End(m.entries[i])
<1>1. m \in Manifest /\ Inspected(m) /\ HeaderSize \in Nat
  BY LayoutAssumption
<1>2. ASSUME NEW i \in Counted(m)
      PROVE  /\ m.entries[i] \in Chunk
             /\ m.chunk_start # 0 /\ HeaderSize <= m.chunk_start
             /\ m.chunk_start <= m.entries[i].offset
             /\ m.entries[i].header >= 2
  <2>1. i \in DOMAIN m.entries /\ m.entries[i] \in Chunk
    BY ManifestType
  <2>2. m.entries # <<>>
    BY <2>1
  <2> QED
    BY <1>1, <2>1, <2>2 DEF Inspected, Manifest, Chunk
<1>3. ASSUME NEW i \in Counted(m)
      PROVE  /\ m.entries[i].offset \in Nat /\ m.entries[i].header \in Nat
             /\ m.entries[i].payload \in Nat /\ End(m.entries[i]) \in Nat
             /\ End(m.entries[i]) =
                  m.entries[i].offset + m.entries[i].header + m.entries[i].payload
             /\ m.entries[i].offset + m.entries[i].header \in Nat
             /\ m.entries[i].offset < m.entries[i].offset + m.entries[i].header
             /\ m.entries[i].offset + m.entries[i].header <= End(m.entries[i])
  <2>1. /\ m.entries[i].offset \in Nat /\ m.entries[i].header \in Nat
        /\ m.entries[i].payload \in Nat /\ m.entries[i].header >= 2
    BY <1>2 DEF Chunk
  <2> QED
    BY <2>1 DEF End
<1>4. /\ m.chunk_start \in Nat /\ m.size \in Nat
      /\ m.extension_offset \in Nat /\ m.extension_size \in Nat
  BY <1>1 DEF Manifest
<1> QED
  BY <1>1, <1>2, <1>3, <1>4

\* What validateLayoutOrder has reported so far.
GapsInv ==
    gaps = Voids(ChunkRanges(manifest, Counted(manifest) \cap Checked), manifest.chunk_start)

LEMMA GapsStep ==
    ASSUME LayoutTypes, OverlapInv, GapsInv, CheckEntry
    PROVE  GapsInv'
<1>1. PICK i \in unchecked :
         /\ \A j \in unchecked : manifest.entries[i].offset <= manifest.entries[j].offset
         /\ unchecked' = unchecked \ {i}
         /\ IF i \in Counted(manifest)
              THEN Compare(i)
              ELSE UNCHANGED <<previous_end, overlaps, gaps>>
  BY DEF CheckEntry
<1>2. manifest' = manifest /\ manifest \in Manifests
  BY DEF CheckEntry, LayoutTypes
<1>3. Checked' = Checked \cup {i}
  BY <1>1, <1>2 DEF Checked, LayoutTypes
<1>4. CASE i \notin Counted(manifest)
  <2>1. Counted(manifest) \cap Checked' = Counted(manifest) \cap Checked
    BY <1>3, <1>4
  <2> QED
    BY <1>1, <1>2, <1>4, <2>1 DEF GapsInv
<1>5. CASE i \in Counted(manifest)
  <2>1. PICK some : some = Counted(manifest) \cap Checked
    OBVIOUS
  <2>2. PICK S : S = ChunkRanges(manifest, some)
    OBVIOUS
  <2>3. PICK x : x = ChunkRange(manifest, i)
    OBVIOUS
  <2>4. PICK base : base = manifest.chunk_start
    OBVIOUS
  <2>5. /\ x \in Nat \X Nat /\ base \in Nat /\ previous_end \in Nat
        /\ x[1] = manifest.entries[i].offset /\ x[2] = End(manifest.entries[i])
    BY <1>2, <1>5, <2>3, <2>4, ChunkFacts DEF ChunkRange, LayoutTypes
  <2>6. \A k \in some :
           /\ ChunkRange(manifest, k) \in Nat \X Nat
           /\ base <= ChunkRange(manifest, k)[1]
           /\ ChunkRange(manifest, k)[1] <= ChunkRange(manifest, k)[2]
    BY <1>2, <2>1, <2>4, ChunkFacts DEF ChunkRange
  <2>7. S \subseteq Nat \X Nat
    BY <2>2, <2>6 DEF ChunkRanges
  <2>8. \A y \in S \cup {x} : base <= y[1] /\ y[1] <= y[2]
    BY <1>2, <1>5, <2>2, <2>4, <2>5, <2>6, ChunkFacts DEF ChunkRanges
  <2>9. \A y \in S : y[1] <= x[1]
    BY <2>1, <2>2, <2>5, ChunkRangesFacts DEF OverlapInv
  <2>10. \A y \in S : y[2] <= previous_end
    BY <2>1, <2>2, ChunkRangesFacts DEF OverlapInv
  <2>11. previous_end = base \/ \E y \in S : y[2] = previous_end
    BY <2>1, <2>2, <2>4, ChunkRangesFacts DEF OverlapInv
  <2>12. Voids(S \cup {x}, base) =
           Voids(S, base)
             \cup (IF x[1] > previous_end THEN {<<previous_end, x[1]>>} ELSE {})
    BY <2>5, <2>7, <2>8, <2>9, <2>10, <2>11, VoidStep, ZenonT(60)
  <2>13. ChunkRanges(manifest, Counted(manifest) \cap Checked') = S \cup {x}
    BY <1>3, <1>5, <2>1, <2>2, <2>3 DEF ChunkRanges
  <2>14. gaps = Voids(S, base)
    BY <2>1, <2>2, <2>4 DEF GapsInv
  <2>15. gaps' = gaps \cup (IF x[1] > previous_end THEN {<<previous_end, x[1]>>} ELSE {})
    BY <1>1, <1>5, <2>5 DEF Compare
  <2> QED
    BY <1>2, <2>4, <2>12, <2>13, <2>14, <2>15 DEF GapsInv
<1> QED
  BY <1>4, <1>5

LEMMA GapsInvariant == LayoutSpec => [](LayoutTypes /\ OverlapInv /\ GapsInv)
<1>1. LayoutInit => OverlapInv /\ GapsInv
  <2> SUFFICES ASSUME LayoutInit PROVE OverlapInv /\ GapsInv
    OBVIOUS
  <2>1. Checked = {}
    BY DEF LayoutInit, Checked
  <2>2. ChunkRanges(manifest, Counted(manifest) \cap Checked) = {}
    BY <2>1 DEF ChunkRanges
  <2> QED
    BY <2>2 DEF LayoutInit, OverlapInv, Checked, GapsInv, Voids
<1>2. LayoutTypes /\ OverlapInv /\ GapsInv /\ [LayoutNext]_layoutVars => OverlapInv' /\ GapsInv'
  <2> SUFFICES ASSUME LayoutTypes, OverlapInv, GapsInv, [LayoutNext]_layoutVars
               PROVE  OverlapInv' /\ GapsInv'
    OBVIOUS
  <2>1. CASE CheckEntry
    BY <2>1, OverlapStep, GapsStep
  <2>2. CASE UNCHANGED <<manifest, unchecked, previous_end, overlaps, gaps>>
    BY <2>2 DEF OverlapInv, Checked, GapsInv
  <2> QED
    BY <2>1, <2>2 DEF LayoutNext, BuildLayoutSegments, PlaceSegment, AddTrailing, LayoutDone, layoutVars
<1> QED
  BY <1>1, <1>2, LayoutTypesTheorem, PTL DEF LayoutSpec

SegmentRange(s) == <<s.offset, SegmentEnd(s)>>
OwnRanges(segments) == {SegmentRange(s) : s \in {t \in segments : t.depth = 0}}

Placed == Segments(manifest) \ left

\* What sortAndAddGaps has called a gap so far.
SweepGapsInv ==
    /\ sweep = "segments" =>
         /\ \A s \in Placed, t \in left : s.offset <= t.offset
         /\ \A s \in Placed : s.depth = 0 => SegmentEnd(s) <= cursor
         /\ cursor = 0 \/ \E s \in Placed : s.depth = 0 /\ SegmentEnd(s) = cursor
         /\ {SegmentRange(g) : g \in GapsOf(layout)} = Voids(OwnRanges(Placed), 0)
    /\ sweep = "done" =>
         {SegmentRange(g) : g \in GapsOf(layout)} = Voids(OwnRanges(Segments(manifest)), 0)

LEMMA OwnRangesFacts ==
    ASSUME NEW segments
    PROVE  /\ \A s \in segments : s.depth = 0 =>
                /\ SegmentRange(s) \in OwnRanges(segments)
                /\ SegmentRange(s)[1] = s.offset /\ SegmentRange(s)[2] = SegmentEnd(s)
           /\ \A y \in OwnRanges(segments) : \E s \in segments :
                /\ s.depth = 0 /\ y = SegmentRange(s)
                /\ y[1] = s.offset /\ y[2] = SegmentEnd(s)
BY DEF OwnRanges, SegmentRange

LEMMA SweepGapsStep ==
    ASSUME LayoutTypes, SweepInv, SweepGapsInv, PlaceSegment
    PROVE  SweepGapsInv'
<1>1. PICK s \in left :
         (\A t \in left : Before(s, t)) /\ left' = left \ {s} /\ Place(s)
  BY DEF PlaceSegment
<1>2. /\ sweep = "segments" /\ sweep' = "segments" /\ manifest' = manifest
      /\ manifest \in Manifests
  BY DEF PlaceSegment, LayoutTypes
<1>3. Segments(manifest) \subseteq Segment
  BY <1>2, SegmentsType
<1>4. s \in Segments(manifest) /\ left \subseteq Segments(manifest)
  BY <1>2 DEF SweepInv
<1>5. /\ cursor \in Nat
      /\ \A t \in Segments(manifest) :
            t.offset \in Nat /\ SegmentEnd(t) \in Nat /\ t.offset <= SegmentEnd(t)
  BY <1>3 DEF LayoutTypes, Segment, SegmentEnd
<1>6. Placed' = Placed \cup {s}
  BY <1>1, <1>2, <1>4 DEF Placed
<1>7. \A t \in Placed', u \in left' : t.offset <= u.offset
  BY <1>1, <1>2, <1>4, <1>5, <1>6 DEF SweepGapsInv, Before
<1>8. \A t \in Placed : t \in Segments(manifest) /\ t.offset <= s.offset
  BY <1>2 DEF Placed, SweepGapsInv
<1>9. s.kind # "gap"
  BY <1>4, SegmentKinds
<1>10. CASE s.depth # 0
  <2>1. cursor' = cursor /\ layout' = layout \cup {s}
    BY <1>1, <1>10 DEF Place
  <2>2. GapsOf(layout') = GapsOf(layout) /\ OwnRanges(Placed') = OwnRanges(Placed)
    BY <1>6, <1>9, <1>10, <2>1 DEF GapsOf, OwnRanges
  <2>3. \A t \in Placed' : t.depth = 0 => SegmentEnd(t) <= cursor'
    BY <1>2, <1>6, <1>10, <2>1 DEF SweepGapsInv
  <2>4. cursor' = 0 \/ \E t \in Placed' : t.depth = 0 /\ SegmentEnd(t) = cursor'
    BY <1>2, <1>6, <2>1 DEF SweepGapsInv
  <2>5. {SegmentRange(g) : g \in GapsOf(layout')} = Voids(OwnRanges(Placed'), 0)
    BY <1>2, <2>2 DEF SweepGapsInv
  <2> QED
    BY <1>2, <1>7, <2>3, <2>4, <2>5 DEF SweepGapsInv
<1>11. CASE s.depth = 0
  <2>1. PICK S : S = OwnRanges(Placed)
    OBVIOUS
  <2>2. PICK x : x = SegmentRange(s)
    OBVIOUS
  <2>3. x \in Nat \X Nat /\ x[1] = s.offset /\ x[2] = SegmentEnd(s)
    BY <1>4, <1>5, <2>2 DEF SegmentRange
  <2>0. x \in Nat \X Nat /\ cursor \in Nat /\ 0 \in Nat
    BY <1>5, <2>3
  <2>4. S \subseteq Nat \X Nat
    BY <1>5, <1>8, <2>1 DEF OwnRanges, SegmentRange
  <2>5. \A y \in S \cup {x} : 0 <= y[1] /\ y[1] <= y[2]
    BY <1>4, <1>5, <1>8, <2>1, <2>3 DEF OwnRanges, SegmentRange
  <2>6. \A y \in S : y[1] <= x[1]
    BY <1>8, <2>1, <2>3, OwnRangesFacts
  <2>7. \A y \in S : y[2] <= cursor
    BY <1>2, <2>1, OwnRangesFacts DEF SweepGapsInv
  <2>8. cursor = 0 \/ \E y \in S : y[2] = cursor
    BY <1>2, <2>1, OwnRangesFacts DEF SweepGapsInv
  <2>9. Voids(S \cup {x}, 0) =
           Voids(S, 0) \cup (IF x[1] > cursor THEN {<<cursor, x[1]>>} ELSE {})
    BY <2>4, <2>5, <2>6, <2>7, <2>8, <2>0, VoidStep, Zenon
  <2>10. OwnRanges(Placed') = S \cup {x}
    BY <1>6, <1>11, <2>1, <2>2 DEF OwnRanges
  <2>11. {SegmentRange(g) : g \in GapsOf(layout')} =
            {SegmentRange(g) : g \in GapsOf(layout)}
              \cup (IF x[1] > cursor THEN {<<cursor, x[1]>>} ELSE {})
    <3>1. CASE x[1] > cursor
      <4>1. PICK g : g = Unassigned("gap", cursor, s.offset)
        OBVIOUS
      <4>2. g.kind = "gap" /\ SegmentRange(g) = <<cursor, x[1]>>
        BY <1>4, <1>5, <2>3, <3>1, <4>1 DEF Unassigned, SegmentRange, SegmentEnd
      <4>3. layout' = layout \cup {s} \cup {g}
        BY <1>1, <1>11, <2>3, <3>1, <4>1 DEF Place
      <4>4. GapsOf(layout') = GapsOf(layout) \cup {g}
        BY <1>9, <4>2, <4>3 DEF GapsOf
      <4> QED
        BY <3>1, <4>2, <4>4
    <3>2. CASE ~(x[1] > cursor)
      <4>1. GapsOf(layout') = GapsOf(layout)
        BY <1>1, <1>9, <1>11, <2>3, <3>2 DEF Place, GapsOf
      <4> QED
        BY <3>2, <4>1
    <3> QED
      BY <3>1, <3>2
  <2>12. {SegmentRange(g) : g \in GapsOf(layout')} = Voids(OwnRanges(Placed'), 0)
    BY <1>2, <2>1, <2>9, <2>10, <2>11 DEF SweepGapsInv
  <2>13. cursor' = Larger(cursor, SegmentEnd(s))
    BY <1>1, <1>11 DEF Place
  <2>14. \A t \in Placed' : t.depth = 0 => SegmentEnd(t) <= cursor'
    BY <1>2, <1>4, <1>5, <1>6, <1>8, <2>13 DEF SweepGapsInv, Larger
  <2>15. cursor' = 0 \/ \E t \in Placed' : t.depth = 0 /\ SegmentEnd(t) = cursor'
    BY <1>2, <1>4, <1>5, <1>6, <1>11, <2>13 DEF SweepGapsInv, Larger
  <2> QED
    BY <1>2, <1>7, <2>12, <2>14, <2>15 DEF SweepGapsInv
<1> QED
  BY <1>10, <1>11

\* The two pieces of a chunk are next to each other, the header and the index
\* come before the chunks and the extension follows the last one.
LEMMA SameVoids ==
    ASSUME NEW m \in Manifests
    PROVE  Voids(OwnRanges(Segments(m)), 0)
             = Voids(ChunkRanges(m, Counted(m)), m.chunk_start)
<1> DEFINE first(i) == <<m.entries[i].offset, m.entries[i].offset + m.entries[i].header>>
<1> DEFINE second(i) ==
      <<m.entries[i].offset + m.entries[i].header, End(m.entries[i])>>
<1> DEFINE index_end == HeaderSize + IndexSegment(m).length
<1> DEFINE extension == <<m.extension_offset, m.extension_offset + m.extension_size>>
<1>1. PICK R : R = OwnRanges(Segments(m))
  OBVIOUS
<1>2. PICK C : C = ChunkRanges(m, Counted(m))
  OBVIOUS
<1>3. Inspected(m) /\ m \in Manifest
  BY LayoutAssumption
<1>4. PICK cs \in Nat : cs = m.chunk_start
  BY ChunkFacts
<1>5. PICK hs \in Nat : hs = HeaderSize
  BY ChunkFacts
<1>6. index_end = IF cs > hs THEN cs ELSE hs
  BY <1>4, <1>5 DEF IndexSegment
<1>7. <<0, hs>> \in R /\ <<hs, index_end>> \in R
  <2>1. HeaderSegment \in Segments(m) /\ HeaderSegment.depth = 0
          /\ SegmentRange(HeaderSegment) = <<0, hs>>
    BY <1>5 DEF Segments, HeaderSegment, SegmentRange, SegmentEnd
  <2>2. IndexSegment(m) \in Segments(m) /\ IndexSegment(m).depth = 0
          /\ SegmentRange(IndexSegment(m)) = <<hs, index_end>>
    BY <1>5 DEF Segments, IndexSegment, SegmentRange, SegmentEnd
  <2> QED
    BY <1>1, <2>1, <2>2 DEF OwnRanges
<1>8. ASSUME NEW i \in Counted(m)
      PROVE  first(i) \in R /\ second(i) \in R
  <2>1. i \in DOMAIN m.entries /\ m.entries[i].readable /\ m.entries[i].depth = 0
    BY DEF Counted
  <2>2. PICK h : h = [kind |-> "chunk_header", offset |-> m.entries[i].offset,
                      length |-> m.entries[i].header, depth |-> m.entries[i].depth,
                      entry |-> i]
    OBVIOUS
  <2>3. PICK p : p = [kind |-> "chunk_payload",
                      offset |-> m.entries[i].offset + m.entries[i].header,
                      length |-> m.entries[i].payload, depth |-> m.entries[i].depth,
                      entry |-> i]
    OBVIOUS
  <2>4. h \in ChunkSegments(m) /\ p \in ChunkSegments(m)
    BY <2>1, <2>2, <2>3 DEF ChunkSegments
  <2>5. h.depth = 0 /\ SegmentRange(h) = first(i)
    BY <2>1, <2>2 DEF SegmentRange, SegmentEnd
  <2>6. p.depth = 0 /\ SegmentRange(p) = second(i)
    BY <2>1, <2>3, ChunkFacts DEF SegmentRange, SegmentEnd
  <2> QED
    BY <1>1, <2>4, <2>5, <2>6 DEF OwnRanges, Segments
<1>9. ASSUME NEW x \in R
      PROVE  \/ x = <<0, hs>> \/ x = <<hs, index_end>>
             \/ \E i \in Counted(m) : x = first(i) \/ x = second(i)
             \/ m.extension_size # 0 /\ x = extension
  <2>1. PICK s \in Segments(m) : s.depth = 0 /\ x = SegmentRange(s)
    BY <1>1 DEF OwnRanges
  <2>2. CASE s = HeaderSegment
    BY <1>5, <2>1, <2>2 DEF HeaderSegment, SegmentRange, SegmentEnd
  <2>3. CASE s = IndexSegment(m)
    BY <1>5, <2>1, <2>3 DEF IndexSegment, SegmentRange, SegmentEnd
  <2>4. CASE s \in ChunkSegments(m)
    <3>1. PICK i \in DOMAIN m.entries :
            /\ m.entries[i].readable
            /\ \/ s = [kind |-> "chunk_header", offset |-> m.entries[i].offset,
                       length |-> m.entries[i].header, depth |-> m.entries[i].depth,
                       entry |-> i]
               \/ s = [kind |-> "chunk_payload",
                       offset |-> m.entries[i].offset + m.entries[i].header,
                       length |-> m.entries[i].payload, depth |-> m.entries[i].depth,
                       entry |-> i]
      BY <2>4 DEF ChunkSegments
    <3>2. i \in Counted(m)
      BY <2>1, <3>1 DEF Counted
    <3>3. x = first(i) \/ x = second(i)
      BY <2>1, <3>1, <3>2, ChunkFacts DEF SegmentRange, SegmentEnd
    <3> QED
      BY <3>2, <3>3
  <2>5. CASE s \in ExtensionSegments(m)
    BY <2>1, <2>5 DEF ExtensionSegments, SegmentRange, SegmentEnd
  <2> QED
    BY <2>2, <2>3, <2>4, <2>5 DEF Segments
<1>10. m.extension_size # 0 =>
          /\ extension \in R
          /\ m.extension_offset = cs \/ \E i \in Counted(m) : m.extension_offset = End(m.entries[i])
          /\ \A i \in Counted(m) : End(m.entries[i]) <= m.extension_offset
          /\ cs # 0 /\ hs <= cs
  <2> SUFFICES ASSUME m.extension_size # 0
               PROVE  /\ extension \in R
                      /\ m.extension_offset = cs \/ \E i \in Counted(m) : m.extension_offset = End(m.entries[i])
                      /\ \A i \in Counted(m) : End(m.entries[i]) <= m.extension_offset
                      /\ cs # 0 /\ hs <= cs
    OBVIOUS
  <2>1. PICK s : s = [kind |-> "extension", offset |-> m.extension_offset,
                      length |-> m.extension_size, depth |-> 0, entry |-> 0]
    OBVIOUS
  <2>2. s \in Segments(m) /\ s.depth = 0 /\ SegmentRange(s) = extension
    BY <2>1 DEF Segments, ExtensionSegments, SegmentRange, SegmentEnd
  <2>3. extension \in R
    BY <1>1, <2>2 DEF OwnRanges
  <2> QED
    BY <1>3, <1>4, <1>5, <2>3, ChunkFacts DEF Inspected
<1>11. ASSUME NEW v \in Voids(C, cs)
       PROVE  v \in Voids(R, 0)
  <2>1. PICK a \in Nat, b \in Nat : v = <<a, b>> /\ a < b
    BY DEF Voids
  <2>2. PICK i \in Counted(m) : b = m.entries[i].offset
    BY <1>2, <2>1, ChunkRangesFacts DEF Voids
  <2>3. a = cs \/ \E k \in Counted(m) : a = End(m.entries[k])
    BY <1>2, <2>1, ChunkRangesFacts DEF Voids
  <2>4. \A j \in Counted(m) : End(m.entries[j]) <= a \/ m.entries[j].offset >= b
    <3>1. \A y \in C : y[2] <= a \/ y[1] >= b
      BY <2>1 DEF Voids
    <3> QED
      BY <1>2, <3>1, ChunkRangesFacts
  <2>5. hs <= cs /\ cs <= a /\ index_end = cs
    BY <1>4, <1>5, <1>6, <2>2, <2>3, ChunkFacts
  <2>6. \E x \in R : x[1] = b
    BY <1>8, <2>2
  <2>7. \E x \in R : x[2] = a
    BY <1>7, <1>8, <2>3, <2>5
  <2>8. ASSUME NEW x \in R
        PROVE  x[2] <= a \/ x[1] >= b
    <3>1. CASE x = <<0, hs>> \/ x = <<hs, index_end>>
      BY <2>1, <2>5, <3>1
    <3>2. CASE \E j \in Counted(m) : x = first(j) \/ x = second(j)
      <4>1. PICK j \in Counted(m) : x = first(j) \/ x = second(j)
        BY <3>2
      <4> QED
        BY <2>1, <2>4, <4>1, ChunkFacts
    <3>3. CASE m.extension_size # 0 /\ x = extension
      BY <1>10, <2>1, <2>2, <3>3, ChunkFacts
    <3> QED
      BY <1>9, <3>1, <3>2, <3>3
  <2> QED
    BY <2>1, <2>6, <2>7, <2>8 DEF Voids
<1>12. ASSUME NEW v \in Voids(R, 0)
       PROVE  v \in Voids(C, cs)
  <2>1. PICK a \in Nat, b \in Nat : v = <<a, b>> /\ a < b
    BY DEF Voids
  <2>2. \A x \in R : x[2] <= a \/ x[1] >= b
    BY <2>1 DEF Voids
  <2>3. hs <= a
    BY <1>7, <2>1, <2>2
  <2>4. index_end <= a
    BY <1>6, <1>7, <2>1, <2>2, <2>3
  <2>5. cs <= a
    BY <1>6, <2>1, <2>4
  <2>6. ASSUME NEW j \in Counted(m)
        PROVE  End(m.entries[j]) <= a \/ m.entries[j].offset >= b
    <3>1. first(j)[2] <= a \/ first(j)[1] >= b
      BY <1>8, <2>2
    <3>2. second(j)[2] <= a \/ second(j)[1] >= b
      BY <1>8, <2>2
    <3> QED
      BY <2>1, <3>1, <3>2, ChunkFacts
  <2>7. PICK x \in R : x[1] = b
    BY <2>1 DEF Voids
  <2>8. \E i \in Counted(m) : b = m.entries[i].offset
    <3>1. x # <<0, hs>> /\ x # <<hs, index_end>>
      BY <2>1, <2>3, <2>7
    <3>2. ASSUME NEW i \in Counted(m), x = second(i)
          PROVE  FALSE
      <4>1. first(i)[2] <= a \/ first(i)[1] >= b
        BY <1>8, <2>2
      <4>2. b = m.entries[i].offset + m.entries[i].header
        BY <2>7, <3>2
      <4> QED
        BY <2>1, <4>1, <4>2, ChunkFacts
    <3>3. ASSUME m.extension_size # 0, x = extension
          PROVE  FALSE
      <4>1. b = m.extension_offset
        BY <2>7, <3>3
      <4>2. PICK i \in Counted(m) : b = End(m.entries[i])
        BY <1>10, <2>1, <2>5, <3>3, <4>1
      <4> QED
        BY <2>1, <2>6, <4>2, ChunkFacts
    <3> QED
      BY <1>9, <2>7, <3>1, <3>2, <3>3
  <2>9. PICK i \in Counted(m) : b = m.entries[i].offset
    BY <2>8
  <2>10. a = cs \/ \E k \in Counted(m) : a = End(m.entries[k])
    <3>1. cs # 0 /\ hs <= cs /\ index_end = cs
      BY <1>4, <1>5, <1>6, <2>9, ChunkFacts
    <3>2. PICK y \in R : y[2] = a
      BY <2>1, <2>5, <3>1 DEF Voids
    <3>3. CASE y = <<0, hs>> \/ y = <<hs, index_end>>
      BY <2>1, <2>5, <3>1, <3>2, <3>3
    <3>4. ASSUME NEW k \in Counted(m), y = first(k)
          PROVE  a = End(m.entries[k])
      <4>1. second(k)[2] <= a \/ second(k)[1] >= b
        BY <1>8, <2>2
      <4> QED
        BY <2>1, <3>2, <3>4, <4>1, ChunkFacts
    <3>5. ASSUME m.extension_size # 0, y = extension
          PROVE  FALSE
      BY <1>10, <2>1, <2>9, <3>2, <3>5, ChunkFacts
    <3> QED
      BY <1>9, <3>2, <3>3, <3>4, <3>5
  <2>11. \E x1 \in C : x1[1] = b
    BY <1>2, <2>9, ChunkRangesFacts
  <2>12. a = cs \/ \E x1 \in C : x1[2] = a
    BY <1>2, <2>10, ChunkRangesFacts
  <2>13. \A x1 \in C : x1[2] <= a \/ x1[1] >= b
    BY <1>2, <2>6, ChunkRangesFacts
  <2> QED
    BY <2>1, <2>11, <2>12, <2>13 DEF Voids
<1> QED
  BY <1>1, <1>2, <1>4, <1>11, <1>12

\* The gaps that verification reports are those that statistics list, byte for
\* byte: two sweeps over different lists of ranges find the same.
THEOREM GapsTheorem == LayoutSpec => []GapsAgree
<1>1. LayoutInit => SweepInv /\ SweepGapsInv
  BY DEF LayoutInit, SweepInv, SweepGapsInv
<1>2. LayoutTypes /\ LayoutTypes' /\ SweepInv /\ SweepGapsInv /\ [LayoutNext]_layoutVars
        => SweepInv' /\ SweepGapsInv'
  <2> SUFFICES ASSUME LayoutTypes, LayoutTypes', SweepInv, SweepGapsInv, [LayoutNext]_layoutVars
               PROVE  SweepGapsInv'
    BY SweepInvStep
  <2>1. CASE CheckEntry
    BY <2>1 DEF CheckEntry, SweepGapsInv
  <2>2. CASE BuildLayoutSegments
    <3>1. /\ layout' = {} /\ cursor' = 0 /\ left' = Segments(manifest)
          /\ manifest' = manifest /\ sweep' = "segments"
      BY <2>2 DEF BuildLayoutSegments, SweepInv
    <3>2. Placed' = {} /\ GapsOf(layout') = {}
      BY <3>1 DEF Placed, GapsOf
    <3>3. Voids(OwnRanges(Placed'), 0) = {}
      BY <3>2 DEF OwnRanges, Voids
    <3> QED
      BY <3>1, <3>2, <3>3 DEF SweepGapsInv
  <2>3. CASE PlaceSegment
    BY <2>3, SweepGapsStep
  <2>4. CASE AddTrailing
    <3>1. Unassigned("trailing", cursor, manifest.size).kind # "gap"
      BY DEF Unassigned
    <3>2. GapsOf(layout') = GapsOf(layout)
      BY <2>4, <3>1 DEF AddTrailing, GapsOf
    <3>3. Placed = Segments(manifest)
      BY <2>4 DEF AddTrailing, Placed
    <3> QED
      BY <2>4, <3>2, <3>3 DEF AddTrailing, SweepGapsInv
  <2>5. CASE UNCHANGED layoutVars
    BY <2>5 DEF layoutVars, SweepGapsInv, Placed
  <2> QED
    BY <2>1, <2>2, <2>3, <2>4, <2>5 DEF LayoutNext, LayoutDone
<1>3. LayoutTypes /\ SweepInv /\ SweepGapsInv /\ GapsInv => GapsAgree
  <2> SUFFICES ASSUME LayoutTypes, SweepInv, SweepGapsInv, GapsInv, sweep = "done"
               PROVE  gaps = {<<s.offset, SegmentEnd(s)>> : s \in {t \in layout : t.kind = "gap"}}
    BY DEF GapsAgree
  <2>1. Counted(manifest) \cap Checked = Counted(manifest)
    BY DEF SweepInv, Checked, Counted
  <2>2. gaps = Voids(OwnRanges(Segments(manifest)), 0)
    BY <2>1, SameVoids DEF GapsInv, LayoutTypes
  <2> QED
    BY <2>2 DEF SweepGapsInv, SegmentRange, GapsOf
<1> QED
  BY <1>1, <1>2, <1>3, LayoutTypesTheorem, GapsInvariant, PTL DEF LayoutSpec

=============================================================================
