------------------------- MODULE CollisionResolver --------------------------
(***************************************************************************)
(* CollisionResolver (src/src/path_utils.{h,cc}), which gives every entry  *)
(* of an archive an output name no other has.  assign() normalizes the     *)
(* name asked for and, while the key of its candidate is taken, marks the  *)
(* name with the number of the attempt: "name (2).txt", or a hash.         *)
(*                                                                         *)
(* A name is what is left of it when the marks are taken off its stem (its *)
(* base: directory, stem and extension) and the marks, in order: appending *)
(* a mark to a name appends to its marks, and a name that came with a mark *)
(* is no different from one that was given it.  Every use of the class has *)
(* objects of its own, here told apart by Resolvers.                       *)
(***************************************************************************)
EXTENDS Naturals, Sequences, FiniteSets

CONSTANTS
    Bases,
    Fold,            \* canonicalCollisionKey of a name without marks: lower
                     \* case, and no white space at either end
    FoldMarked,      \* the same of a name with marks, which can differ: marks
                     \* stand between the end of the stem and that of the name
    Requests,        \* entry names as they stand in an archive
    Normalized,      \* analyzePath(...).normalized, by request
    Digest,          \* the eight digits of appendHashSuffix, by base
    Word,            \* 2^64: a std::size_t counts attempts
    Resolvers

Mark == {"number", "hash"} \X Nat \X Nat
Name == [base : Bases, marks : Seq(Mark)]
Strategies == {"keepFirst", "appendNumber", "appendHash"}

\* The fields of PathPolicy that matter here; the others have their defaults.
Policy == [lowercase : BOOLEAN, strategy : Strategies]
DefaultPolicy == [lowercase |-> TRUE, strategy |-> "appendNumber"]

ASSUME ResolverAssumption ==
    /\ Fold \in [Bases -> Bases]
    /\ FoldMarked \in [Bases -> Bases]
    /\ Normalized \in [Requests -> Name]
    /\ Digest \in [Bases -> Nat]
    /\ Word \in Nat \ {0}

VARIABLES
    policy,          \* policy_, by resolver
    keys,            \* keys_
    assignments,     \* assignments_, from request to name
    granted,         \* history: the CollisionResults returned so far
    call             \* the locals of the assign() under way, NoCall outside

resolverVars == <<policy, keys, assignments, granted, call>>

Result ==
    [requested : Requests, assigned : Name, collided : BOOLEAN,
     attempt : 0 .. Word - 1]

NoCall == [active |-> FALSE]
Call ==
    [active : {TRUE}, resolver : Resolvers, requested : Requests,
     candidate : Name, collided : BOOLEAN, attempt : 0 .. Word - 1]

-----------------------------------------------------------------------------
(* The names.                                                              *)

CanonicalKey(n) ==
    [n EXCEPT !.base = IF n.marks = <<>> THEN Fold[n.base] ELSE FoldMarked[n.base]]

CollisionKey(p, n) == IF p.lowercase THEN CanonicalKey(n) ELSE n

WithMark(n, mark) == [n EXCEPT !.marks = Append(n.marks, mark)]

\* Mutant: the attempt does not go into the number.
CandidateSecond(p, n, attempt) ==
    CASE p.strategy = "keepFirst" -> n
      [] p.strategy = "appendNumber" -> WithMark(n, <<"number", 2, 0>>)
      [] p.strategy = "appendHash" -> WithMark(n, <<"hash", Digest[n.base], attempt>>)

\* makeCandidate.  The hash is taken of the name followed by "#" and the
\* attempt, and put before that text, which keeps apart what the digits may
\* not.
Candidate(p, n, attempt) ==
    CASE p.strategy = "keepFirst" -> n
      [] p.strategy = "appendNumber" -> WithMark(n, <<"number", attempt + 1, 0>>)
      [] p.strategy = "appendHash" -> WithMark(n, <<"hash", Digest[n.base], attempt>>)

-----------------------------------------------------------------------------
(* assign().                                                               *)

ResolverInit ==
    /\ keys = [r \in Resolvers |-> {}]
    /\ assignments = [r \in Resolvers |-> <<>>]
    /\ granted = [r \in Resolvers |-> <<>>]
    /\ call = NoCall

StartAssign(r, requested) ==
    /\ ~call.active
    /\ call' = [active |-> TRUE, resolver |-> r, requested |-> requested,
                candidate |-> Normalized[requested], collided |-> FALSE,
                attempt |-> 0]
    /\ UNCHANGED <<policy, keys, assignments, granted>>

Taken(r, n) == CollisionKey(policy[r], n) \in keys[r]

\* Mutant: the next candidate is made from the last one.
TryNextOnCandidate ==
    /\ call.active
    /\ Taken(call.resolver, call.candidate)
    /\ LET attempt == (call.attempt + 1) % Word IN
       call' = [call EXCEPT !.collided = TRUE, !.attempt = attempt,
                            !.candidate = Candidate(policy[call.resolver],
                                                    call.candidate, attempt)]
    /\ UNCHANGED <<policy, keys, assignments, granted>>

TryNext ==
    /\ call.active
    /\ Taken(call.resolver, call.candidate)
    /\ LET attempt == (call.attempt + 1) % Word IN
       call' = [call EXCEPT !.collided = TRUE, !.attempt = attempt,
                            !.candidate = Candidate(policy[call.resolver],
                                                    Normalized[call.requested],
                                                    attempt)]
    /\ UNCHANGED <<policy, keys, assignments, granted>>

ReturnedResult ==
    [requested |-> call.requested, assigned |-> call.candidate,
     collided |-> call.collided, attempt |-> call.attempt]

\* assignments_[requested] = assigned
Assign(f, requested, assigned) ==
    [q \in DOMAIN f \cup {requested} |->
       IF q = requested THEN assigned ELSE f[q]]

\* Mutant: the key of the name asked for is kept, not that of the one given.
ReturnKeepingRequest ==
    /\ call.active
    /\ ~Taken(call.resolver, call.candidate)
    /\ keys' = [keys EXCEPT ![call.resolver] =
                  @ \cup {CollisionKey(policy[call.resolver], Normalized[call.requested])}]
    /\ assignments' = [assignments EXCEPT ![call.resolver] =
                         Assign(@, call.requested, call.candidate)]
    /\ granted' = [granted EXCEPT ![call.resolver] = Append(@, ReturnedResult)]
    /\ call' = NoCall
    /\ UNCHANGED policy

Return ==
    /\ call.active
    /\ ~Taken(call.resolver, call.candidate)
    /\ keys' = [keys EXCEPT ![call.resolver] =
                  @ \cup {CollisionKey(policy[call.resolver], call.candidate)}]
    /\ assignments' = [assignments EXCEPT ![call.resolver] =
                         Assign(@, call.requested, call.candidate)]
    /\ granted' = [granted EXCEPT ![call.resolver] = Append(@, ReturnedResult)]
    /\ call' = NoCall
    /\ UNCHANGED policy

=============================================================================
