---------------------------- MODULE MCNameChecks ----------------------------
(***************************************************************************)
(* NameChecks for TLC.  Of the bases, "A" is "a" in upper case and "a_" is *)
(* "a" with a blank behind it (the entry name "a ." normalizes to it),     *)
(* which the key of the bare name is without and that of a marked one is   *)
(* not.                                                                    *)
(***************************************************************************)
EXTENDS NameChecks

CONSTANTS MaxNames

MCBases == {"a", "A", "a_", "b"}
MCFold == [n \in MCBases |-> IF n = "b" THEN "b" ELSE "a"]
MCFoldMarked ==
    [n \in MCBases |-> IF n = "A" THEN "a" ELSE n]

Plain(base) == [base |-> base, marks |-> <<>>]
Second(base) == [base |-> base, marks |-> <<<<"number", 2, 0>>>>]
MCNormalized ==
    [a |-> Plain("a"), dotted |-> Plain("a"), upper |-> Plain("A"),
     blank |-> Plain("a_"), second |-> Second("a"), other |-> Plain("b")]
MCRequests == DOMAIN MCNormalized

\* Digits that two of the names share.
MCDigest == [n \in MCBases |-> IF n \in {"a", "a_"} THEN 1 ELSE 2]

\* The trees of flattenEntries: the next entry is in the last one, in the same
\* archive, or in one further out.
MCOwners ==
    {<<>>, <<0>>, <<0, 0>>, <<0, 1>>,
     <<0, 0, 0>>, <<0, 0, 2>>, <<0, 1, 0>>, <<0, 1, 1>>, <<0, 1, 2>>}

MCArchives ==
    UNION {[names : [1 .. Len(owner) -> MCRequests], owner : {owner}] :
           owner \in {o \in MCOwners : Len(o) <= MaxNames}}

MCResolvers == {Inspection(n) : n \in 0 .. MaxNames} \cup {Plan}
MCPolicies == Policy
=============================================================================
