---------------------------- MODULE LeaseWindow ----------------------------
(***************************************************************************)
(* What a ring of buffers promises the code that borrows from it, without  *)
(* a ring: every block handed out gets the next serial number, and a       *)
(* borrowed block can be relied on only while it is one of the last Window *)
(* blocks handed out.  The owner may also take any block back earlier.     *)
(*                                                                         *)
(* BufferPool (src/src/pool.cc) implements this specification; see         *)
(* BufferPool!Lease.                                                       *)
(***************************************************************************)
EXTENDS Naturals

CONSTANT Window      \* how many of the latest blocks stay reliable: 1 or more

VARIABLES
    issued,          \* number of blocks handed out so far
    live             \* serial numbers that still name the bytes handed out

leaseVars == <<issued, live>>

Init == issued = 0 /\ live = {}

\* A new block displaces the one issued Window blocks before it, no other.
Issue ==
    /\ issued' = issued + 1
    /\ live' = {s \in live : issued + 1 - s < Window} \cup {issued + 1}

\* Blocks are dropped by their borrower or taken back by the pool.
Withdraw ==
    /\ \E kept \in SUBSET live : live' = kept
    /\ UNCHANGED issued

Next == Issue \/ Withdraw

Spec == Init /\ [][Next]_leaseVars

=============================================================================
