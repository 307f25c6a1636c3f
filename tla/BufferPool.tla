----------------------------- MODULE BufferPool -----------------------------
(***************************************************************************)
(* The ring of reusable buffers behind chunk decoding: BufferPool in       *)
(* src/src/pool.{h,cc}, and the ChunkHandles (src/src/chunk.h) its callers *)
(* keep.  acquire() hands out the slot under the cursor as a raw pointer   *)
(* and moves on, so a slot is handed out again SlotCount calls later;      *)
(* recycleForNested() replaces the storage of every slot above a limit.    *)
(* Nothing tells the holder of a pointer that either has happened.         *)
(*                                                                         *)
(* Three history variables say which pointers are still good.  Every       *)
(* allocation increments generation_, so its new value names the storage   *)
(* allocated: storage[s] is the storage slot s owns (0: none yet).         *)
(* acquires counts acquire() calls and lease[s] is the number of the call  *)
(* that last handed out slot s.                                            *)
(***************************************************************************)
EXTENDS Naturals, FiniteSets

CONSTANTS
    SlotCount,       \* slots_.size(): 4 in the code
    MaxAcquires,     \* bound on the number of acquire() calls
    Sizes,           \* the sizes asked of acquire()
    Pressures,       \* the sizes of nested archives given to recycleForNested
    Depths           \* the nesting depths given to recycleForNested

ASSUME PoolAssumption ==
    /\ SlotCount \in Nat \ {0}
    /\ MaxAcquires \in Nat
    /\ Sizes \subseteq Nat
    /\ Pressures \subseteq Nat
    /\ Depths \subseteq Nat

Slots == 0 .. SlotCount - 1

VARIABLES
    capacity,        \* Slot::capacity, by slot
    cursor,          \* cursor_
    generation,      \* generation_
    storage,         \* history: the allocation each slot owns
    lease,           \* history: the acquire() that last handed the slot out
    acquires,        \* history: number of acquire() calls
    handles          \* the ChunkHandles in scope somewhere in the program

poolVars == <<capacity, cursor, generation, storage, lease, acquires>>
vars == <<poolVars, handles>>

Handle ==
    [slot : Slots, storage : Nat, size : Nat, pool_generation : Nat, serial : Nat]

TypeInvariant ==
    /\ capacity \in [Slots -> Nat]
    /\ cursor \in Slots
    /\ generation \in Nat
    /\ storage \in [Slots -> Nat]
    /\ lease \in [Slots -> Nat]
    /\ acquires \in Nat
    /\ handles \in SUBSET Handle

-----------------------------------------------------------------------------
(* The operations.  AcquireSlot and RecycleSlots change the pool only, so  *)
(* that a module that knows who holds the handles can use them.            *)

PoolInit ==
    /\ capacity = [s \in Slots |-> 0]
    /\ cursor = 0
    /\ generation = 0
    /\ storage = [s \in Slots |-> 0]
    /\ lease = [s \in Slots |-> 0]
    /\ acquires = 0

Request(size) == IF size = 0 THEN 1 ELSE size

\* unique_ptr::reset of slot s: new storage, and ++generation_.
Reallocate(s, size) ==
    /\ capacity' = [capacity EXCEPT ![s] = size]
    /\ storage' = [storage EXCEPT ![s] = generation + 1]
    /\ generation' = generation + 1

\* Mutant: the cursor runs off the end of the ring.
AcquireSlotNoWrap(size) ==
    /\ IF capacity[cursor] < Request(size)
         THEN Reallocate(cursor, Request(size))
         ELSE UNCHANGED <<capacity, storage, generation>>
    /\ cursor' = cursor + 1
    /\ acquires' = acquires + 1
    /\ lease' = [lease EXCEPT ![cursor] = acquires + 1]

\* Mutant: an empty block takes no turn of the ring.
AcquireSlotEmptyStays(size) ==
    /\ IF capacity[cursor] < Request(size)
         THEN Reallocate(cursor, Request(size))
         ELSE UNCHANGED <<capacity, storage, generation>>
    /\ cursor' = IF size = 0 THEN cursor ELSE (cursor + 1) % SlotCount
    /\ acquires' = acquires + 1
    /\ lease' = [lease EXCEPT ![cursor] = acquires + 1]

AcquireSlot(size) ==
    /\ IF capacity[cursor] < Request(size)
         THEN Reallocate(cursor, Request(size))
         ELSE UNCHANGED <<capacity, storage, generation>>
    /\ cursor' = (cursor + 1) % SlotCount
    /\ acquires' = acquires + 1
    /\ lease' = [lease EXCEPT ![cursor] = acquires + 1]

\* The ChunkHandle that readChunk or decodeRle fills in after acquire(size).
NewHandle(size) ==
    [slot |-> cursor, storage |-> storage'[cursor], size |-> size,
     pool_generation |-> generation', serial |-> acquires']

Recycles(pressure, depth) ==
    /\ depth >= 2
    /\ pressure >= 64
    /\ pressure % 17 = 3

RecycleLimit(pressure) ==
    IF pressure \div 2 < 32 THEN 32 ELSE pressure \div 2

Oversized(limit) == {s \in Slots : capacity[s] > limit}

\* Mutant: the oversized slots are marked smaller but keep their storage.
ShrinkInPlace(limit) ==
    /\ capacity' = [s \in Slots |->
                      IF s \in Oversized(limit) THEN limit ELSE capacity[s]]
    /\ UNCHANGED <<cursor, lease, acquires, storage, generation>>

\* Mutant: the loop replaces storage without ++generation_.
ShrinkSilently(limit) ==
    /\ capacity' = [s \in Slots |->
                      IF s \in Oversized(limit) THEN limit ELSE capacity[s]]
    /\ storage' = [s \in Slots |->
                     IF s \in Oversized(limit) THEN generation + s + 1 ELSE storage[s]]
    /\ UNCHANGED <<cursor, lease, acquires, generation>>

\* Mutant: recycling starts the ring again at the first slot.
ShrinkAndRewind(limit) ==
    /\ capacity' = [s \in Slots |->
                      IF s \in Oversized(limit) THEN limit ELSE capacity[s]]
    /\ cursor' = 0
    /\ UNCHANGED <<lease, acquires, storage, generation>>

\* The loop visits the slots in order: the k-th oversized one gets the k-th
\* new generation number.
Shrink(limit) ==
    /\ capacity' = [s \in Slots |->
                      IF s \in Oversized(limit) THEN limit ELSE capacity[s]]
    /\ storage' = [s \in Slots |->
                     IF s \in Oversized(limit)
                       THEN generation
                              + Cardinality({t \in Oversized(limit) : t <= s})
                       ELSE storage[s]]
    /\ generation' = generation + Cardinality(Oversized(limit))
    /\ UNCHANGED <<cursor, lease, acquires>>

RecycleSlots(pressure, depth) ==
    IF Recycles(pressure, depth)
      THEN Shrink(RecycleLimit(pressure))
      ELSE UNCHANGED poolVars

-----------------------------------------------------------------------------
(* The pool under any client.                                              *)

Init == PoolInit /\ handles = {}

Acquire(size) ==
    /\ acquires < MaxAcquires
    /\ AcquireSlot(size)
    /\ handles' = handles \cup {NewHandle(size)}

RecycleForNested(pressure, depth) ==
    /\ RecycleSlots(pressure, depth)
    /\ UNCHANGED handles

\* Handles go out of scope, one at a time or a whole call stack of them.
Release ==
    /\ \E kept \in SUBSET handles : handles' = kept
    /\ UNCHANGED poolVars

Next ==
    \/ \E size \in Sizes : Acquire(size)
    \/ \E pressure \in Pressures, depth \in Depths :
          RecycleForNested(pressure, depth)
    \/ Release

Spec == Init /\ [][Next]_vars

-----------------------------------------------------------------------------
(* Properties.                                                             *)

Freed(h) == storage[h.slot] # h.storage
Overwritten(h) == lease[h.slot] # h.serial

\* The bytes behind h are those its acquire() call was filled with.
Intact(h) == ~Freed(h) /\ ~Overwritten(h)

\* The exact lifetime of a handle: its slot is handed to somebody else by the
\* SlotCount-th acquire() after its own, never earlier (pool.cc:14-15), and no
\* recycling in between moves the ring.
WindowExact ==
    \A h \in handles : Overwritten(h) <=> acquires - h.serial >= SlotCount

\* What ChunkHandle::pool_generation is worth (chunk.cc:58, 117): while the
\* pool's generation() is the recorded one, the storage behind the handle has
\* not been freed.  (It says nothing about the slot being overwritten.)
GenerationDetectsFree ==
    \A h \in handles : h.pool_generation = generation => ~Freed(h)

\* The block a handle names lies inside the storage it points to, however
\* often the slot grew or shrank since, as long as that storage exists.
HandleFits ==
    \A h \in handles : ~Freed(h) => h.size <= capacity[h.slot]

\* The pool implements the window of leases: the handles that are intact are
\* a subset of the latest SlotCount, and only acquire() number SlotCount after
\* a handle's own, or a recycling, ends one that is still in scope.
Lease == INSTANCE LeaseWindow
           WITH Window <- SlotCount,
                issued <- acquires,
                live <- {h.serial : h \in {g \in handles : Intact(g)}}
LeaseSpec == Lease!Spec

=============================================================================
