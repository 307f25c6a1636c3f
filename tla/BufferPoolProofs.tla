-------------------------- MODULE BufferPoolProofs --------------------------
(***************************************************************************)
(* Proofs about BufferPool for every number of slots, every size and every *)
(* bound.  The inductive invariant PoolInv adds to the type invariant      *)
(*   - RingOrder: which acquire() call handed each slot out last, as a     *)
(*     function of the distance from the slot to the cursor;               *)
(*   - StorageNamed: a storage is named by the value generation_ had just  *)
(*     after it was allocated;                                             *)
(*   - HandleHistory: what a handle recorded is in the past.               *)
(***************************************************************************)
EXTENDS BufferPool, FiniteSetTheorems, TLAPS

\* How many acquire() calls after the one that last handed out s there have
\* been, had every slot been handed out already.
Age(s) == IF s < cursor THEN cursor - 1 - s ELSE SlotCount - 1 - (s - cursor)

RingOrder ==
    \A s \in Slots :
       lease[s] = IF acquires > Age(s) THEN acquires - Age(s) ELSE 0

StorageNamed == \A s \in Slots : storage[s] <= generation

HandleHistory ==
    /\ \A h \in handles : /\ h.serial \in 1 .. acquires
                          /\ h.storage <= h.pool_generation
                          /\ h.pool_generation <= generation
    /\ \A g, h \in handles : g.serial = h.serial => g = h

PoolInv ==
    /\ TypeInvariant
    /\ RingOrder
    /\ StorageNamed
    /\ HandleHistory
    /\ WindowExact
    /\ GenerationDetectsFree
    /\ HandleFits

-----------------------------------------------------------------------------
(* Lemmas about single operations.                                         *)

\* (cursor_ + 1) % slots_.size() is the next slot, or the first after the last.
LEMMA NextSlot ==
    ASSUME NEW c \in Slots
    PROVE  /\ (c + 1) % SlotCount \in Slots
           /\ c + 1 < SlotCount => (c + 1) % SlotCount = c + 1
           /\ c + 1 = SlotCount => (c + 1) % SlotCount = 0
  <1>1. c + 1 < SlotCount => (c + 1) % SlotCount = c + 1
    BY PoolAssumption, SMT DEF Slots
  <1>2. SlotCount % SlotCount = 0
    BY PoolAssumption, SMT
  <1>3. c + 1 = SlotCount \/ c + 1 < SlotCount
    BY PoolAssumption DEF Slots
  <1> QED
    BY <1>1, <1>2, <1>3, PoolAssumption DEF Slots

\* The slots a recycling replaces are finitely many; there are none exactly
\* when their number is zero, and each finds itself among the first k of them.
LEMMA OversizedCount ==
    ASSUME TypeInvariant, NEW limit \in Nat
    PROVE  /\ Cardinality(Oversized(limit)) \in Nat
           /\ Cardinality(Oversized(limit)) = 0 <=> Oversized(limit) = {}
           /\ \A s \in Oversized(limit) :
                 Cardinality({t \in Oversized(limit) : t <= s})
                    \in 1 .. Cardinality(Oversized(limit))
  <1> DEFINE O == Oversized(limit)
             Upto(s) == {t \in O : t <= s}
  <1>1. IsFiniteSet(Slots)
    BY PoolAssumption, FS_Interval DEF Slots
  <1>2. IsFiniteSet(O)
    BY <1>1, FS_Subset DEF Oversized
  <1>3. Cardinality(O) \in Nat /\ (Cardinality(O) = 0 <=> O = {})
    BY <1>2, FS_CardinalityType, FS_EmptySet
  <1>4. ASSUME NEW s \in O
        PROVE  Cardinality(Upto(s)) \in 1 .. Cardinality(O)
    <2>1. Upto(s) \subseteq O /\ s \in Upto(s)
      BY PoolAssumption DEF Oversized, Slots
    <2>2. IsFiniteSet(Upto(s)) /\ Cardinality(Upto(s)) <= Cardinality(O)
      BY <1>2, <2>1, FS_Subset
    <2>3. Cardinality(Upto(s)) \in Nat /\ Cardinality(Upto(s)) # 0
      BY <2>1, <2>2, FS_CardinalityType, FS_EmptySet
    <2> QED
      BY <1>3, <2>2, <2>3
  <1> QED
    BY <1>3, <1>4

LEMMA LimitType ==
    ASSUME NEW pressure \in Nat
    PROVE  RecycleLimit(pressure) \in Nat
  BY SMT DEF RecycleLimit

\* What acquire() does to the storage and the capacity of each slot.
LEMMA AcquireEffect ==
    ASSUME TypeInvariant, StorageNamed, NEW size \in Nat, AcquireSlot(size)
    PROVE  /\ generation' \in {generation, generation + 1}
           /\ capacity' \in [Slots -> Nat]
           /\ storage' \in [Slots -> Nat]
           /\ \A s \in Slots :
                 \/ storage'[s] = storage[s] /\ capacity'[s] = capacity[s]
                 \/ storage'[s] = generation' /\ generation' = generation + 1
           /\ \A s \in Slots \ {cursor} :
                 storage'[s] = storage[s] /\ capacity'[s] = capacity[s]
           /\ size <= capacity'[cursor]
           /\ storage'[cursor] <= generation'
  BY SMT DEF TypeInvariant, StorageNamed, AcquireSlot, Reallocate, Request

\* What a recycling does: a slot keeps its storage and its capacity, or gets
\* storage that no handle can have seen.
LEMMA RecycleEffect ==
    ASSUME TypeInvariant,
           NEW pressure \in Nat, NEW depth \in Nat, RecycleSlots(pressure, depth)
    PROVE  /\ generation' \in Nat /\ generation' >= generation
           /\ capacity' \in [Slots -> Nat]
           /\ storage' \in [Slots -> Nat]
           /\ \A s \in Slots :
                 \/ storage'[s] = storage[s] /\ capacity'[s] = capacity[s]
                 \/ storage'[s] > generation /\ storage'[s] <= generation'
           /\ UNCHANGED <<cursor, lease, acquires>>
  <1>1. CASE Recycles(pressure, depth)
    <2> DEFINE limit == RecycleLimit(pressure)
               rank(s) == Cardinality({t \in Oversized(limit) : t <= s})
               count == Cardinality(Oversized(limit))
    <2>1. limit \in Nat
      BY LimitType
    <2>2. /\ count \in Nat
          /\ \A s \in Oversized(limit) : rank(s) \in 1 .. count
      BY <2>1, OversizedCount
    <2>3. /\ capacity' = [s \in Slots |->
                            IF s \in Oversized(limit) THEN limit ELSE capacity[s]]
          /\ storage' = [s \in Slots |->
                           IF s \in Oversized(limit)
                             THEN generation + rank(s) ELSE storage[s]]
          /\ generation' = generation + count
          /\ UNCHANGED <<cursor, lease, acquires>>
      BY <1>1 DEF RecycleSlots, Shrink
    <2> HIDE DEF limit, rank, count
    <2> QED
      BY <2>1, <2>2, <2>3 DEF TypeInvariant
  <1>2. CASE ~Recycles(pressure, depth)
    BY <1>2 DEF RecycleSlots, poolVars, TypeInvariant
  <1> QED
    BY <1>1, <1>2

-----------------------------------------------------------------------------
(* The type invariant.                                                     *)

\* Every slot, counter and handle keeps its type.
THEOREM TypeCorrect == Spec => []TypeInvariant
  <1>1. Init => TypeInvariant
    BY PoolAssumption DEF Init, PoolInit, TypeInvariant, Slots, Handle
  <1>2. TypeInvariant /\ [Next]_vars => TypeInvariant'
    <2> SUFFICES ASSUME TypeInvariant, [Next]_vars
                 PROVE  TypeInvariant'
      OBVIOUS
    <2>1. ASSUME NEW size \in Sizes, Acquire(size)
          PROVE  TypeInvariant'
      <3>1. size \in Nat
        BY PoolAssumption
      <3>2. cursor' \in Slots
        BY <2>1, NextSlot DEF Acquire, AcquireSlot, TypeInvariant
      <3>3. /\ capacity' \in [Slots -> Nat]
            /\ storage' \in [Slots -> Nat]
            /\ generation' \in Nat
        BY <2>1, <3>1 DEF Acquire, AcquireSlot, Reallocate, Request, TypeInvariant
      <3>4. lease' \in [Slots -> Nat] /\ acquires' \in Nat
        BY <2>1 DEF Acquire, AcquireSlot, TypeInvariant
      <3>5. NewHandle(size) \in Handle
        BY <3>1, <3>3, <3>4 DEF NewHandle, Handle, TypeInvariant
      <3>6. handles' \in SUBSET Handle
        BY <2>1, <3>5 DEF Acquire, TypeInvariant
      <3> QED
        BY <3>2, <3>3, <3>4, <3>6 DEF TypeInvariant
    <2>2. ASSUME NEW pressure \in Pressures, NEW depth \in Depths,
                 RecycleForNested(pressure, depth)
          PROVE  TypeInvariant'
      <3>1. pressure \in Nat /\ depth \in Nat /\ RecycleSlots(pressure, depth)
        BY <2>2, PoolAssumption DEF RecycleForNested
      <3>2. /\ generation' \in Nat
            /\ capacity' \in [Slots -> Nat]
            /\ storage' \in [Slots -> Nat]
            /\ UNCHANGED <<cursor, lease, acquires>>
        BY <3>1, RecycleEffect
      <3> QED
        BY <2>2, <3>2 DEF RecycleForNested, TypeInvariant
    <2>3. CASE Release
      BY <2>3 DEF Release, poolVars, TypeInvariant
    <2>4. CASE UNCHANGED vars
      BY <2>4 DEF vars, poolVars, TypeInvariant
    <2> QED
      BY <2>1, <2>2, <2>3, <2>4 DEF Next
  <1> QED
    BY <1>1, <1>2, PTL DEF Spec

-----------------------------------------------------------------------------
(* The lifetime of handles.                                                *)

\* The next acquire() hands out the slot that has waited longest.
LEMMA RingStep ==
    ASSUME TypeInvariant, RingOrder, NEW size \in Nat, AcquireSlot(size)
    PROVE  /\ RingOrder'
           /\ lease'[cursor] = acquires + 1
           /\ \A s \in Slots \ {cursor} : lease'[s] = lease[s]
  <1>1. /\ cursor \in Slots /\ acquires \in Nat
        /\ SlotCount \in Nat \ {0}
        /\ lease \in [Slots -> Nat]
    BY PoolAssumption DEF TypeInvariant
  <1>2. /\ lease' = [lease EXCEPT ![cursor] = acquires + 1]
        /\ acquires' = acquires + 1
        /\ cursor' = (cursor + 1) % SlotCount
    BY DEF AcquireSlot
  <1>3. CASE cursor + 1 < SlotCount
    <2>1. cursor' = cursor + 1
      BY <1>1, <1>2, <1>3, NextSlot
    <2> QED
      BY <1>1, <1>2, <1>3, <2>1 DEF RingOrder, Age, Slots
  <1>4. CASE cursor + 1 = SlotCount
    <2>1. cursor' = 0
      BY <1>1, <1>2, <1>4, NextSlot
    <2> QED
      BY <1>1, <1>2, <1>4, <2>1 DEF RingOrder, Age, Slots
  <1> QED
    BY <1>1, <1>3, <1>4 DEF Slots

\* PoolInv holds of the handles that were there before acquire().
LEMMA OldHandles ==
    ASSUME PoolInv, NEW size \in Nat, AcquireSlot(size), NEW h \in handles
    PROVE  /\ h.serial \in 1 .. acquires'
           /\ h.pool_generation <= generation'
           /\ Overwritten(h)' <=> acquires' - h.serial >= SlotCount
           /\ h.pool_generation = generation' => ~Freed(h)'
           /\ ~Freed(h)' => h.size <= capacity'[h.slot]
           /\ Freed(h) => Freed(h)'
  <1>1. /\ h \in Handle
        /\ h.serial \in 1 .. acquires
        /\ h.storage <= h.pool_generation
        /\ h.pool_generation <= generation
        /\ Overwritten(h) <=> acquires - h.serial >= SlotCount
        /\ h.pool_generation = generation => ~Freed(h)
        /\ ~Freed(h) => h.size <= capacity[h.slot]
    BY DEF PoolInv, TypeInvariant, HandleHistory, WindowExact,
           GenerationDetectsFree, HandleFits
  <1>2. /\ h.slot \in Slots /\ h.serial \in Nat /\ h.storage \in Nat
        /\ h.pool_generation \in Nat /\ h.size \in Nat
    BY <1>1 DEF Handle
  <1>3. /\ acquires' = acquires + 1 /\ acquires \in Nat
        /\ cursor \in Slots /\ generation \in Nat
        /\ SlotCount \in Nat \ {0}
    BY PoolAssumption DEF AcquireSlot, PoolInv, TypeInvariant
  <1>4. Overwritten(h)' <=> acquires' - h.serial >= SlotCount
    <2>1. /\ RingOrder' /\ lease'[cursor] = acquires + 1
          /\ \A s \in Slots \ {cursor} : lease'[s] = lease[s]
      BY RingStep DEF PoolInv
    <2>2. CASE h.slot = cursor
      <3>1. lease[cursor] = IF acquires > SlotCount - 1
                              THEN acquires - (SlotCount - 1) ELSE 0
        BY <1>3 DEF PoolInv, RingOrder, Age, Slots
      <3>2. Overwritten(h)'
        BY <1>1, <1>2, <1>3, <2>1, <2>2 DEF Overwritten
      <3> QED
        BY <1>1, <1>2, <1>3, <2>2, <3>1, <3>2 DEF Overwritten
    <2>3. CASE h.slot # cursor
      <3>1. lease'[h.slot] = lease[h.slot]
        BY <1>2, <2>1, <2>3
      <3>2. /\ acquires \in Nat /\ Age(h.slot)
                  \in 0 .. SlotCount - 2
            /\ lease[h.slot] = IF acquires > Age(h.slot)
                                 THEN acquires - Age(h.slot) ELSE 0
        BY <1>2, <1>3, <2>3 DEF PoolInv, RingOrder, Age, Slots
      <3> QED
        BY <1>1, <1>2, <1>3, <3>1, <3>2 DEF Overwritten
    <2> QED
      BY <2>2, <2>3
  <1>5. /\ generation' \in {generation, generation + 1}
        /\ \/ /\ storage'[h.slot] = storage[h.slot]
              /\ capacity'[h.slot] = capacity[h.slot]
           \/ storage'[h.slot] = generation' /\ generation' = generation + 1
        /\ generation' = generation => storage' = storage
    BY <1>2, AcquireEffect DEF PoolInv, AcquireSlot, Reallocate, TypeInvariant
  <1> QED
    BY <1>1, <1>2, <1>3, <1>4, <1>5 DEF Freed

\* The inductive invariant: every step of the pool and of its clients.
LEMMA PoolInvariant == Spec => []PoolInv
  <1>1. Init => PoolInv
    BY PoolAssumption DEF Init, PoolInit, PoolInv, TypeInvariant, RingOrder, Age,
       StorageNamed, HandleHistory, WindowExact, GenerationDetectsFree,
       HandleFits, Slots, Handle
  <1>2. PoolInv /\ TypeInvariant' /\ [Next]_vars => PoolInv'
    <2> SUFFICES ASSUME PoolInv, TypeInvariant', [Next]_vars
                 PROVE  PoolInv'
      OBVIOUS
    <2>1. ASSUME NEW size \in Sizes, Acquire(size)
          PROVE  PoolInv'
      <3> PICK new : new = NewHandle(size)
        OBVIOUS
      <3>1. /\ size \in Nat /\ AcquireSlot(size)
            /\ handles' = handles \cup {new}
        BY <2>1, PoolAssumption DEF Acquire
      <3>2. RingOrder' /\ lease'[cursor] = acquires + 1
        BY <3>1, RingStep DEF PoolInv
      <3>3. StorageNamed'
        BY <3>1, AcquireEffect DEF PoolInv, StorageNamed, TypeInvariant
      <3>4. /\ new.serial = acquires' /\ new.slot = cursor
            /\ new.storage = storage'[cursor] /\ new.size = size
            /\ new.pool_generation = generation'
            /\ acquires' = acquires + 1
        BY <3>1 DEF NewHandle, AcquireSlot
      <3>5. /\ new.serial \in 1 .. acquires'
            /\ new.storage <= new.pool_generation
            /\ new.pool_generation <= generation'
            /\ ~Overwritten(new)' /\ acquires' - new.serial < SlotCount
            /\ ~Freed(new)'
            /\ new.size <= capacity'[new.slot]
        BY <3>1, <3>2, <3>4, AcquireEffect, PoolAssumption
           DEF PoolInv, TypeInvariant, Overwritten, Freed
      <3>6. \A h \in handles : h.serial \in 1 .. acquires
        BY DEF PoolInv, HandleHistory
      <3>7. HandleHistory'
        BY <3>1, <3>4, <3>5, <3>6, OldHandles DEF PoolInv, HandleHistory, TypeInvariant
      <3>8. \A h \in handles :
               /\ Overwritten(h)' <=> acquires' - h.serial >= SlotCount
               /\ h.pool_generation = generation' => ~Freed(h)'
               /\ ~Freed(h)' => h.size <= capacity'[h.slot]
        BY <3>1, OldHandles
      <3>9. ~(acquires' - new.serial >= SlotCount)
        BY <3>4, PoolAssumption DEF PoolInv, TypeInvariant
      <3>10. WindowExact' /\ GenerationDetectsFree' /\ HandleFits'
        BY <3>1, <3>5, <3>8, <3>9
           DEF WindowExact, GenerationDetectsFree, HandleFits, Overwritten, Freed
      <3> QED
        BY <3>2, <3>3, <3>7, <3>10 DEF PoolInv
    <2>2. ASSUME NEW pressure \in Pressures, NEW depth \in Depths,
                 RecycleForNested(pressure, depth)
          PROVE  PoolInv'
      <3>1. /\ pressure \in Nat /\ depth \in Nat
            /\ RecycleSlots(pressure, depth) /\ UNCHANGED handles
        BY <2>2, PoolAssumption DEF RecycleForNested
      <3>2. /\ generation' >= generation
            /\ \A s \in Slots :
                  \/ storage'[s] = storage[s] /\ capacity'[s] = capacity[s]
                  \/ storage'[s] > generation /\ storage'[s] <= generation'
            /\ UNCHANGED <<cursor, lease, acquires>>
        BY <3>1, RecycleEffect DEF PoolInv
      <3>3. \A h \in handles :
               h.slot \in Slots /\ h.storage \in Nat /\ h.pool_generation \in Nat
        BY DEF PoolInv, TypeInvariant, Handle
      <3>4. RingOrder' /\ WindowExact'
        BY <3>1, <3>2 DEF PoolInv, RingOrder, Age, WindowExact, Overwritten
      <3>5. StorageNamed' /\ HandleHistory'
        BY <3>1, <3>2, <3>3 DEF PoolInv, StorageNamed, HandleHistory, TypeInvariant
      <3>6. GenerationDetectsFree' /\ HandleFits'
        BY <3>1, <3>2, <3>3
           DEF PoolInv, TypeInvariant, HandleHistory, GenerationDetectsFree,
               HandleFits, Freed
      <3> QED
        BY <3>4, <3>5, <3>6 DEF PoolInv
    <2>3. CASE Release
      BY <2>3 DEF Release, poolVars, PoolInv, RingOrder, Age, StorageNamed,
         HandleHistory, WindowExact, GenerationDetectsFree, HandleFits, Freed,
         Overwritten
    <2>4. CASE UNCHANGED vars
      BY <2>4 DEF vars, poolVars, PoolInv, RingOrder, Age, StorageNamed,
         HandleHistory, WindowExact, GenerationDetectsFree, HandleFits, Freed,
         Overwritten
    <2> QED
      BY <2>1, <2>2, <2>3, <2>4 DEF Next
  <1> QED
    BY <1>1, <1>2, TypeCorrect, PTL DEF Spec

-----------------------------------------------------------------------------
(* What follows from the invariant.                                        *)

\* A handle is overwritten by the SlotCount-th acquire() after its own and by
\* no earlier one, whatever is recycled in between.
THEOREM WindowTheorem == Spec => []WindowExact
  <1>1. PoolInv => WindowExact
    BY DEF PoolInv
  <1> QED
    BY <1>1, PoolInvariant, PTL

\* An unchanged generation() means that no storage was freed.
THEOREM GenerationTheorem == Spec => []GenerationDetectsFree
  <1>1. PoolInv => GenerationDetectsFree
    BY DEF PoolInv
  <1> QED
    BY <1>1, PoolInvariant, PTL

\* A handle whose storage exists names bytes inside that storage.
THEOREM FitsTheorem == Spec => []HandleFits
  <1>1. PoolInv => HandleFits
    BY DEF PoolInv
  <1> QED
    BY <1>1, PoolInvariant, PTL

-----------------------------------------------------------------------------
(* The pool implements the window of leases.                               *)

Live == {h.serial : h \in {g \in handles : Intact(g)}}

\* A handle that goes through acquire() intact is not under the cursor, and
\* one that is displaced is.
LEMMA AcquireKeepsIntact ==
    ASSUME PoolInv, NEW size \in Nat, AcquireSlot(size), NEW h \in handles
    PROVE  Intact(h)' <=> Intact(h) /\ acquires + 1 - h.serial < SlotCount
  <1>1. /\ h.slot \in Slots /\ h.serial \in 1 .. acquires
        /\ acquires \in Nat /\ acquires' = acquires + 1
        /\ SlotCount \in Nat
        /\ ~Overwritten(h) <=> acquires - h.serial < SlotCount
    BY PoolAssumption
       DEF PoolInv, TypeInvariant, HandleHistory, Handle, WindowExact, AcquireSlot
  <1>2. ~Overwritten(h)' <=> acquires + 1 - h.serial < SlotCount
    BY <1>1, OldHandles
  <1>3. Freed(h) => Freed(h)'
    BY OldHandles
  <1>4. ASSUME ~Overwritten(h)', ~Freed(h)
        PROVE  ~Freed(h)'
    <2>1. lease'[cursor] = acquires + 1
      BY RingStep DEF PoolInv
    <2>2. h.slot # cursor
      BY <1>1, <1>4, <2>1 DEF Overwritten
    <2>3. storage'[h.slot] = storage[h.slot]
      BY <1>1, <2>2, AcquireEffect DEF PoolInv
    <2> QED
      BY <1>4, <2>3 DEF Freed
  <1> QED
    BY <1>1, <1>2, <1>3, <1>4 DEF Intact

\* Every step of the pool is an Issue, a Withdraw or nothing to the window of
\* leases: handles lose their bytes in the order they were handed out, one per
\* acquire() at most, except when a recycling takes them.
THEOREM LeaseTheorem == Spec => LeaseSpec
  <1>1. Init => Lease!Init
    BY DEF Init, PoolInit, Lease!Init
  <1>2. PoolInv /\ [Next]_vars => [Lease!Next]_(Lease!leaseVars)
    <2> SUFFICES ASSUME PoolInv, [Next]_vars
                 PROVE  Lease!Next \/ UNCHANGED Lease!leaseVars
      OBVIOUS
    <2>1. ASSUME NEW size \in Sizes, Acquire(size)
          PROVE  Lease!Issue
      <3> PICK new : new = NewHandle(size)
        OBVIOUS
      <3>1. /\ size \in Nat /\ AcquireSlot(size)
            /\ handles' = handles \cup {new}
            /\ acquires' = acquires + 1
        BY <2>1, PoolAssumption DEF Acquire, AcquireSlot
      <3>2. new.serial = acquires + 1 /\ Intact(new)'
        <4>1. lease'[cursor] = acquires + 1
          BY <3>1, RingStep DEF PoolInv
        <4> QED
          BY <3>1, <4>1 DEF NewHandle, Intact, Freed, Overwritten
      <3>3. \A h \in handles :
               Intact(h)' <=> Intact(h) /\ acquires + 1 - h.serial < SlotCount
        BY <3>1, AcquireKeepsIntact
      <3>4. Live' = {s \in Live : acquires + 1 - s < SlotCount}
                      \cup {acquires + 1}
        BY <3>1, <3>2, <3>3 DEF Live, Intact, Freed, Overwritten
      <3> QED
        BY <3>1, <3>4 DEF Lease!Issue, Live
    <2>2. ASSUME NEW pressure \in Pressures, NEW depth \in Depths,
                 RecycleForNested(pressure, depth)
          PROVE  Lease!Withdraw
      <3>1. /\ pressure \in Nat /\ depth \in Nat
            /\ RecycleSlots(pressure, depth) /\ UNCHANGED handles
        BY <2>2, PoolAssumption DEF RecycleForNested
      <3>2. /\ \A s \in Slots :
                  storage'[s] = storage[s] \/ storage'[s] > generation
            /\ UNCHANGED <<lease, acquires>>
        BY <3>1, RecycleEffect DEF PoolInv
      <3>3. \A h \in handles : /\ h.slot \in Slots /\ h.storage \in Nat
                                /\ h.storage <= generation
        BY DEF PoolInv, TypeInvariant, HandleHistory, Handle
      <3>4. \A h \in handles : Intact(h)' => Intact(h)
        BY <3>2, <3>3 DEF PoolInv, TypeInvariant, Intact, Freed, Overwritten
      <3>5. Live' \subseteq Live
        BY <3>1, <3>4 DEF Live, Intact, Freed, Overwritten
      <3> QED
        BY <3>2, <3>5 DEF Lease!Withdraw, Live
    <2>3. ASSUME Release
          PROVE  Lease!Withdraw
      <3>1. Live' \subseteq Live
        BY <2>3 DEF Release, poolVars, Live, Intact, Freed, Overwritten
      <3> QED
        BY <2>3, <3>1 DEF Release, poolVars, Lease!Withdraw, Live
    <2>4. CASE UNCHANGED vars
      BY <2>4 DEF vars, poolVars, Lease!leaseVars, Intact, Freed, Overwritten
    <2> QED
      BY <2>1, <2>2, <2>3, <2>4 DEF Next, Lease!Next
  <1> QED
    BY <1>1, <1>2, PoolInvariant, PTL DEF Spec, LeaseSpec, Lease!Spec

=============================================================================
