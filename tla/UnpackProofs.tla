---------------------------- MODULE UnpackProofs ----------------------------
(***************************************************************************)
(* Proofs about Unpack for every archive, every number of slots and every  *)
(* depth limit.  StackInv is what the recursion keeps: each call but the   *)
(* innermost waits in parseNestedArchive and its callee reads from the     *)
(* handle it holds; the outermost reads the caller's bytes.  From it       *)
(* follows that the recursion is a client of BufferPool, so that what is   *)
(* proved of every client holds of the handles on the stack.               *)
(*                                                                         *)
(* FidelityInv, in the second half, is for the archives that fit the ring: *)
(* each call on the stack has a place in the outcome of the whole          *)
(* extraction, its buffer holds the bytes it parses, and what is written   *)
(* ends where the innermost call is.                                       *)
(***************************************************************************)
EXTENDS UnpackFidelity, SequenceTheorems, DataInduction, TLAPS

\* BufferPool's theorems, of this pool.
P == INSTANCE BufferPoolProofs
       WITH Sizes <- PayloadSizes, Pressures <- PayloadSizes,
            Depths <- 1 .. MaxNestedDepth, handles <- OpenHandles

Slots == 0 .. SlotCount - 1

RingTypes ==
    /\ acquires \in Nat
    /\ cursor \in Slots
    /\ contents \in [Slots -> Payloads \cup {Stale}]

IsList(s) == s \in Seq({s[k] : k \in 1 .. Len(s)})

PC == {"open", "index", "entry", "copy", "descend", "nested", "write"}

\* The function of a call; what its directory is does not matter.
IsFrame(f) ==
    f \in [source : {f.source}, archive : Payloads, depth : 0 .. MaxNestedDepth,
           dir : {f.dir}, next : Nat \ {0}, handle : {f.handle}, pc : PC]

\* A call holds a handle exactly in the body of its loop.
FrameInv(f) ==
    /\ IsFrame(f)
    /\ f.next <= Len(Entries(f)) + 1
    /\ f.pc \in {"open", "index", "entry"} => f.handle = NoHandle
    /\ f.pc \in {"open", "index"} => f.next = 1
    /\ f.pc \in {"copy", "descend", "nested", "write"} =>
          /\ f.next <= Len(Entries(f))
          /\ f.handle.size \in PayloadSizes
          /\ f.handle.slot \in Slots

\* The outermost call parses the root, which nothing can overwrite, and takes
\* for archives those entries that are.
OuterInv(f) ==
    /\ f.source = NoHandle
    /\ f.archive = root
    /\ f.pc \in {"descend", "nested"} => IsContainer(Current(f))

StackInv ==
    /\ IsList(stack)
    /\ \A k \in 1 .. Len(stack) : FrameInv(stack[k])
    /\ \A k \in 1 .. Len(stack) : stack[k].pc = "nested" <=> k < Len(stack)
    /\ \A k \in 2 .. Len(stack) : stack[k].source = stack[k - 1].handle
    /\ stack # <<>> => OuterInv(stack[1])
    /\ \A k \in 1 .. Len(stack) :
          stack[k].pc = "descend" => contents[stack[k].handle.slot] \in Payloads
    /\ RingTypes
    /\ root \in Payloads
    /\ result \in {"running", "ok", "error"}
    /\ result = "running" <=> stack # <<>>

-----------------------------------------------------------------------------
(* The stack as a sequence.                                                *)

LEMMA IsListIfSeq ==
    ASSUME NEW S, NEW t \in Seq(S)
    PROVE  IsList(t)
  <1>1. Len(t) \in Nat /\ DOMAIN t = 1 .. Len(t)
    OBVIOUS
  <1>2. t = [k \in 1 .. Len(t) |-> t[k]]
    OBVIOUS
  <1>3. [k \in 1 .. Len(t) |-> t[k]] \in [1 .. Len(t) -> {t[k] : k \in 1 .. Len(t)}]
    OBVIOUS
  <1> QED
    BY <1>1, <1>2, <1>3 DEF IsList

LEMMA NotEmpty ==
    ASSUME NEW s, IsList(s), s # <<>>
    PROVE  Len(s) \in Nat \ {0}
  BY DEF IsList

\* Replacing the last element.
LEMMA ReplaceLast ==
    ASSUME NEW s, IsList(s), s # <<>>, NEW g, NEW t, t = [s EXCEPT ![Len(s)] = g]
    PROVE  /\ IsList(t) /\ t # <<>>
           /\ Len(s) \in Nat \ {0} /\ Len(t) = Len(s)
           /\ t[Len(s)] = g
           /\ \A k \in 1 .. Len(s) - 1 : t[k] = s[k]
  <1> DEFINE S == {s[k] : k \in 1 .. Len(s)} \cup {g}
  <1>1. s \in Seq(S) /\ Len(s) \in Nat \ {0}
    BY DEF IsList
  <1>2. t \in Seq(S) /\ Len(t) = Len(s)
    BY <1>1
  <1>3. t[Len(s)] = g /\ \A k \in 1 .. Len(s) - 1 : t[k] = s[k]
    BY <1>1
  <1>4. IsList(t)
    BY <1>2, IsListIfSeq
  <1> QED
    BY <1>1, <1>2, <1>3, <1>4

LEMMA Push ==
    ASSUME NEW s, IsList(s), NEW g, NEW t, t = Append(s, g)
    PROVE  /\ IsList(t) /\ t # <<>>
           /\ Len(s) \in Nat /\ Len(t) = Len(s) + 1
           /\ t[Len(t)] = g
           /\ \A k \in 1 .. Len(s) : t[k] = s[k]
  <1> DEFINE S == {s[k] : k \in 1 .. Len(s)} \cup {g}
  <1>1. s \in Seq(S) /\ g \in S /\ Len(s) \in Nat
    BY DEF IsList
  <1>2. t \in Seq(S) /\ Len(t) = Len(s) + 1 /\ t[Len(t)] = g
    BY <1>1
  <1>3. \A k \in 1 .. Len(s) : t[k] = s[k]
    BY <1>1
  <1>4. IsList(t)
    BY <1>2, IsListIfSeq
  <1> QED
    BY <1>1, <1>2, <1>3, <1>4

LEMMA Pop ==
    ASSUME NEW s, IsList(s), s # <<>>, NEW t, t = SubSeq(s, 1, Len(s) - 1)
    PROVE  /\ IsList(t)
           /\ Len(t) = Len(s) - 1
           /\ \A k \in 1 .. Len(s) - 1 : t[k] = s[k]
  <1> DEFINE S == {s[k] : k \in 1 .. Len(s)}
  <1> PICK n \in Nat : n + 1 = Len(s)
    BY NotEmpty
  <1>1. \A k \in 1 .. n : s[k] \in S
    OBVIOUS
  <1>2. t = SubSeq(s, 1, n)
    OBVIOUS
  <1> HIDE DEF S
  <1>3. /\ t \in Seq(S)
        /\ Len(t) = IF 1 <= n THEN n - 1 + 1 ELSE 0
        /\ \A k \in 1 .. n - 1 + 1 : t[k] = s[1 + k - 1]
    BY <1>1, <1>2, SubSeqProperties
  <1>4. Len(t) = n
    BY <1>3
  <1>5. \A k \in 1 .. n : t[k] = s[k]
    BY <1>3
  <1>6. IsList(t)
    BY <1>3, IsListIfSeq
  <1> QED
    BY <1>4, <1>5, <1>6

-----------------------------------------------------------------------------
(* What the actions do to the stack.                                       *)

\* The handles of all calls but the innermost.
Below == {stack[k].handle : k \in 1 .. Len(stack) - 1} \ {NoHandle}

LEMMA HandlesSplit ==
    ASSUME StackInv, stack # <<>>
    PROVE  OpenHandles = Below \cup ({Top.handle} \ {NoHandle})
  <1> DEFINE n == Len(stack)
  <1>1. n \in Nat \ {0}
    BY NotEmpty DEF StackInv
  <1> HIDE DEF n
  <1>2. 1 .. n = (1 .. n - 1) \cup {n}
    BY <1>1
  <1> QED
    BY <1>2 DEF OpenHandles, Below, Top, n

LEMMA UpdatedStack ==
    ASSUME IsList(stack), stack # <<>>, NEW g, Update(g)
    PROVE  /\ IsList(stack') /\ stack' # <<>>
           /\ Len(stack) \in Nat \ {0} /\ Len(stack') = Len(stack)
           /\ stack'[Len(stack)] = g
           /\ \A k \in 1 .. Len(stack) - 1 : stack'[k] = stack[k]
  <1>1. stack' = [stack EXCEPT ![Len(stack)] = g]
    BY DEF Update
  <1>2. IsList(stack') /\ stack' # <<>> /\ stack'[Len(stack)] = g
    BY <1>1, ReplaceLast
  <1>3. \A k \in 1 .. Len(stack) - 1 : stack'[k] = stack[k]
    BY <1>1, ReplaceLast
  <1>4. Len(stack') = Len(stack)
    BY <1>1, ReplaceLast
  <1>5. Len(stack) \in Nat \ {0}
    BY NotEmpty
  <1> QED
    BY <1>2, <1>3, <1>4, <1>5

\* The innermost call goes on, and remains the innermost.
LEMMA UpdateStep ==
    ASSUME StackInv, stack # <<>>, NEW g, Update(g),
           FrameInv(g), g.pc # "nested", g.source = Top.source,
           Len(stack) = 1 => OuterInv(g),
           g.pc = "descend" => contents'[g.handle.slot] \in Payloads,
           RingTypes', UNCHANGED <<root, result>>
    PROVE  /\ StackInv' /\ stack' # <<>>
           /\ OpenHandles' = Below \cup ({g.handle} \ {NoHandle})
           /\ Len(stack') = Len(stack) /\ stack'[Len(stack)] = g
           /\ \A k \in 1 .. Len(stack) - 1 : stack'[k] = stack[k]
  <1>1. /\ IsList(stack') /\ stack' # <<>>
        /\ Len(stack) \in Nat \ {0} /\ Len(stack') = Len(stack)
        /\ stack'[Len(stack)] = g
        /\ \A k \in 1 .. Len(stack) - 1 : stack'[k] = stack[k]
    BY UpdatedStack DEF StackInv
  <1> DEFINE n == Len(stack)
  <1>2. \A k \in 1 .. n : FrameInv(stack'[k])
    BY <1>1 DEF StackInv
  <1>3. \A k \in 1 .. n : stack'[k].pc = "nested" <=> k < n
    BY <1>1 DEF StackInv
  <1>4. ASSUME NEW k \in 2 .. n
        PROVE  stack'[k].source = stack'[k - 1].handle
    <2>1. stack[k].source = stack[k - 1].handle /\ stack'[k - 1] = stack[k - 1]
      BY <1>1 DEF StackInv
    <2>2. stack'[k].source = stack[k].source
      BY <1>1 DEF Top
    <2> QED
      BY <2>1, <2>2
  <1>5. OuterInv(stack'[1])
    BY <1>1 DEF StackInv
  <1>6. ASSUME NEW k \in 1 .. n, stack'[k].pc = "descend"
        PROVE  contents'[stack'[k].handle.slot] \in Payloads
    BY <1>1, <1>3, <1>6
  <1>7. StackInv'
    BY <1>1, <1>2, <1>3, <1>4, <1>5, <1>6
       DEF StackInv, OuterInv
  <1>8. OpenHandles' = Below \cup ({g.handle} \ {NoHandle})
    BY <1>1 DEF OpenHandles, Below
  <1> QED
    BY <1>1, <1>7, <1>8

LEMMA FailStep ==
    ASSUME StackInv, Fail, RingTypes', UNCHANGED root
    PROVE  StackInv' /\ OpenHandles' = {} /\ stack' = <<>>
  <1>1. stack' = <<>> /\ result' = "error"
    BY DEF Fail
  <1>2. IsList(<<>>) /\ Len(<<>>) = 0
    <2>1. <<>> \in Seq({})
      OBVIOUS
    <2> QED
      BY <2>1, IsListIfSeq
  <1>3. StackInv'
    BY <1>1, <1>2 DEF StackInv
  <1> QED
    BY <1>1, <1>2, <1>3 DEF OpenHandles

LEMMA PushedStack ==
    ASSUME IsList(stack), stack # <<>>, NEW f, NEW g,
           stack' = Append([stack EXCEPT ![Len(stack)] = f], g)
    PROVE  /\ IsList(stack') /\ stack' # <<>>
           /\ Len(stack) \in Nat \ {0} /\ Len(stack') = Len(stack) + 1
           /\ stack'[Len(stack) + 1] = g /\ stack'[Len(stack)] = f
           /\ \A k \in 1 .. Len(stack) - 1 : stack'[k] = stack[k]
  <1> DEFINE s == [stack EXCEPT ![Len(stack)] = f]
             n == Len(stack)
  <1>1. /\ IsList(s) /\ s[n] = f
        /\ \A k \in 1 .. n - 1 : s[k] = stack[k]
    <2>1. IsList(s) /\ s[n] = f
      BY ReplaceLast
    <2>2. \A k \in 1 .. n - 1 : s[k] = stack[k]
      BY ReplaceLast
    <2> QED
      BY <2>1, <2>2
  <1>2. n \in Nat \ {0} /\ Len(s) = n
    <2>1. Len(s) = n
      BY ReplaceLast
    <2> QED
      BY <2>1, NotEmpty
  <1> HIDE DEF s, n
  <1>3. IsList(stack') /\ Len(stack') = n + 1 /\ stack' # <<>>
    <2>1. stack' = Append(s, g)
      BY DEF s, n
    <2>2. IsList(stack')
      BY <1>1, <2>1, Push
    <2>3. Len(stack') = n + 1
      BY <1>1, <1>2, <2>1, Push
    <2>4. stack' # <<>>
      BY <1>1, <2>1, Push
    <2> QED
      BY <2>2, <2>3, <2>4
  <1>4. stack'[n + 1] = g /\ stack'[n] = f /\ \A k \in 1 .. n - 1 : stack'[k] = stack[k]
    <2>1. stack' = Append(s, g)
      BY DEF s, n
    <2>2. stack'[n + 1] = g
      BY <1>1, <1>2, <2>1, Push
    <2>3. \A k \in 1 .. n : stack'[k] = s[k]
      BY <1>1, <1>2, <2>1, Push
    <2>4. n \in 1 .. n /\ 1 .. n - 1 \subseteq 1 .. n
      BY <1>2
    <2>5. stack'[n] = f
      BY <1>1, <2>3, <2>4, Zenon
    <2>6. \A k \in 1 .. n - 1 : stack'[k] = stack[k]
      BY <1>1, <2>3, <2>4, Zenon
    <2> QED
      BY <2>2, <2>5, <2>6
  <1> QED
    BY <1>2, <1>3, <1>4 DEF n

\* A call begins inside the innermost one, which waits for it.
LEMMA PushStep ==
    ASSUME StackInv, stack # <<>>, NEW f, NEW g,
           stack' = Append([stack EXCEPT ![Len(stack)] = f], g),
           FrameInv(f), f.pc = "nested", f.source = Top.source, f.handle = Top.handle,
           Len(stack) = 1 => OuterInv(f),
           FrameInv(g), g.pc = "index", g.source = f.handle, g.handle = NoHandle,
           RingTypes', UNCHANGED <<root, result>>
    PROVE  StackInv' /\ OpenHandles' = OpenHandles
  <1> DEFINE n == Len(stack)
  <1>1. /\ IsList(stack') /\ stack' # <<>>
        /\ n \in Nat \ {0} /\ Len(stack') = n + 1
        /\ stack'[n + 1] = g /\ stack'[n] = f
        /\ \A k \in 1 .. n - 1 : stack'[k] = stack[k]
    BY PushedStack DEF StackInv
  <1>2. n \in Nat \ {0}
    BY <1>1
  <1> HIDE DEF n
  <1>3. IsList(stack') /\ Len(stack') = n + 1 /\ stack' # <<>>
    BY <1>1
  <1>4. stack'[n + 1] = g /\ stack'[n] = f /\ \A k \in 1 .. n - 1 : stack'[k] = stack[k]
    BY <1>1
  <1>5. \A k \in 1 .. n + 1 : FrameInv(stack'[k])
    BY <1>2, <1>4 DEF StackInv, n
  <1>6. \A k \in 1 .. n + 1 : stack'[k].pc = "nested" <=> k < n + 1
    BY <1>2, <1>4 DEF StackInv, n
  <1>7. ASSUME NEW k \in 2 .. n + 1
        PROVE  stack'[k].source = stack'[k - 1].handle
    <2>1. CASE k = n + 1
      <3>1. k - 1 = n
        BY <1>2, <2>1
      <3>2. stack'[k - 1] = f /\ stack'[k] = g
        BY <1>4, <2>1, <3>1
      <3> QED
        BY <3>2
    <2>2. CASE k # n + 1
      <3>1. stack[k].source = stack[k - 1].handle /\ stack'[k - 1] = stack[k - 1]
        BY <1>2, <1>4, <2>2 DEF StackInv, n
      <3>2. stack'[k].source = stack[k].source
        BY <1>2, <1>4, <2>2 DEF Top, n
      <3> QED
        BY <3>1, <3>2
    <2> QED
      BY <2>1, <2>2
  <1>8. OuterInv(stack'[1])
    BY <1>2, <1>4 DEF StackInv, n
  <1> \A k \in 1 .. n + 1 : stack'[k].pc # "descend"
    BY <1>2, <1>4, <1>6
  <1>9. StackInv'
    BY <1>3, <1>5, <1>6, <1>7, <1>8
       DEF StackInv, OuterInv
  <1>10. OpenHandles' = OpenHandles
    <2>1. \A k \in 1 .. n : stack'[k].handle = stack[k].handle
      BY <1>2, <1>4 DEF Top, n
    <2>2. 1 .. n + 1 = (1 .. n) \cup {n + 1}
      BY <1>2
    <2>3. OpenHandles' = {stack'[k].handle : k \in 1 .. n + 1} \ {NoHandle}
      BY <1>3 DEF OpenHandles
    <2>4. OpenHandles = {stack[k].handle : k \in 1 .. n} \ {NoHandle}
      BY DEF OpenHandles, n
    <2>5. OpenHandles' = ({stack'[k].handle : k \in 1 .. n} \cup {g.handle}) \ {NoHandle}
      BY <1>4, <2>2, <2>3
    <2>6. {stack'[k].handle : k \in 1 .. n} = {stack[k].handle : k \in 1 .. n}
      BY <2>1
    <2> QED
      BY <2>4, <2>5, <2>6
  <1> QED
    BY <1>9, <1>10

LEMMA PoppedStack ==
    ASSUME IsList(stack), Len(stack) # 1, stack # <<>>, NEW f,
           stack' = [SubSeq(stack, 1, Len(stack) - 1) EXCEPT ![Len(stack) - 1] = f]
    PROVE  \E n \in Nat \ {0} :
              /\ n + 1 = Len(stack)
              /\ IsList(stack') /\ stack' # <<>> /\ Len(stack') = n /\ stack'[n] = f
              /\ \A k \in 1 .. n - 1 : stack'[k] = stack[k]
  <1> DEFINE s == SubSeq(stack, 1, Len(stack) - 1)
  <1> PICK n \in Nat : n + 1 = Len(stack)
    <2>1. Len(stack) \in Nat \ {0}
      BY NotEmpty
    <2> HIDE DEF s
    <2>2. Len(stack) - 1 \in Nat /\ (Len(stack) - 1) + 1 = Len(stack)
      BY <2>1
    <2> QED
      BY <2>2
  <1>1. n # 0 /\ Len(stack) - 1 = n
    OBVIOUS
  <1>2. IsList(s) /\ Len(s) = n /\ s # <<>>
    <2>1. IsList(s) /\ Len(s) = Len(stack) - 1
      BY Pop
    <2>2. Len(s) = n
      BY <2>1
    <2>3. s # <<>>
      BY <1>1, <2>2
    <2> QED
      BY <2>1, <2>2, <2>3
  <1>3. \A k \in 1 .. n : s[k] = stack[k]
    <2>1. \A k \in 1 .. Len(stack) - 1 : s[k] = stack[k]
      BY Pop
    <2> QED
      BY <2>1
  <1>4. stack' = [s EXCEPT ![n] = f]
    BY <1>1
  <1> HIDE DEF s
  <1>5. IsList(stack') /\ stack' # <<>> /\ stack'[n] = f
    <2>1. stack' = [s EXCEPT ![Len(s)] = f]
      BY <1>2, <1>4
    <2>2. IsList(stack') /\ stack' # <<>>
      BY <1>2, <2>1, ReplaceLast, SMTT(60)
    <2>3. stack'[Len(s)] = f
      BY <1>2, <2>1, ReplaceLast
    <2> QED
      BY <1>2, <2>2, <2>3
  <1>6. Len(stack') = n
    BY <1>2, <1>4, ReplaceLast
  <1>7. \A k \in 1 .. n - 1 : stack'[k] = stack[k]
    <2>1. \A k \in 1 .. n - 1 : stack'[k] = s[k]
      BY <1>2, <1>4, ReplaceLast
    <2> QED
      BY <1>3, <2>1
  <1> QED
    BY <1>1, <1>5, <1>6, <1>7

\* The innermost call returns, and its caller goes on.
LEMMA PopStep ==
    ASSUME StackInv, Len(stack) # 1, stack # <<>>, NEW f,
           f = [stack[Len(stack) - 1] EXCEPT !.pc = "write"],
           stack' = [SubSeq(stack, 1, Len(stack) - 1) EXCEPT ![Len(stack) - 1] = f],
           RingTypes', UNCHANGED <<root, result>>
    PROVE  /\ StackInv' /\ OpenHandles' \subseteq OpenHandles
           /\ stack' # <<>> /\ Len(stack') = Len(stack) - 1 /\ stack'[Len(stack')] = f
           /\ \A k \in 1 .. Len(stack') - 1 : stack'[k] = stack[k]
  <1> PICK n \in Nat \ {0} :
              /\ n + 1 = Len(stack)
              /\ IsList(stack') /\ stack' # <<>> /\ Len(stack') = n /\ stack'[n] = f
              /\ \A k \in 1 .. n - 1 : stack'[k] = stack[k]
    BY PoppedStack, ZenonT(60) DEF StackInv
  <1>1. Len(stack) - 1 = n
    OBVIOUS
  <1>2. IsList(stack') /\ stack' # <<>> /\ stack'[n] = f
    OBVIOUS
  <1>3. Len(stack') = n
    OBVIOUS
  <1>4. \A k \in 1 .. n - 1 : stack'[k] = stack[k]
    OBVIOUS
  <1>5. /\ FrameInv(stack[n]) /\ stack[n].pc = "nested"
        /\ f = [stack[n] EXCEPT !.pc = "write"]
    BY <1>1 DEF StackInv
  <1>6. /\ FrameInv(f) /\ f.pc = "write"
        /\ f.source = stack[n].source /\ f.handle = stack[n].handle
        /\ f.archive = stack[n].archive
    BY <1>5 DEF FrameInv, IsFrame, Entries, PC
  <1>7. \A k \in 1 .. n : FrameInv(stack'[k])
    <2>1. \A k \in 1 .. n - 1 : FrameInv(stack[k])
      BY <1>1 DEF StackInv
    <2> QED
      BY <1>2, <1>4, <1>6, <2>1
  <1>8. \A k \in 1 .. n : stack'[k].pc = "nested" <=> k < n
    <2>1. \A k \in 1 .. n - 1 : stack[k].pc = "nested"
      BY <1>1 DEF StackInv
    <2> QED
      BY <1>2, <1>4, <1>6, <2>1
  <1>9. ASSUME NEW k \in 2 .. n
         PROVE  stack'[k].source = stack'[k - 1].handle
    <2>1. stack[k].source = stack[k - 1].handle
      BY DEF StackInv
    <2>2. stack'[k].source = stack[k].source
      BY <1>2, <1>4, <1>6
    <2>3. stack'[k - 1] = stack[k - 1]
      BY <1>4
    <2> QED
      BY <2>1, <2>2, <2>3
  <1>10. OuterInv(stack'[1])
    <2>1. OuterInv(stack[1])
      BY DEF StackInv
    <2>2. CASE n = 1
      BY <1>2, <1>6, <2>1, <2>2 DEF OuterInv
    <2>3. CASE n # 1
      BY <1>1, <1>4, <2>1, <2>3, SMTT(60)
    <2> QED
      BY <2>2, <2>3
  <1> \A k \in 1 .. n : stack'[k].pc # "descend"
    BY <1>2, <1>6, <1>8
  <1>11. StackInv'
    BY <1>2, <1>3, <1>7, <1>8, <1>9, <1>10
       DEF StackInv, OuterInv
  <1>12. OpenHandles' \subseteq OpenHandles
    <2>1. \A k \in 1 .. n : stack'[k].handle = stack[k].handle
      BY <1>2, <1>4, <1>6
    <2> QED
      BY <1>3, <2>1 DEF OpenHandles
  <1> QED
    BY <1>2, <1>3, <1>4, <1>11, <1>12

-----------------------------------------------------------------------------
(* Every action keeps StackInv and is a step of the pool or of a client.   *)

PoolStep == [Pool!Next]_(Pool!vars)

LEMMA ParsedFacts ==
    ASSUME NEW p \in Payloads
    PROVE  /\ Bytes[p].size \in PayloadSizes
           /\ Len(Bytes[p].entries) \in Nat
           /\ \A k \in 1 .. Len(Bytes[p].entries) : Bytes[p].entries[k].payload \in Payloads
  <1>1. Bytes[p] \in Parsed
    BY UnpackAssumption
  <1>2. Bytes[p].entries \in Seq(Entry)
    BY <1>1 DEF Parsed
  <1>3. \A k \in 1 .. Len(Bytes[p].entries) : Bytes[p].entries[k] \in Entry
    BY <1>2
  <1> QED
    BY <1>2, <1>3 DEF Entry, PayloadSizes

LEMMA TopFacts ==
    ASSUME StackInv, stack # <<>>
    PROVE  /\ FrameInv(Top) /\ Top.pc # "nested"
           /\ Len(stack) = 1 => OuterInv(Top)
  <1>1. Len(stack) \in Nat \ {0}
    BY NotEmpty DEF StackInv
  <1> QED
    BY <1>1 DEF StackInv, Top

\* Handles go out of scope, or nothing happens to them.
LEMMA HandleStep ==
    ASSUME UNCHANGED poolVars, OpenHandles' \subseteq OpenHandles
    PROVE  PoolStep
  <1>1. Pool!Release
    BY DEF Pool!Release, Pool!poolVars, poolVars
  <1> QED
    BY <1>1 DEF PoolStep, Pool!Next

LEMMA QuietUpdate ==
    ASSUME StackInv, stack # <<>>, NEW g, Update(g),
           FrameInv(g), g.pc # "nested", g.source = Top.source,
           Len(stack) = 1 => OuterInv(g),
           g.handle \in {Top.handle, NoHandle},
           g.pc = "descend" => contents'[g.handle.slot] \in Payloads,
           contents' \in [Slots -> Payloads \cup {Stale}],
           UNCHANGED poolVars, UNCHANGED <<root, result>>
    PROVE  StackInv' /\ PoolStep
  <1>1. RingTypes'
    BY DEF StackInv, RingTypes, poolVars
  <1>2. StackInv' /\ OpenHandles' = Below \cup ({g.handle} \ {NoHandle})
    BY <1>1, UpdateStep
  <1>3. OpenHandles' \subseteq OpenHandles
    BY <1>2, HandlesSplit
  <1> QED
    BY <1>2, <1>3, HandleStep

LEMMA QuietFail ==
    ASSUME StackInv, Fail, UNCHANGED poolVars, UNCHANGED <<root, contents>>
    PROVE  StackInv' /\ PoolStep
  <1>1. RingTypes'
    BY DEF StackInv, RingTypes, poolVars
  <1>2. StackInv' /\ OpenHandles' = {}
    BY <1>1, FailStep
  <1> QED
    BY <1>2, HandleStep

LEMMA OpenStep ==
    ASSUME StackInv, Open
    PROVE  StackInv' /\ PoolStep
  <1>1. /\ stack # <<>> /\ Top.pc = "open" /\ UNCHANGED poolVars
        /\ UNCHANGED <<root, contents>> /\ contents \in [Slots -> Payloads \cup {Stale}]
    BY DEF Open, At, StackInv, RingTypes
  <1>2. CASE Fail
    BY <1>1, <1>2, QuietFail
  <1>3. CASE Update([Top EXCEPT !.pc = "index"]) /\ UNCHANGED result
    <2> DEFINE g == [Top EXCEPT !.pc = "index"]
    <2>1. FrameInv(Top) /\ (Len(stack) = 1 => OuterInv(Top))
      BY <1>1, TopFacts
    <2>2. FrameInv(g) /\ g.pc = "index" /\ g.source = Top.source /\ g.handle = Top.handle
      BY <1>1, <2>1 DEF FrameInv, IsFrame, Entries, PC
    <2>3. Len(stack) = 1 => OuterInv(g)
      BY <2>1, <2>2 DEF OuterInv, FrameInv, IsFrame
    <2> HIDE DEF g
    <2>4. Update(g)
      BY <1>3 DEF g
    <2> QED
      BY <1>1, <1>3, <2>2, <2>3, <2>4, QuietUpdate
  <1> QED
    BY <1>2, <1>3 DEF Open

LEMMA ParseIndexStep ==
    ASSUME StackInv, ParseIndex
    PROVE  StackInv' /\ PoolStep
  <1>1. /\ stack # <<>> /\ Top.pc = "index" /\ UNCHANGED poolVars
        /\ UNCHANGED <<root, contents>> /\ contents \in [Slots -> Payloads \cup {Stale}]
    BY DEF ParseIndex, At, StackInv, RingTypes
  <1>2. CASE Fail
    BY <1>1, <1>2, QuietFail
  <1>3. ASSUME NEW seen \in IF SourceGood(Top) THEN {Top.archive} ELSE Residue,
               Update([Top EXCEPT !.archive = seen, !.pc = "entry"]), UNCHANGED result
        PROVE  StackInv' /\ PoolStep
    <2> DEFINE g == [Top EXCEPT !.archive = seen, !.pc = "entry"]
    <2>1. FrameInv(Top) /\ (Len(stack) = 1 => OuterInv(Top))
      BY <1>1, TopFacts
    <2>2. seen \in Payloads
      BY <2>1, UnpackAssumption DEF FrameInv, IsFrame
    <2>3. Len(Bytes[seen].entries) \in Nat
      BY <2>2, ParsedFacts
    <2>4. /\ IsFrame(g) /\ g.pc = "entry" /\ g.source = Top.source /\ g.handle = Top.handle
          /\ g.next = 1 /\ g.archive = seen
      BY <1>1, <2>1, <2>2 DEF FrameInv, IsFrame, PC
    <2>5. FrameInv(g)
      BY <1>1, <2>1, <2>3, <2>4 DEF FrameInv, Entries
    <2>6. Len(stack) = 1 => OuterInv(g)
      BY <2>1, <2>4 DEF OuterInv, SourceGood
    <2> HIDE DEF g
    <2>7. Update(g)
      BY <1>3 DEF g
    <2> QED
      BY <1>1, <1>3, <2>4, <2>5, <2>6, <2>7, QuietUpdate
  <1> QED
    BY <1>2, <1>3 DEF ParseIndex

LEMMA NextInRing == \A c \in Slots : (c + 1) % SlotCount \in Slots
  BY UnpackAssumption, SMT DEF Slots

\* The only action that acquires a buffer, for a call that held none.
LEMMA ReadChunkStep ==
    ASSUME StackInv, ReadChunk
    PROVE  StackInv' /\ PoolStep
  <1>1. /\ stack # <<>> /\ Top.pc = "entry" /\ UNCHANGED <<root, contents>>
        /\ Top.next <= Len(Entries(Top))
    BY DEF ReadChunk, At
  <1>2. CASE Fail /\ UNCHANGED poolVars
    BY <1>1, <1>2, QuietFail
  <1> DEFINE size == Bytes[Current(Top).payload].size
  <1>3. CASE /\ acquires < MaxAcquires
             /\ Pool!AcquireSlot(size)
             /\ Update([Top EXCEPT !.handle = Pool!NewHandle(size), !.pc = "copy"])
             /\ UNCHANGED result
    <2> PICK h : h = Pool!NewHandle(size)
      OBVIOUS
    <2> DEFINE g == [Top EXCEPT !.handle = h, !.pc = "copy"]
    <2>1. FrameInv(Top) /\ (Len(stack) = 1 => OuterInv(Top))
      BY <1>1, TopFacts
    <2>2. Current(Top).payload \in Payloads
      BY <1>1, <2>1, ParsedFacts DEF FrameInv, IsFrame, Entries, Current
    <2>3. size \in PayloadSizes
      BY <2>2, ParsedFacts
    <2>4. acquires \in Nat /\ acquires' = acquires + 1 /\ RingTypes' /\ cursor \in Slots
      BY <1>1, <1>3, NextInRing DEF StackInv, RingTypes, Pool!AcquireSlot
    <2>5. h.size = size /\ h.serial = acquires' /\ h.slot = cursor
      BY DEF Pool!NewHandle
    <2>6. h # NoHandle
      BY <2>4, <2>5 DEF NoHandle
    <2>7. /\ IsFrame(g) /\ g.pc = "copy" /\ g.source = Top.source /\ g.handle = h
          /\ g.next = Top.next /\ g.archive = Top.archive
      BY <2>1 DEF FrameInv, IsFrame, PC
    <2>8. FrameInv(g)
      BY <1>1, <2>1, <2>3, <2>4, <2>5, <2>7 DEF FrameInv, Entries
    <2>9. Len(stack) = 1 => OuterInv(g)
      BY <2>1, <2>7 DEF OuterInv
    <2> HIDE DEF g
    <2>10. Update(g)
      BY <1>3 DEF g
    <2>11. StackInv' /\ OpenHandles' = Below \cup ({h} \ {NoHandle})
      BY <1>1, <1>3, <2>4, <2>7, <2>8, <2>9, <2>10, UpdateStep
    <2>12. OpenHandles = Below
      BY <1>1, <2>1, HandlesSplit DEF FrameInv
    <2>13. OpenHandles' = OpenHandles \cup {h}
      BY <2>6, <2>11, <2>12
    <2>14. Pool!Acquire(size)
      BY <1>3, <2>13 DEF Pool!Acquire
    <2>15. PoolStep
      BY <2>3, <2>14 DEF PoolStep, Pool!Next
    <2> QED
      BY <2>11, <2>15
  <1> QED
    BY <1>2, <1>3 DEF ReadChunk

LEMMA CopyChunkStep ==
    ASSUME StackInv, CopyChunk
    PROVE  StackInv' /\ PoolStep
  <1>1. stack # <<>> /\ Top.pc = "copy" /\ UNCHANGED poolVars /\ UNCHANGED root
    BY DEF CopyChunk, At
  <1>2. CASE Fail /\ UNCHANGED contents
    BY <1>1, <1>2, QuietFail
  <1>3. ASSUME NEW seen \in IF SourceGood(Top) THEN {Current(Top).payload} ELSE Residue,
               contents' = [contents EXCEPT ![Top.handle.slot] = seen],
               Update([Top EXCEPT !.pc = IF Current(Top).nested \/ Bytes[seen].vec
                                           THEN "descend" ELSE "write"]),
               UNCHANGED result
        PROVE  StackInv' /\ PoolStep
    <2> PICK pc : pc = IF Current(Top).nested \/ Bytes[seen].vec THEN "descend" ELSE "write"
      OBVIOUS
    <2> DEFINE g == [Top EXCEPT !.pc = pc]
    <2>1. FrameInv(Top) /\ (Len(stack) = 1 => OuterInv(Top))
      BY <1>1, TopFacts
    <2>2. pc \in {"descend", "write"}
      OBVIOUS
    <2>3. /\ IsFrame(g) /\ g.pc = pc /\ g.source = Top.source /\ g.handle = Top.handle
          /\ g.next = Top.next /\ g.archive = Top.archive
      BY <2>1, <2>2 DEF FrameInv, IsFrame, PC
    <2>4. FrameInv(g) /\ g.pc # "nested"
      BY <1>1, <2>1, <2>2, <2>3 DEF FrameInv, Entries
    <2>5. Current(g) = Current(Top)
      BY <2>3 DEF Current, Entries
    <2>6. Len(stack) = 1 => OuterInv(g)
      BY <2>1, <2>3, <2>5 DEF OuterInv, SourceGood, IsContainer
    <2> HIDE DEF g
    <2>7. Update(g)
      BY <1>3 DEF g
    <2>8. seen \in Payloads
      BY <1>1, <2>1, ParsedFacts, UnpackAssumption DEF FrameInv, IsFrame, Entries, Current
    <2>9. contents \in [Slots -> Payloads \cup {Stale}] /\ Top.handle.slot \in Slots
      BY <1>1, <2>1 DEF StackInv, RingTypes, FrameInv
    <2>10. /\ contents' \in [Slots -> Payloads \cup {Stale}]
           /\ contents'[g.handle.slot] \in Payloads
      BY <1>3, <2>3, <2>8, <2>9
    <2> QED
      BY <1>1, <1>3, <2>3, <2>4, <2>6, <2>7, <2>10, QuietUpdate
  <1> QED
    BY <1>2, <1>3 DEF CopyChunk

\* Recycling is asked for with the size of a handle, at a depth within the limit.
LEMMA DescendStep ==
    ASSUME StackInv, Descend
    PROVE  StackInv' /\ PoolStep
  <1>1. stack # <<>> /\ Top.pc = "descend" /\ UNCHANGED <<root, contents>>
    BY DEF Descend, At
  <1>2. CASE Fail /\ UNCHANGED poolVars
    BY <1>1, <1>2, QuietFail
  <1>3. CASE /\ ~(Top.depth + 1 > MaxNestedDepth)
             /\ Pool!RecycleSlots(Top.handle.size, Top.depth + 1)
             /\ EnterNested
    <2> DEFINE f == [Top EXCEPT !.pc = "nested"]
    <2> PICK dir : dir = IF extract
                           THEN NestedDir(SafeOutputPath(Top.dir, Current(Top).name))
                           ELSE Top.dir
      OBVIOUS
    <2> PICK parsed : parsed = contents[Top.handle.slot]
      OBVIOUS
    <2> DEFINE g == Frame(Top.handle, parsed, Top.depth + 1, dir, "index")
    <2>1. FrameInv(Top) /\ (Len(stack) = 1 => OuterInv(Top))
      BY <1>1, TopFacts
    <2>2. Top.depth + 1 \in 0 .. MaxNestedDepth /\ Top.depth + 1 \in 1 .. MaxNestedDepth
      BY <1>3, <2>1, UnpackAssumption DEF FrameInv, IsFrame
    <2>3. /\ IsFrame(f) /\ f.pc = "nested" /\ f.source = Top.source /\ f.handle = Top.handle
          /\ f.next = Top.next /\ f.archive = Top.archive
      BY <2>1 DEF FrameInv, IsFrame, PC
    <2>4. FrameInv(f)
      BY <1>1, <2>1, <2>3 DEF FrameInv, Entries
    <2>5. Current(f) = Current(Top)
      BY <2>3 DEF Current, Entries
    <2>6. Len(stack) = 1 => OuterInv(f)
      BY <1>1, <2>1, <2>3, <2>5 DEF OuterInv
    <2>7. parsed \in Payloads
      <3>1. Len(stack) \in Nat \ {0}
        BY <1>1, NotEmpty DEF StackInv
      <3> QED
        BY <1>1, <3>1 DEF StackInv, Top
    <2>8. /\ IsFrame(g) /\ g.pc = "index" /\ g.source = Top.handle /\ g.handle = NoHandle
          /\ g.next = 1 /\ g.archive = parsed
      BY <2>2, <2>7 DEF IsFrame, Frame, PC
    <2>9. FrameInv(g)
      BY <2>7, <2>8, ParsedFacts DEF FrameInv, Entries
    <2>10. UNCHANGED <<cursor, acquires>>
      BY <1>3 DEF Pool!RecycleSlots, Pool!Shrink, Pool!poolVars
    <2>11. RingTypes'
      BY <1>1, <2>10 DEF RingTypes, StackInv
    <2>12. stack' = Append([stack EXCEPT ![Len(stack)].pc = "nested"], g) /\ UNCHANGED result
      BY <1>3 DEF EnterNested
    <2>13. [stack EXCEPT ![Len(stack)].pc = "nested"] = [stack EXCEPT ![Len(stack)] = f]
      BY DEF Top
    <2>14. Top.handle.size \in PayloadSizes
      BY <1>1, <2>1 DEF FrameInv
    <2> HIDE DEF f, g
    <2>15. StackInv' /\ OpenHandles' = OpenHandles
      BY <1>1, <2>3, <2>4, <2>6, <2>8, <2>9, <2>11, <2>12, <2>13, PushStep
    <2>16. Pool!RecycleForNested(Top.handle.size, Top.depth + 1)
      BY <1>3, <2>15 DEF Pool!RecycleForNested
    <2>17. PoolStep
      BY <2>2, <2>14, <2>16 DEF PoolStep, Pool!Next
    <2> QED
      BY <2>15, <2>17
  <1> QED
    BY <1>2, <1>3 DEF Descend

LEMMA WriteFileStep ==
    ASSUME StackInv, WriteFile
    PROVE  StackInv' /\ PoolStep
  <1>1. /\ stack # <<>> /\ Top.pc = "write" /\ UNCHANGED poolVars
        /\ UNCHANGED <<root, contents>> /\ contents \in [Slots -> Payloads \cup {Stale}]
    BY DEF WriteFile, At, StackInv, RingTypes
  <1> DEFINE g == [Top EXCEPT !.next = @ + 1, !.handle = NoHandle, !.pc = "entry"]
  <1>2. CASE Fail
    BY <1>1, <1>2, QuietFail
  <1>3. CASE Update(g) /\ UNCHANGED result
    <2>1. FrameInv(Top) /\ (Len(stack) = 1 => OuterInv(Top))
      BY <1>1, TopFacts
    <2>2. /\ IsFrame(g) /\ g.pc = "entry" /\ g.source = Top.source /\ g.handle = NoHandle
          /\ g.next = Top.next + 1 /\ g.archive = Top.archive
      <3>1. IsFrame(Top)
        BY <2>1 DEF FrameInv
      <3> PICK n \in Nat \ {0} : n = Top.next + 1
        BY <3>1 DEF IsFrame
      <3>2. g = [Top EXCEPT !.next = n, !.handle = NoHandle, !.pc = "entry"]
        OBVIOUS
      <3> HIDE DEF g
      <3> QED
        BY <3>1, <3>2 DEF IsFrame, PC
    <2>3. Len(Entries(Top)) \in Nat /\ Top.next \in Nat
      BY <2>1, ParsedFacts DEF FrameInv, IsFrame, Entries
    <2>4. FrameInv(g)
      BY <1>1, <2>1, <2>2, <2>3 DEF FrameInv, Entries
    <2>5. Len(stack) = 1 => OuterInv(g)
      BY <2>1, <2>2 DEF OuterInv
    <2> HIDE DEF g
    <2> QED
      BY <1>1, <1>3, <2>2, <2>4, <2>5, QuietUpdate
  <1> QED
    BY <1>2, <1>3 DEF WriteFile

LEMMA ParseExtensionStep ==
    ASSUME StackInv, ParseExtension
    PROVE  StackInv' /\ PoolStep
  <1>1. /\ stack # <<>> /\ UNCHANGED poolVars /\ UNCHANGED <<root, contents>>
        /\ RingTypes'
    BY DEF ParseExtension, At, StackInv, RingTypes, poolVars
  <1>2. CASE Fail
    BY <1>1, <1>2, QuietFail
  <1>3. CASE stack' = <<>> /\ result' = "ok"
    <2>1. IsList(<<>>) /\ Len(<<>>) = 0
      <3>1. <<>> \in Seq({})
        OBVIOUS
      <3> QED
        BY <3>1, IsListIfSeq
    <2>2. StackInv'
      BY <1>1, <1>3, <2>1 DEF StackInv
    <2>3. OpenHandles' = {}
      BY <1>3, <2>1 DEF OpenHandles
    <2> QED
      BY <1>1, <2>2, <2>3, HandleStep
  <1>4. CASE /\ Len(stack) # 1
             /\ stack' = [SubSeq(stack, 1, Len(stack) - 1)
                            EXCEPT ![Len(stack) - 1].pc = "write"]
             /\ UNCHANGED result
    <2> DEFINE f == [stack[Len(stack) - 1] EXCEPT !.pc = "write"]
    <2>1. SubSeq(stack, 1, Len(stack) - 1)[Len(stack) - 1] = stack[Len(stack) - 1]
      <3>1. IsList(stack)
        BY DEF StackInv
      <3>2. Len(stack) - 1 \in 1 .. Len(stack) - 1
        <4>1. Len(stack) \in Nat \ {0}
          BY <1>1, <3>1, NotEmpty
        <4>2. Len(stack) # 1
          BY <1>4
        <4> PICK n : n = Len(stack)
          OBVIOUS
        <4>3. n \in Nat \ {0} /\ n # 1
          BY <4>1, <4>2
        <4>4. n - 1 \in 1 .. n - 1
          BY <4>3
        <4> QED
          BY <4>4
      <3>3. \A k \in 1 .. Len(stack) - 1 : SubSeq(stack, 1, Len(stack) - 1)[k] = stack[k]
        BY <1>1, <3>1, Pop
      <3> QED
        BY <3>2, <3>3
    <2>2. stack' = [SubSeq(stack, 1, Len(stack) - 1) EXCEPT ![Len(stack) - 1] = f]
      BY <1>4, <2>1
    <2> HIDE DEF f
    <2>3. StackInv' /\ OpenHandles' \subseteq OpenHandles
      <3>1. f = [stack[Len(stack) - 1] EXCEPT !.pc = "write"]
        BY DEF f
      <3> QED
        BY <1>1, <1>4, <2>2, <3>1, PopStep
    <2> QED
      BY <1>1, <2>3, HandleStep
  <1> QED
    BY <1>2, <1>3, <1>4 DEF ParseExtension

LEMMA Start ==
    ASSUME Init
    PROVE  StackInv /\ Pool!Init
  <1> DEFINE f == Frame(NoHandle, root, FirstDepth, <<>>, IF extract THEN "open" ELSE "index")
  <1>1. root \in Payloads /\ result = "running"
    BY UnpackAssumption DEF Init
  <1>2. FirstDepth \in 0 .. MaxNestedDepth
    BY UnpackAssumption DEF FirstDepth
  <1>3. /\ IsFrame(f) /\ f.pc \in {"open", "index"} /\ f.handle = NoHandle
        /\ f.source = NoHandle /\ f.next = 1 /\ f.archive = root
    BY <1>1, <1>2 DEF IsFrame, Frame, PC
  <1>4. FrameInv(f)
    BY <1>1, <1>3, ParsedFacts DEF FrameInv, Entries
  <1>5. OuterInv(f)
    BY <1>3 DEF OuterInv
  <1>6. stack = <<f>>
    BY DEF Init
  <1> HIDE DEF f
  <1>7. stack \in Seq({f}) /\ Len(stack) = 1 /\ stack[1] = f /\ stack # <<>>
    BY <1>6
  <1>8. IsList(stack)
    BY <1>7, IsListIfSeq
  <1>9. RingTypes
    BY UnpackAssumption DEF Init, Pool!PoolInit, RingTypes, Slots
  <1>10. StackInv
    BY <1>1, <1>3, <1>4, <1>5, <1>7, <1>8, <1>9 DEF StackInv
  <1>11. OpenHandles = {}
    BY <1>3, <1>7 DEF OpenHandles
  <1> QED
    BY <1>10, <1>11 DEF Init, Pool!Init

LEMMA Step ==
    ASSUME StackInv, [Next]_vars
    PROVE  StackInv' /\ PoolStep
  <1>1. CASE UNCHANGED vars
    <2>1. UNCHANGED poolVars /\ UNCHANGED <<root, contents, stack, result>>
      BY <1>1 DEF vars
    <2>2. StackInv'
      BY <2>1 DEF StackInv, OuterInv, RingTypes, poolVars
    <2>3. OpenHandles' = OpenHandles
      BY <2>1 DEF OpenHandles
    <2> QED
      BY <2>1, <2>2, <2>3, HandleStep
  <1>2. CASE Finished
    BY <1>1, <1>2 DEF Finished
  <1> QED
    BY <1>1, <1>2, OpenStep, ParseIndexStep, ReadChunkStep, CopyChunkStep, DescendStep,
       WriteFileStep, ParseExtensionStep DEF Next

LEMMA StackInvariant == Spec => []StackInv
  <1>1. Init => StackInv
    BY Start
  <1>2. StackInv /\ [Next]_vars => StackInv'
    BY Step
  <1> QED
    BY <1>1, <1>2, PTL DEF Spec

-----------------------------------------------------------------------------
(* The recursion is a client of the pool.                                  *)

\* Extraction uses the ring of buffers by its rules only: one acquire() for a
\* call that holds no handle, recycling, and handles that go out of scope.
THEOREM PoolTheorem == Spec => PoolSpec
  <1>1. Init => Pool!Init
    BY Start
  <1>2. StackInv /\ [Next]_vars => [Pool!Next]_(Pool!vars)
    BY Step DEF PoolStep
  <1> QED
    BY <1>1, <1>2, StackInvariant, PTL DEF Spec, PoolSpec, Pool!Spec

LEMMA PoolConstants == P!PoolAssumption
  <1>1. PayloadSizes \subseteq Nat
    BY UnpackAssumption DEF PayloadSizes, Parsed
  <1> QED
    BY <1>1, UnpackAssumption DEF P!PoolAssumption

LEMMA PoolFacts == Spec => []P!PoolInv
  <1>1. Pool!Spec => P!Spec
    <2>1. Pool!Init => P!Init
      BY DEF Pool!Init, P!Init, Pool!PoolInit, P!PoolInit, Pool!Slots, P!Slots
    <2>2. [Pool!Next]_(Pool!vars) => [P!Next]_(P!vars)
      <3>1. ASSUME NEW size \in PayloadSizes, Pool!Acquire(size)
            PROVE  P!Acquire(size)
        BY <3>1 DEF Pool!Acquire, P!Acquire, Pool!AcquireSlot, P!AcquireSlot,
           Pool!Reallocate, P!Reallocate, Pool!Request, P!Request,
           Pool!NewHandle, P!NewHandle
      <3>2. ASSUME NEW pressure \in PayloadSizes, NEW depth \in 1 .. MaxNestedDepth,
                   Pool!RecycleForNested(pressure, depth)
            PROVE  P!RecycleForNested(pressure, depth)
        <4>1. ASSUME NEW limit, Pool!Shrink(limit)
              PROVE  P!Shrink(limit)
          <5>1. Pool!Oversized(limit) = P!Oversized(limit) /\ Pool!Slots = P!Slots
            BY DEF Pool!Oversized, P!Oversized, Pool!Slots, P!Slots
          <5>2. \A S : Pool!Cardinality(S) = P!Cardinality(S)
            BY DEF Pool!Cardinality, P!Cardinality
          <5> QED
            BY <4>1, <5>1, <5>2 DEF Pool!Shrink, P!Shrink
        <4> QED
          BY <3>2, <4>1 DEF Pool!RecycleForNested, P!RecycleForNested,
             Pool!RecycleSlots, P!RecycleSlots, Pool!Recycles, P!Recycles,
             Pool!RecycleLimit, P!RecycleLimit, Pool!poolVars, P!poolVars
      <3>3. Pool!Release => P!Release
        BY DEF Pool!Release, P!Release, Pool!poolVars, P!poolVars
      <3>4. Pool!vars = P!vars /\ (UNCHANGED Pool!vars => UNCHANGED P!vars)
        BY DEF Pool!vars, P!vars, Pool!poolVars, P!poolVars
      <3> QED
        BY <3>1, <3>2, <3>3, <3>4 DEF Pool!Next, P!Next
    <2> QED
      BY <2>1, <2>2, PTL DEF Pool!Spec, P!Spec
  <1>2. P!Spec => []P!PoolInv
    BY PoolConstants, P!PoolInvariant
  <1> QED
    BY <1>1, <1>2, PoolTheorem, PTL DEF PoolSpec

\* Of every handle that some level of a nested extraction holds: when its slot
\* goes to another level, that generation() tells when its storage is freed, and
\* that it names no bytes outside its storage.
THEOREM HandlesTheorem ==
    Spec => [](Pool!WindowExact /\ Pool!GenerationDetectsFree /\ Pool!HandleFits)
  <1>1. P!PoolInv => Pool!WindowExact /\ Pool!GenerationDetectsFree /\ Pool!HandleFits
    BY DEF P!PoolInv, P!WindowExact, P!GenerationDetectsFree, P!HandleFits,
       Pool!WindowExact, Pool!GenerationDetectsFree, Pool!HandleFits,
       P!Overwritten, P!Freed, Pool!Overwritten, Pool!Freed
  <1> QED
    BY <1>1, PoolFacts, PTL

-----------------------------------------------------------------------------
(* What the outermost call holds, and the files.                           *)

\* From readChunk to writeWholeFile of an entry that is no archive, no buffer is
\* acquired, so that the handle stays intact.
Held(f) ==
    /\ f.pc = "copy" => Pool!Intact(f.handle)
    /\ f.pc = "write" /\ ~IsContainer(Current(f)) =>
          /\ Pool!Intact(f.handle)
          /\ contents[f.handle.slot] = Current(f).payload

HeldInv == stack # <<>> => Held(stack[1])

FilesInv ==
    /\ IsList(written)
    /\ \A k \in 1 .. Len(written) : written[k].bytes \in Payloads \cup {Stale, Torn, Lost}
    /\ OuterFilesExact

Given == root \in Roots /\ entrypoint \in EntryPoint

FullInv == StackInv /\ HeldInv /\ FilesInv /\ Given

LEMMA HeldUpdate ==
    ASSUME StackInv, stack # <<>>, NEW g, Update(g), Len(stack) = 1 => Held(g)'
    PROVE  HeldInv'
  <1>1. /\ Len(stack) \in Nat \ {0}
        /\ stack'[Len(stack)] = g
        /\ \A k \in 1 .. Len(stack) - 1 : stack'[k] = stack[k]
    BY UpdatedStack DEF StackInv
  <1>2. CASE Len(stack) = 1
    BY <1>1, <1>2 DEF HeldInv, Held
  <1>3. CASE Len(stack) # 1
    <2> PICK n : n = Len(stack)
      OBVIOUS
    <2>1. n \in Nat \ {0} /\ n # 1
      BY <1>1, <1>3
    <2>2. 1 \in 1 .. n - 1 /\ 1 \in 1 .. n /\ 1 < n
      BY <2>1
    <2>3. stack'[1] = stack[1]
      BY <1>1, <2>2, Zenon
    <2>4. stack[1].pc = "nested"
      BY <2>2 DEF StackInv
    <2> QED
      BY <2>3, <2>4 DEF HeldInv, Held
  <1> QED
    BY <1>2, <1>3

LEMMA HeldFail == ASSUME Fail PROVE HeldInv'
  BY DEF HeldInv, Fail

\* Files are added one at a time.
LEMMA AppendFile ==
    ASSUME FilesInv, UNCHANGED root, NEW e, written' = Append(written, e),
           e.bytes \in Payloads \cup {Stale, Torn, Lost},
           Len(e.entry) = 1 =>
             (~IsContainer(Bytes[root].entries[e.entry[1]])
                => e.bytes \in {Bytes[root].entries[e.entry[1]].payload, Torn, Lost})
    PROVE  FilesInv'
  <1> DEFINE n == Len(written)
  <1>1. IsList(written)
    BY DEF FilesInv
  <1>2. n \in Nat /\ Len(written') = n + 1 /\ written'[n + 1] = e
    <2>1. n \in Nat
      BY <1>1 DEF IsList
    <2>2. Len(written') = n + 1
      BY <1>1, Push
    <2>3. written'[Len(written')] = e
      BY <1>1, Push
    <2> QED
      BY <2>1, <2>2, <2>3
  <1>3. IsList(written')
    BY <1>1, Push
  <1>4. \A k \in 1 .. n : written'[k] = written[k]
    BY <1>1, Push
  <1> HIDE DEF n
  <1>5. \A k \in 1 .. n + 1 : written'[k].bytes \in Payloads \cup {Stale, Torn, Lost}
    <2>1. \A k \in 1 .. n : written[k].bytes \in Payloads \cup {Stale, Torn, Lost}
      BY DEF FilesInv, n
    <2> QED
      BY <1>2, <1>4, <2>1
  <1>6. ASSUME NEW k \in 1 .. n + 1, Len(written'[k].entry) = 1,
               ~IsContainer(Bytes[root].entries[written'[k].entry[1]])
        PROVE  written'[k].bytes
                 \in {Bytes[root].entries[written'[k].entry[1]].payload, Torn, Lost}
    <2>1. CASE k = n + 1
      BY <1>2, <1>6, <2>1
    <2>2. CASE k # n + 1
      <3>1. k \in 1 .. n /\ written'[k] = written[k]
        BY <1>2, <1>4, <2>2
      <3> QED
        BY <1>6, <3>1 DEF FilesInv, OuterFilesExact, IsContainer, n
    <2> QED
      BY <2>1, <2>2
  <1>7. OuterFilesExact'
    BY <1>2, <1>6 DEF OuterFilesExact, IsContainer
  <1> QED
    BY <1>2, <1>3, <1>5, <1>7 DEF FilesInv

LEMMA SameFiles ==
    ASSUME FilesInv, UNCHANGED <<root, written>>
    PROVE  FilesInv'
  BY DEF FilesInv, OuterFilesExact

LEMMA HeldAfterRead ==
    ASSUME StackInv, P!TypeInvariant, ReadChunk
    PROVE  HeldInv'
  <1>1. stack # <<>>
    BY DEF ReadChunk, At
  <1>2. CASE Fail
    BY <1>2, HeldFail
  <1> DEFINE size == Bytes[Current(Top).payload].size
  <1>3. CASE /\ Pool!AcquireSlot(size)
             /\ Update([Top EXCEPT !.handle = Pool!NewHandle(size), !.pc = "copy"])
    <2> PICK h : h = Pool!NewHandle(size)
      OBVIOUS
    <2> PICK g : g = [Top EXCEPT !.handle = h, !.pc = "copy"]
      OBVIOUS
    <2>1. FrameInv(Top)
      BY <1>1, TopFacts
    <2>2. g.handle = h /\ g.pc = "copy"
      BY <2>1 DEF FrameInv, IsFrame
    <2>3. /\ h.slot = cursor /\ h.storage = storage'[cursor] /\ h.serial = acquires'
      BY DEF Pool!NewHandle
    <2>4. lease'[cursor] = acquires'
      BY <1>3 DEF Pool!AcquireSlot, P!TypeInvariant
    <2>5. Pool!Intact(h)'
      BY <2>3, <2>4 DEF Pool!Intact, Pool!Freed, Pool!Overwritten
    <2>6. Update(g)
      BY <1>3
    <2>7. Held(g)'
      BY <2>2, <2>5 DEF Held
    <2> QED
      BY <1>1, <2>6, <2>7, HeldUpdate
  <1> QED
    BY <1>2, <1>3 DEF ReadChunk

\* The outermost call finds in its archive what is there.
LEMMA HeldAfterCopy ==
    ASSUME StackInv, HeldInv, CopyChunk
    PROVE  HeldInv'
  <1>1. stack # <<>> /\ Top.pc = "copy" /\ UNCHANGED poolVars
    BY DEF CopyChunk, At
  <1>2. CASE Fail
    BY <1>2, HeldFail
  <1>3. ASSUME NEW seen \in IF SourceGood(Top) THEN {Current(Top).payload} ELSE Residue,
               contents' = [contents EXCEPT ![Top.handle.slot] = seen],
               Update([Top EXCEPT !.pc = IF Current(Top).nested \/ Bytes[seen].vec
                                           THEN "descend" ELSE "write"])
        PROVE  HeldInv'
    <2> PICK pc : pc = IF Current(Top).nested \/ Bytes[seen].vec THEN "descend" ELSE "write"
      OBVIOUS
    <2> PICK g : g = [Top EXCEPT !.pc = pc]
      OBVIOUS
    <2> PICK h : h = Top.handle
      OBVIOUS
    <2>1. FrameInv(Top)
      BY <1>1, TopFacts
    <2>2. g.handle = Top.handle /\ g.pc = pc /\ g.archive = Top.archive /\ g.next = Top.next
      BY <2>1 DEF FrameInv, IsFrame
    <2>3. Current(g) = Current(Top)
      BY <2>2 DEF Current, Entries
    <2>4. Update(g)
      BY <1>3
    <2>5. ASSUME Len(stack) = 1
          PROVE  Held(g)'
      <3>1. Top = stack[1] /\ OuterInv(Top)
        BY <1>1, <2>5, TopFacts DEF Top
      <3>2. seen = Current(Top).payload
        BY <1>3, <3>1 DEF OuterInv, SourceGood
      <3>3. Pool!Intact(h)
        BY <1>1, <3>1 DEF HeldInv, Held
      <3>4. Pool!Intact(h)'
        BY <1>1, <3>3 DEF Pool!Intact, Pool!Freed, Pool!Overwritten, poolVars
      <3>5. Top.handle.slot \in Slots /\ contents \in [Slots -> Payloads \cup {Stale}]
        BY <1>1, <2>1 DEF FrameInv, StackInv, RingTypes
      <3>6. contents'[Top.handle.slot] = seen
        BY <1>3, <3>5
      <3>7. g.handle = h /\ contents'[g.handle.slot] = Current(g).payload
        BY <2>2, <2>3, <3>2, <3>6
      <3> QED
        BY <2>2, <3>4, <3>7 DEF Held
    <2> QED
      BY <1>1, <2>4, <2>5, HeldUpdate
  <1> QED
    BY <1>2, <1>3 DEF CopyChunk

\* A call that is past an entry, or before its first.
LEMMA HeldBetween ==
    ASSUME StackInv, stack # <<>>, NEW g, Update(g), g.pc \in {"index", "entry"}
    PROVE  HeldInv'
  <1>1. Held(g)'
    BY DEF Held
  <1> QED
    BY <1>1, HeldUpdate

LEMMA HeldAfterOpen ==
    ASSUME StackInv, Open \/ ParseIndex \/ WriteFile
    PROVE  HeldInv'
  <1>1. stack # <<>>
    BY DEF Open, ParseIndex, WriteFile, At
  <1>2. FrameInv(Top)
    BY <1>1, TopFacts
  <1>3. CASE Fail
    BY <1>3, HeldFail
  <1>4. CASE Update([Top EXCEPT !.pc = "index"])
    <2> PICK g : g = [Top EXCEPT !.pc = "index"]
      OBVIOUS
    <2>1. g.pc = "index"
      BY <1>2 DEF FrameInv, IsFrame
    <2> QED
      BY <1>1, <1>4, <2>1, HeldBetween
  <1>5. ASSUME NEW seen, Update([Top EXCEPT !.archive = seen, !.pc = "entry"])
        PROVE  HeldInv'
    <2> PICK g : g = [Top EXCEPT !.archive = seen, !.pc = "entry"]
      OBVIOUS
    <2>1. g.pc = "entry"
      BY <1>2 DEF FrameInv, IsFrame
    <2> QED
      BY <1>1, <1>5, <2>1, HeldBetween
  <1>6. CASE Update([Top EXCEPT !.next = @ + 1, !.handle = NoHandle, !.pc = "entry"])
    <2> PICK g : g = [Top EXCEPT !.next = @ + 1, !.handle = NoHandle, !.pc = "entry"]
      OBVIOUS
    <2>1. g.pc = "entry"
      BY <1>2 DEF FrameInv, IsFrame
    <2> QED
      BY <1>1, <1>6, <2>1, HeldBetween
  <1> QED
    BY <1>3, <1>4, <1>5, <1>6 DEF Open, ParseIndex, WriteFile

\* What a call waits for, or went on from, is an archive.
LEMMA HeldAfterNesting ==
    ASSUME StackInv, StackInv', Descend \/ ParseExtension
    PROVE  HeldInv'
  <1>1. stack # <<>>
    BY DEF Descend, ParseExtension, At
  <1>2. CASE stack' = <<>>
    BY <1>2 DEF HeldInv
  <1>3. CASE stack' # <<>> /\ Len(stack') # 1
    <2>1. Len(stack') \in Nat \ {0}
      BY <1>3, NotEmpty DEF StackInv
    <2> PICK n : n = Len(stack')
      OBVIOUS
    <2>2. stack'[1].pc = "nested"
      <3>1. \A k \in 1 .. n : stack'[k].pc = "nested" <=> k < n
        BY DEF StackInv
      <3>2. 1 \in 1 .. n /\ 1 < n
        BY <1>3, <2>1
      <3> QED
        BY <3>1, <3>2
    <2> QED
      BY <2>2 DEF HeldInv, Held
  <1>4. CASE Len(stack') = 1
    <2>1. CASE EnterNested
      <3> PICK f, g : stack' = Append([stack EXCEPT ![Len(stack)] = f], g)
        BY <2>1 DEF EnterNested
      <3>1. Len(stack) \in Nat \ {0} /\ Len(stack') = Len(stack) + 1
        BY <1>1, PushedStack DEF StackInv
      <3> QED
        BY <1>4, <3>1
    <2>2. CASE /\ Len(stack) # 1
               /\ stack' = [SubSeq(stack, 1, Len(stack) - 1)
                              EXCEPT ![Len(stack) - 1].pc = "write"]
      <3> PICK f : f = [SubSeq(stack, 1, Len(stack) - 1)[Len(stack) - 1]
                          EXCEPT !.pc = "write"]
        OBVIOUS
      <3> PICK n \in Nat \ {0} :
                 /\ n + 1 = Len(stack) /\ Len(stack') = n /\ stack'[n] = f
        BY <1>1, <2>2, PoppedStack DEF StackInv
      <3>1. n = 1 /\ Len(stack) - 1 = 1
        BY <1>4
      <3>2. SubSeq(stack, 1, Len(stack) - 1)[1] = stack[1]
        <4>1. \A k \in 1 .. Len(stack) - 1 : SubSeq(stack, 1, Len(stack) - 1)[k] = stack[k]
          BY <1>1, Pop DEF StackInv
        <4> QED
          BY <3>1, <4>1
      <3>3. f = [stack[1] EXCEPT !.pc = "write"]
        BY <3>1, <3>2
      <3>4. stack[1].pc = "nested" /\ OuterInv(stack[1]) /\ FrameInv(stack[1])
        BY <3>1 DEF StackInv
      <3>5. IsContainer(Current(stack[1]))
        BY <3>4 DEF OuterInv
      <3>6. f.pc = "write" /\ Current(f) = Current(stack[1])
        BY <3>3, <3>4 DEF FrameInv, IsFrame, Current, Entries
      <3> QED
        BY <3>1, <3>5, <3>6 DEF HeldInv, Held
    <2>3. CASE Fail
      BY <2>3, HeldFail
    <2> QED
      BY <1>2, <2>1, <2>2, <2>3 DEF Descend, ParseExtension
  <1> QED
    BY <1>2, <1>3, <1>4

LEMMA FilesAfterWrite ==
    ASSUME StackInv, HeldInv, FilesInv, WriteFile
    PROVE  FilesInv'
  <1>1. stack # <<>> /\ Top.pc = "write" /\ UNCHANGED root
    BY DEF WriteFile, At
  <1>2. CASE UNCHANGED written
    BY <1>1, <1>2, SameFiles
  <1> DEFINE path == SafeOutputPath(Top.dir, Current(Top).name)
             bytes == IF Pool!Intact(Top.handle) THEN contents[Top.handle.slot] ELSE Stale
  <1>3. ASSUME NEW content \in {bytes, Lost, Torn},
               written' = Append(written, [path |-> path, bytes |-> content, entry |-> Position])
        PROVE  FilesInv'
    <2> PICK e : e = [path |-> path, bytes |-> content, entry |-> Position]
      OBVIOUS
    <2>1. FrameInv(Top)
      BY <1>1, TopFacts
    <2>2. Top.handle.slot \in Slots /\ contents \in [Slots -> Payloads \cup {Stale}]
      BY <1>1, <2>1 DEF FrameInv, StackInv, RingTypes
    <2>3. e.bytes = content /\ e.entry = Position
      OBVIOUS
    <2>4. e.bytes \in Payloads \cup {Stale, Torn, Lost}
      BY <2>2, <2>3
    <2>5. ASSUME Len(e.entry) = 1, ~IsContainer(Bytes[root].entries[e.entry[1]])
          PROVE  e.bytes \in {Bytes[root].entries[e.entry[1]].payload, Torn, Lost}
      <3>1. Len(stack) \in Nat \ {0}
        BY <1>1, NotEmpty DEF StackInv
      <3>2. Len(Position) = Len(stack)
        BY <3>1 DEF Position
      <3>3. Len(stack) = 1
        BY <2>3, <2>5, <3>2
      <3>4. Position[1] = Top.next /\ Top = stack[1]
        BY <3>3 DEF Position, Top
      <3>5. Top.archive = root
        BY <1>1, <3>3, TopFacts DEF OuterInv
      <3>6. Bytes[root].entries[e.entry[1]] = Current(Top)
        BY <2>3, <3>4, <3>5 DEF Current, Entries
      <3>7. Pool!Intact(Top.handle) /\ contents[Top.handle.slot] = Current(Top).payload
        BY <1>1, <2>5, <3>4, <3>6 DEF HeldInv, Held
      <3> QED
        BY <2>3, <3>6, <3>7
    <2> QED
      BY <1>1, <1>3, <2>4, <2>5, AppendFile
  <1> QED
    BY <1>2, <1>3 DEF WriteFile, LostUnseen, Fail

LEMMA FullStep ==
    ASSUME FullInv, P!TypeInvariant, [Next]_vars
    PROVE  FullInv'
  <1>1. StackInv'
    BY Step DEF FullInv
  <1>2. Given'
    BY DEF FullInv, Given, Next, vars, Open, ParseIndex, ReadChunk, CopyChunk, Descend,
       WriteFile, ParseExtension, Finished
  <1>3. HeldInv'
    <2>1. CASE UNCHANGED vars
      BY <2>1 DEF FullInv, HeldInv, Held, vars, poolVars, Pool!Intact, Pool!Freed,
         Pool!Overwritten
    <2>2. CASE Finished
      BY <2>1, <2>2 DEF Finished
    <2> QED
      BY <1>1, <2>1, <2>2, HeldAfterOpen, HeldAfterRead, HeldAfterCopy, HeldAfterNesting
         DEF FullInv, Next
  <1>4. FilesInv'
    <2>1. CASE WriteFile
      BY <2>1, FilesAfterWrite DEF FullInv
    <2>2. CASE ~WriteFile
      <3>1. UNCHANGED <<root, written>>
        BY <2>2 DEF Next, vars, Open, ParseIndex, ReadChunk, CopyChunk, Descend,
           ParseExtension, Finished
      <3> QED
        BY <3>1, SameFiles DEF FullInv
    <2> QED
      BY <2>1, <2>2
  <1> QED
    BY <1>1, <1>2, <1>3, <1>4 DEF FullInv

LEMMA FullInvariant == Spec => []FullInv
  <1>1. Init => FullInv
    <2> SUFFICES ASSUME Init PROVE FullInv
      OBVIOUS
    <2>1. StackInv
      BY Start
    <2>2. Given
      BY DEF Init, Given, EntryPoint
    <2>3. HeldInv
      BY DEF Init, HeldInv, Held, Frame
    <2>4. FilesInv
      <3>1. written = <<>>
        BY DEF Init
      <3>2. written \in Seq({}) /\ Len(written) = 0
        BY <3>1
      <3>3. IsList(written)
        BY <3>2, IsListIfSeq
      <3> QED
        BY <3>2, <3>3 DEF FilesInv, OuterFilesExact
    <2> QED
      BY <2>1, <2>2, <2>3, <2>4 DEF FullInv
  <1>2. P!PoolInv => P!TypeInvariant
    BY DEF P!PoolInv
  <1>3. FullInv /\ P!TypeInvariant /\ [Next]_vars => FullInv'
    BY FullStep
  <1> QED
    BY <1>1, <1>2, <1>3, PoolFacts, PTL DEF Spec

\* Every variable of extraction, the pool's among them, keeps its type, and the
\* depth of no call exceeds the limit.
THEOREM TypeTheorem == Spec => []TypeInvariant
  <1>1. FullInv /\ P!PoolInv => TypeInvariant
    <2> SUFFICES ASSUME FullInv, P!PoolInv PROVE TypeInvariant
      OBVIOUS
    <2>1. P!TypeInvariant
      BY DEF P!PoolInv
    <2>2. Pool!TypeInvariant
      BY <2>1 DEF P!TypeInvariant, Pool!TypeInvariant, P!Slots, Pool!Slots, P!Handle,
         Pool!Handle
    <2>3. ASSUME NEW k \in 1 .. Len(stack)
          PROVE  FrameType(stack[k])
      <3>1. FrameInv(stack[k])
        BY DEF FullInv, StackInv
      <3>2. stack[k].handle \in {NoHandle} \cup OpenHandles
        BY DEF OpenHandles
      <3>3. stack[k].handle \in {NoHandle} \cup Pool!Handle
        BY <2>2, <3>2 DEF Pool!TypeInvariant
      <3>4. stack[k].source \in {NoHandle} \cup OpenHandles
        <4>1. CASE k = 1
          <5>1. OuterInv(stack[1])
            BY <4>1 DEF FullInv, StackInv
          <5> QED
            BY <4>1, <5>1 DEF OuterInv
        <4>2. CASE k # 1
          <5>1. Len(stack) \in Nat
            BY DEF FullInv, StackInv, IsList
          <5>2. k \in 2 .. Len(stack) /\ k - 1 \in 1 .. Len(stack)
            BY <4>2, <5>1
          <5>3. stack[k].source = stack[k - 1].handle
            BY <5>2 DEF FullInv, StackInv
          <5> QED
            BY <5>2, <5>3 DEF OpenHandles
        <4> QED
          BY <4>1, <4>2
      <3>5. Len(Entries(stack[k])) \in Nat
        BY <3>1, ParsedFacts DEF FrameInv, IsFrame, Entries
      <3> QED
        BY <3>1, <3>3, <3>4, <3>5 DEF FrameType, FrameInv, IsFrame, PC
    <2> QED
      BY <2>2, <2>3 DEF TypeInvariant, FullInv, StackInv, RingTypes, Slots, FilesInv, Given
  <1> QED
    BY <1>1, FullInvariant, PoolFacts, PTL

\* The files of the outer archive that are no archives themselves come out right,
\* whatever archives stand before and behind them.
THEOREM OuterFilesTheorem == Spec => []OuterFilesExact
  <1>1. FullInv => OuterFilesExact
    BY DEF FullInv, FilesInv
  <1> QED
    BY <1>1, FullInvariant, PTL

-----------------------------------------------------------------------------
(* What extraction should give.                                            *)

File == [path : Seq(STRING), bytes : Payloads, entry : Seq(Nat)]
Result == [files : Seq(File), ok : BOOLEAN]

\* What nested archives give, by archive, directory and position.
Table == [Payloads -> [Seq(STRING) -> [Seq(Nat) -> Result]]]

IsInitial(s, t) == Len(s) <= Len(t) /\ \A i \in 1 .. Len(s) : t[i] = s[i]

LEMMA FixedResults == Nothing \in Result /\ Rejected \in Result
  <1>1. <<>> \in Seq(File)
    OBVIOUS
  <1> QED
    BY <1>1 DEF Nothing, Rejected, Result

\* Two lists, one after the other.
LEMMA Joined ==
    ASSUME NEW S, NEW s \in Seq(S), NEW t \in Seq(S)
    PROVE  /\ s \o t \in Seq(S)
           /\ Len(s) \in Nat /\ Len(t) \in Nat
           /\ Len(s \o t) = Len(s) + Len(t)
           /\ \A i \in 1 .. Len(s) : (s \o t)[i] = s[i]
           /\ \A i \in 1 .. Len(t) : (s \o t)[Len(s) + i] = t[i]
  <1> PICK u : u = s \o t
    OBVIOUS
  <1>1. /\ u \in Seq(S)
        /\ Len(u) = Len(s) + Len(t)
        /\ \A i \in 1 .. Len(s) + Len(t) :
              u[i] = IF i <= Len(s) THEN s[i] ELSE t[i - Len(s)]
    BY ConcatProperties, Zenon
  <1>2. PICK m \in Nat, n \in Nat : m = Len(s) /\ n = Len(t)
    BY LenProperties, Zenon
  <1>3. ASSUME NEW i \in 1 .. m
        PROVE  u[i] = s[i]
    <2>1. i \in 1 .. m + n /\ i <= m
      BY <1>2
    <2> QED
      BY <1>1, <1>2, <2>1, Zenon
  <1>4. ASSUME NEW i \in 1 .. n
        PROVE  u[m + i] = t[i]
    <2>1. PICK j \in 1 .. m + n : j = m + i /\ ~(j <= m) /\ j - m = i
      BY <1>2
    <2>2. u[j] = IF j <= m THEN s[j] ELSE t[j - m]
      BY <1>1, <1>2, Zenon
    <2> QED
      BY <2>1, <2>2, Zenon
  <1> QED
    BY <1>1, <1>2, <1>3, <1>4, Zenon

LEMMA ThenFacts ==
    ASSUME NEW a \in Result, NEW b \in Result
    PROVE  /\ Then(a, b) \in Result
           /\ Len(a.files) \in Nat /\ Len(b.files) \in Nat /\ Len(Then(a, b).files) \in Nat
           /\ IsInitial(a.files, Then(a, b).files)
           /\ Then(a, b).ok <=> a.ok /\ b.ok
           /\ ~a.ok => Then(a, b) = a
           /\ a.ok => /\ Len(Then(a, b).files) = Len(a.files) + Len(b.files)
                      /\ \A i \in 1 .. Len(b.files) :
                            Then(a, b).files[Len(a.files) + i] = b.files[i]
  <1>1. PICK s \in Seq(File), t \in Seq(File), m \in Nat, n \in Nat :
          /\ s = a.files /\ t = b.files /\ m = Len(s) /\ n = Len(t)
          /\ a.ok \in BOOLEAN /\ b.ok \in BOOLEAN
    <2>1. /\ a.files \in Seq(File) /\ a.ok \in BOOLEAN
          /\ b.files \in Seq(File) /\ b.ok \in BOOLEAN
      BY DEF Result
    <2>2. Len(a.files) \in Nat /\ Len(b.files) \in Nat
      BY <2>1, LenProperties, Zenon
    <2> QED
      BY <2>1, <2>2, Zenon
  <1>2. Len(a.files) = m /\ Len(b.files) = n
    BY <1>1, Zenon
  <1>3. CASE a.ok
    <2>1. Then(a, b) = [files |-> s \o t, ok |-> b.ok]
      BY <1>1, <1>3, Zenon DEF Then
    <2>2. /\ s \o t \in Seq(File)
          /\ Len(s \o t) = Len(s) + Len(t)
          /\ \A i \in 1 .. Len(s) : (s \o t)[i] = s[i]
          /\ \A i \in 1 .. Len(t) : (s \o t)[Len(s) + i] = t[i]
      <3>1. s \o t \in Seq(File)
        BY Joined, Zenon
      <3>2. Len(s \o t) = Len(s) + Len(t)
        BY Joined, Zenon
      <3>3. \A i \in 1 .. Len(s) : (s \o t)[i] = s[i]
        BY Joined, Zenon
      <3>4. \A i \in 1 .. Len(t) : (s \o t)[Len(s) + i] = t[i]
        BY Joined, SMT
      <3> QED
        BY <3>1, <3>2, <3>3, <3>4
    <2>3. PICK u \in Seq(File) :
            /\ u = s \o t /\ Len(u) = m + n
            /\ \A i \in 1 .. m : u[i] = s[i]
            /\ \A i \in 1 .. n : u[m + i] = t[i]
      BY <1>1, <2>2, Zenon
    <2>4. Then(a, b) = [files |-> u, ok |-> b.ok]
      BY <2>1, <2>3, Zenon
    <2>5. Then(a, b).files = u /\ Then(a, b).ok = b.ok /\ Then(a, b) \in Result
      BY <1>1, <2>4 DEF Result
    <2>6. m + n \in Nat /\ m <= m + n
      OBVIOUS
    <2>7. Len(Then(a, b).files) \in Nat /\ Len(a.files) <= Len(Then(a, b).files)
      BY <1>2, <2>3, <2>5, <2>6, Zenon
    <2>8. IsInitial(a.files, Then(a, b).files)
      BY <1>1, <2>3, <2>5, <2>7, Zenon DEF IsInitial
    <2> QED
      BY <1>1, <1>2, <1>3, <2>3, <2>5, <2>7, <2>8, Zenon
  <1>4. CASE ~a.ok
    <2>1. Then(a, b) = a
      BY <1>4 DEF Then
    <2>2. IsInitial(a.files, a.files)
      BY <1>2 DEF IsInitial
    <2> QED
      BY <1>1, <1>2, <1>4, <2>1, <2>2, Zenon
  <1> QED
    BY <1>3, <1>4

LEMMA IsInitialTransitive ==
    ASSUME NEW r, NEW s, NEW t, Len(r) \in Nat, Len(s) \in Nat, Len(t) \in Nat,
           IsInitial(r, s), IsInitial(s, t)
    PROVE  IsInitial(r, t)
  BY DEF IsInitial

LEMMA PathFacts ==
    ASSUME NEW p \in Payloads, NEW k \in 1 .. Len(Bytes[p].entries),
           NEW dir \in Seq(STRING), NEW path, path = SafeOutputPath(dir, Bytes[p].entries[k].name)
    PROVE  path \in Seq(STRING) /\ NestedDir(path) \in Seq(STRING)
  <1> PICK kept : kept = KeptParts(Bytes[p].entries[k].name)
    OBVIOUS
  <1>1. kept \in Seq(STRING) /\ ReplaceExtension[kept[Len(kept)]] \in STRING
    BY FidelityAssumption
  <1>2. path = dir \o kept
    BY DEF SafeOutputPath
  <1>3. kept # <<>>
    BY DEF KeptParts
  <1>4. Len(kept) \in Nat \ {0}
    BY <1>1, <1>3
  <1>5. /\ path \in Seq(STRING) /\ Len(path) = Len(dir) + Len(kept)
        /\ \A i \in 1 .. Len(dir) + Len(kept) :
              path[i] = IF i <= Len(dir) THEN dir[i] ELSE kept[i - Len(dir)]
    <2>1. dir \o kept \in Seq(STRING) /\ Len(dir \o kept) = Len(dir) + Len(kept)
      BY <1>1, ConcatProperties, Zenon
    <2>2. \A i \in 1 .. Len(dir) + Len(kept) :
             (dir \o kept)[i] = IF i <= Len(dir) THEN dir[i] ELSE kept[i - Len(dir)]
      BY <1>1, ConcatProperties, Zenon
    <2> QED
      BY <1>2, <2>1, <2>2, Zenon
  <1>6. path[Len(path)] = kept[Len(kept)]
    <2>1. PICK m, n \in Nat : m = Len(dir) /\ n = Len(kept) /\ n # 0
      BY <1>4, LenProperties
    <2>2. m + n \in 1 .. m + n /\ ~(m + n <= m) /\ (m + n) - m = n
      BY <2>1
    <2> QED
      BY <1>5, <2>1, <2>2
  <1>7. NestedDir(path) = [path EXCEPT ![Len(path)] = ReplaceExtension[path[Len(path)]]]
    BY DEF NestedDir
  <1> PICK n : n = Len(path)
    OBVIOUS
  <1>8. n \in 1 .. Len(path)
    BY <1>4, <1>5
  <1>9. [path EXCEPT ![n] = ReplaceExtension[path[n]]] \in Seq(STRING)
    BY <1>1, <1>5, <1>6, <1>8, ExceptSeq
  <1> QED
    BY <1>5, <1>7, <1>9

LEMMA EntryFacts ==
    ASSUME NEW p \in Payloads, NEW k \in 1 .. Len(Bytes[p].entries)
    PROVE  /\ Bytes[p].entries[k].payload \in Payloads
           /\ k \in Nat
  BY ParsedFacts

LEMMA EntryOutcomeType ==
    ASSUME NEW below \in Table, NEW p \in Payloads, NEW dir \in Seq(STRING),
           NEW position \in Seq(Nat), NEW k \in 1 .. Len(Bytes[p].entries)
    PROVE  EntryOutcome(below, p, dir, position, k) \in Result
  <1> DEFINE entry == Bytes[p].entries[k]
             path == SafeOutputPath(dir, entry.name)
             here == Append(position, k)
             file == [path |-> path, bytes |-> entry.payload, entry |-> here]
             out == [files |-> <<file>>, ok |-> TRUE]
             inside == below[entry.payload][NestedDir(path)][here]
  <1>1. entry.payload \in Payloads /\ k \in Nat
    BY EntryFacts
  <1>2. path \in Seq(STRING) /\ NestedDir(path) \in Seq(STRING)
    BY PathFacts
  <1>3. here \in Seq(Nat)
    BY <1>1
  <1> HIDE DEF path, here
  <1>4. file \in File
    BY <1>1, <1>2, <1>3 DEF File
  <1> HIDE DEF file
  <1>5. out \in Result
    BY <1>4 DEF Result
  <1>6. inside \in Result
    BY <1>1, <1>2, <1>3 DEF Table
  <1> HIDE DEF out, inside
  <1>7. Then(inside, out) \in Result
    BY <1>5, <1>6, ThenFacts
  <1>8. EntryOutcome(below, p, dir, position, k) \in {Rejected, Then(inside, out), out}
    BY DEF EntryOutcome, out, inside, file, path, here
  <1> QED
    BY <1>5, <1>7, <1>8, FixedResults

-----------------------------------------------------------------------------
(* How many buffers a call takes.                                          *)

\* The buffers taken, entry by entry.
LEMMA SpentFacts ==
    ASSUME NEW below \in [Payloads -> Nat], NEW p \in Payloads
    PROVE  /\ Spent(below, p)[0] = 0
           /\ \A k \in 0 .. Len(Bytes[p].entries) : Spent(below, p)[k] \in Nat
           /\ \A k \in 1 .. Len(Bytes[p].entries) :
                 Spent(below, p)[k] =
                   Spent(below, p)[k - 1] + 1
                     + (IF IsContainer(Bytes[p].entries[k])
                          THEN below[Bytes[p].entries[k].payload] ELSE 0)
  <1> PICK n \in Nat : n = Len(Bytes[p].entries)
    BY ParsedFacts
  <1>1. PICK cost : cost = [k \in 1 .. n |-> IF IsContainer(Bytes[p].entries[k])
                                              THEN below[Bytes[p].entries[k].payload] ELSE 0]
    OBVIOUS
  <1> DEFINE step == [k \in 1 .. n |-> [v \in Nat |-> v + 1 + cost[k]]]
             Body(f) == [k \in 0 .. n |->
                           IF k = 0 THEN 0
                           ELSE f[k - 1] + 1
                                  + (IF IsContainer(Bytes[p].entries[k])
                                       THEN below[Bytes[p].entries[k].payload] ELSE 0)]
             Sum(f) == [k \in 0 .. n |-> IF k = 0 THEN 0 ELSE f[k - 1] + 1 + cost[k]]
             spent == CHOOSE f : f = Body(f)
  <1>2. \A k \in 1 .. n : cost[k] \in Nat
    BY <1>1, ParsedFacts
  <1>3. step \in [1 .. n -> [Nat -> Nat]]
    BY <1>2
  <1>4. PICK f \in [0 .. n -> Nat] : Follows(f, 0, step, n)
    <2> HIDE DEF step
    <2> QED
      BY <1>3, RecursionUpTo
  <1>5. f[0] = 0 /\ \A k \in 1 .. n : f[k] = f[k - 1] + 1 + cost[k]
    <2>1. \A k \in 1 .. n : f[k - 1] \in Nat
      OBVIOUS
    <2>2. \A k \in 1 .. n, v \in Nat : step[k][v] = v + 1 + cost[k]
      OBVIOUS
    <2> HIDE DEF step
    <2>3. f[0] = 0 /\ \A k \in 1 .. n : f[k] = step[k][f[k - 1]]
      BY <1>4, Zenon DEF Follows
    <2> QED
      BY <2>1, <2>2, <2>3, Zenon
  <1>6. \A g : Body(g) = Sum(g)
    BY <1>1
  <1>7. f = Sum(f)
    BY <1>5
  <1>8. Spent(below, p) = spent
    BY Zenon DEF Spent
  <1> HIDE DEF Body, Sum
  <1>9. spent = Body(spent)
    BY <1>6, <1>7, Zenon
  <1> HIDE DEF spent
  <1>10. spent = Sum(spent)
    BY <1>6, <1>9, Zenon
  <1>11. spent[0] = 0 /\ \A k \in 1 .. n : spent[k] = spent[k - 1] + 1 + cost[k]
    BY <1>10, SMTT(60) DEF Sum
  <1> DEFINE S == {k \in Nat : k <= n => spent[k] \in Nat}
  <1>12. 0 \in S
    BY <1>11
  <1>13. ASSUME NEW k \in Nat, k \in S
         PROVE  k + 1 \in S
    <2>1. k + 1 <= n => spent[k + 1] = spent[k] + 1 + cost[k + 1] /\ cost[k + 1] \in Nat
      BY <1>2, <1>11
    <2> QED
      BY <1>13, <2>1
  <1> HIDE DEF S
  <1>14. \A k \in Nat : k \in S
    BY <1>12, <1>13, NumbersIn
  <1>15. \A k \in 0 .. n : spent[k] \in Nat
    BY <1>14 DEF S
  <1> QED
    BY <1>1, <1>8, <1>11, <1>15

\* They only become more.
LEMMA SpentGrows ==
    ASSUME NEW below \in [Payloads -> Nat], NEW p \in Payloads,
           NEW j \in 0 .. Len(Bytes[p].entries), NEW k \in j .. Len(Bytes[p].entries)
    PROVE  Spent(below, p)[j] <= Spent(below, p)[k]
  <1> PICK n \in Nat : n = Len(Bytes[p].entries)
    BY ParsedFacts
  <1> PICK spent : spent = Spent(below, p)
    OBVIOUS
  <1>1. \A i \in 0 .. n : spent[i] \in Nat
    BY SpentFacts
  <1>2. ASSUME NEW i \in 1 .. n
        PROVE  spent[i - 1] <= spent[i]
    <2>1. PICK cost \in Nat : cost = (IF IsContainer(Bytes[p].entries[i])
                          THEN below[Bytes[p].entries[i].payload] ELSE 0)
      BY ParsedFacts
    <2>2. spent[i] = spent[i - 1] + 1 + cost
      BY <2>1, SpentFacts, Zenon
    <2>3. spent[i - 1] \in Nat
      BY <1>1
    <2> QED
      BY <2>2, <2>3
  <1> DEFINE S == {i \in Nat : j + i <= n => spent[j] <= spent[j + i]}
  <1>3. 0 \in S
    BY <1>1
  <1>4. ASSUME NEW i \in Nat, i \in S
        PROVE  i + 1 \in S
    <2> SUFFICES ASSUME j + (i + 1) <= n
                 PROVE  spent[j] <= spent[j + (i + 1)]
      OBVIOUS
    <2>1. PICK m \in 1 .. n : m = j + (i + 1) /\ m - 1 = j + i
      OBVIOUS
    <2>2. spent[j] <= spent[m - 1] /\ spent[m - 1] <= spent[m]
      BY <1>2, <1>4, <2>1
    <2>3. spent[j] \in Nat /\ spent[m - 1] \in Nat /\ spent[m] \in Nat
      BY <1>1, <2>1
    <2>4. spent[j] <= spent[m]
      BY <2>2, <2>3
    <2> QED
      BY <2>1, <2>4
  <1> HIDE DEF S
  <1>5. \A i \in Nat : i \in S
    BY <1>3, <1>4, NumbersIn
  <1>6. PICK i \in Nat : j + i = k /\ k <= n
    <2>1. k - j \in Nat /\ j + (k - j) = k
      OBVIOUS
    <2> QED
      BY <2>1
  <1> QED
    BY <1>5, <1>6 DEF S

\* The buffers of a call are those of its loop, one level down.
LEMMA AcquisitionsFacts ==
    /\ \A n \in Nat : Acquisitions[n] \in [Payloads -> Nat]
    /\ \A n \in Nat \ {0}, p \in Payloads :
          Acquisitions[n][p] = Spent(Acquisitions[n - 1], p)[Len(Bytes[p].entries)]
  <1> DEFINE V == [Payloads -> Nat]
             step == [n \in Nat |-> [below \in V |->
                        [p \in Payloads |-> Spent(below, p)[Len(Bytes[p].entries)]]]]
             first == [p \in Payloads |-> 0]
             Body(f) == [n \in Nat |-> [p \in Payloads |->
                           IF n = 0 THEN 0 ELSE Spent(f[n - 1], p)[Len(Bytes[p].entries)]]]
  <1>1. first \in V
    OBVIOUS
  <1>2. ASSUME NEW below \in V, NEW p \in Payloads
        PROVE  Spent(below, p)[Len(Bytes[p].entries)] \in Nat
    <2>1. Len(Bytes[p].entries) \in 0 .. Len(Bytes[p].entries)
      BY ParsedFacts
    <2> QED
      BY <2>1, SpentFacts
  <1>3. step \in [Nat -> [V -> V]]
    BY <1>2
  <1>4. PICK f \in [Nat -> V] : Recursive(f, first, step)
    <2> HIDE DEF step, V, first
    <2> QED
      BY <1>1, <1>3, Recursion
  <1>5. /\ f[0] = first
        /\ \A n \in Nat \ {0} :
              f[n] = [p \in Payloads |-> Spent(f[n - 1], p)[Len(Bytes[p].entries)]]
    <2>1. \A n \in Nat \ {0} : n \in Nat /\ f[n - 1] \in V
      OBVIOUS
    <2>2. \A n \in Nat, below \in V :
             step[n][below] = [p \in Payloads |-> Spent(below, p)[Len(Bytes[p].entries)]]
      OBVIOUS
    <2> HIDE DEF step, V, first
    <2>3. f[0] = first /\ \A n \in Nat \ {0} : f[n] = step[n][f[n - 1]]
      BY <1>4, Zenon DEF Recursive
    <2> QED
      BY <2>1, <2>2, <2>3, Zenon
  <1>6. f = Body(f)
    <2>1. \A n \in Nat : f[n] = Body(f)[n]
      BY <1>5
    <2> QED
      BY <2>1
  <1>7. Acquisitions = Body(Acquisitions)
    BY <1>6, Zenon DEF Acquisitions
  <1>8. /\ Acquisitions[0] = first
        /\ \A n \in Nat \ {0} : Acquisitions[n] =
             [p \in Payloads |-> Spent(Acquisitions[n - 1], p)[Len(Bytes[p].entries)]]
    BY <1>7
  <1> DEFINE S == {n \in Nat : Acquisitions[n] \in V}
  <1>9. 0 \in S
    BY <1>8
  <1>10. ASSUME NEW n \in Nat, n \in S
         PROVE  n + 1 \in S
    <2>1. PICK m \in Nat \ {0} : m = n + 1 /\ m - 1 = n
      OBVIOUS
    <2>2. Acquisitions[n + 1] =
            [p \in Payloads |-> Spent(Acquisitions[n], p)[Len(Bytes[p].entries)]]
      BY <1>8, <2>1, Zenon
    <2>3. Acquisitions[n] \in V
      BY <1>10
    <2>4. \A p \in Payloads : Spent(Acquisitions[n], p)[Len(Bytes[p].entries)] \in Nat
      BY <1>2, <2>3, Zenon
    <2>5. Acquisitions[n + 1] \in V
      BY <2>2, <2>4, Zenon
    <2> QED
      BY <2>5
  <1> HIDE DEF S
  <1>11. \A n \in Nat : n \in S
    BY <1>9, <1>10, NumbersIn
  <1>12. \A n \in Nat : Acquisitions[n] \in [Payloads -> Nat]
    BY <1>11 DEF S
  <1>13. ASSUME NEW n \in Nat \ {0}, NEW p \in Payloads
         PROVE  Acquisitions[n][p] =
                  Spent(Acquisitions[n - 1], p)[Len(Bytes[p].entries)]
    BY <1>8, Zenon
  <1> QED
    BY <1>12, <1>13, Zenon

-----------------------------------------------------------------------------
(* What the loop and a whole call give, and which archives fit the ring.   *)

\* The loop, entry by entry.
LEMMA LoopFacts ==
    ASSUME NEW below \in Table, NEW p \in Payloads, NEW dir \in Seq(STRING),
           NEW position \in Seq(Nat)
    PROVE  LET loop == LoopOutcome(below, p, dir, position)
           IN  /\ loop[0] = Nothing
               /\ \A k \in 0 .. Len(Bytes[p].entries) : loop[k] \in Result
               /\ \A k \in 1 .. Len(Bytes[p].entries) :
                     loop[k] = Then(loop[k - 1], EntryOutcome(below, p, dir, position, k))
  <1> PICK n \in Nat : n = Len(Bytes[p].entries)
    BY ParsedFacts
  <1> DEFINE E(k) == EntryOutcome(below, p, dir, position, k)
             step == [k \in 1 .. n |-> [v \in Result |-> Then(v, E(k))]]
             Body(f) == [k \in 0 .. n |->
                           IF k = 0 THEN Nothing
                           ELSE Then(f[k - 1], EntryOutcome(below, p, dir, position, k))]
             loop == CHOOSE f : f = Body(f)
  <1>1. \A k \in 1 .. n : E(k) \in Result
    BY EntryOutcomeType
  <1> HIDE DEF E
  <1>2. step \in [1 .. n -> [Result -> Result]]
    <2>1. ASSUME NEW k \in 1 .. n, NEW v \in Result
          PROVE  Then(v, E(k)) \in Result
      BY <1>1, ThenFacts
    <2> QED
      BY <2>1
  <1>3. PICK f \in [0 .. n -> Result] : Follows(f, Nothing, step, n)
    <2> HIDE DEF step
    <2> QED
      BY <1>2, FixedResults, RecursionUpTo
  <1>4. f[0] = Nothing /\ \A k \in 1 .. n : f[k] = Then(f[k - 1], E(k))
    <2>1. ASSUME NEW k \in 1 .. n
          PROVE  f[k - 1] \in Result
      <3>1. k - 1 \in 0 .. n
        OBVIOUS
      <3> QED
        BY <3>1, Zenon
    <2>2. \A k \in 1 .. n, v \in Result : step[k][v] = Then(v, E(k))
      OBVIOUS
    <2> HIDE DEF step
    <2>3. f[0] = Nothing /\ \A k \in 1 .. n : f[k] = step[k][f[k - 1]]
      BY <1>3, Zenon DEF Follows
    <2> QED
      BY <2>1, <2>2, <2>3, Zenon
  <1>5. f = Body(f)
    BY <1>4 DEF E
  <1>6. LoopOutcome(below, p, dir, position) = loop
    BY Zenon DEF LoopOutcome
  <1> HIDE DEF Body
  <1>7. loop = Body(loop)
    BY <1>5, Zenon
  <1> HIDE DEF loop
  <1>8. loop[0] = Nothing /\ \A k \in 1 .. n : loop[k] = Then(loop[k - 1], E(k))
    <2>1. 0 \in 0 .. n /\ \A k \in 1 .. n : k \in 0 .. n /\ k # 0
      OBVIOUS
    <2>2. loop[0] = Nothing
      BY <1>7, <2>1, Zenon DEF Body
    <2>3. ASSUME NEW k \in 1 .. n
          PROVE  loop[k] = Then(loop[k - 1], E(k))
      BY <1>7, <2>1, Zenon DEF Body, E
    <2> QED
      BY <2>2, <2>3
  <1> DEFINE S == {k \in Nat : k <= n => loop[k] \in Result}
  <1>9. 0 \in S
    BY <1>8, FixedResults
  <1>10. ASSUME NEW k \in Nat, k \in S
         PROVE  k + 1 \in S
    <2> SUFFICES ASSUME k + 1 <= n
                 PROVE  loop[k + 1] \in Result
      OBVIOUS
    <2>1. PICK m \in 1 .. n : m = k + 1 /\ m - 1 = k
      OBVIOUS
    <2>2. loop[m - 1] \in Result
      BY <1>10, <2>1
    <2>3. loop[m] \in Result
      BY <1>1, <1>8, <2>2, ThenFacts
    <2> QED
      BY <2>1, <2>3
  <1> HIDE DEF S
  <1>11. \A k \in Nat : k \in S
    BY <1>9, <1>10, NumbersIn
  <1>12. \A k \in 0 .. n : loop[k] \in Result
    BY <1>11 DEF S
  <1> QED
    BY <1>6, <1>8, <1>12, Zenon DEF E

\* What the loop has done stays done, and a failure stays a failure.
LEMMA LoopGrows ==
    ASSUME NEW below \in Table, NEW p \in Payloads, NEW dir \in Seq(STRING),
           NEW position \in Seq(Nat),
           NEW j \in 0 .. Len(Bytes[p].entries), NEW k \in j .. Len(Bytes[p].entries)
    PROVE  LET loop == LoopOutcome(below, p, dir, position)
           IN  IsInitial(loop[j].files, loop[k].files) /\ (loop[k].ok => loop[j].ok)
  <1> PICK n \in Nat : n = Len(Bytes[p].entries)
    BY ParsedFacts
  <1> PICK loop : loop = LoopOutcome(below, p, dir, position)
    OBVIOUS
  <1>1. \A i \in 0 .. n : loop[i] \in Result
    BY LoopFacts
  <1>2. \A i \in 1 .. n :
           loop[i] = Then(loop[i - 1], EntryOutcome(below, p, dir, position, i))
    BY LoopFacts
  <1>3. ASSUME NEW i \in 1 .. n
        PROVE  /\ IsInitial(loop[i - 1].files, loop[i].files)
               /\ loop[i].ok => loop[i - 1].ok
               /\ Len(loop[i - 1].files) \in Nat /\ Len(loop[i].files) \in Nat
    <2>1. PICK a \in Result, b \in Result :
            a = loop[i - 1] /\ b = EntryOutcome(below, p, dir, position, i)
      BY <1>1, EntryOutcomeType
    <2>2. loop[i] = Then(a, b)
      BY <1>2, <2>1, Zenon
    <2>3. /\ Len(a.files) \in Nat /\ Len(Then(a, b).files) \in Nat
          /\ IsInitial(a.files, Then(a, b).files)
          /\ Then(a, b).ok <=> a.ok /\ b.ok
      BY ThenFacts, Zenon
    <2> QED
      BY <2>1, <2>2, <2>3, Zenon
  <1> DEFINE S == {i \in Nat : j + i <= n =>
                     /\ Len(loop[j + i].files) \in Nat
                     /\ IsInitial(loop[j].files, loop[j + i].files)
                     /\ loop[j + i].ok => loop[j].ok}
  <1>4. Len(loop[j].files) \in Nat
    <2>1. loop[j].files \in Seq(File)
      BY <1>1 DEF Result
    <2> QED
      BY <2>1, LenProperties, Zenon
  <1>5. 0 \in S
    <2>1. IsInitial(loop[j].files, loop[j].files)
      BY <1>4 DEF IsInitial
    <2>2. j + 0 = j
      OBVIOUS
    <2> QED
      BY <1>4, <2>1, <2>2
  <1>6. ASSUME NEW i \in Nat, i \in S
        PROVE  i + 1 \in S
    <2> SUFFICES ASSUME j + (i + 1) <= n
                 PROVE  /\ Len(loop[j + (i + 1)].files) \in Nat
                        /\ IsInitial(loop[j].files, loop[j + (i + 1)].files)
                        /\ loop[j + (i + 1)].ok => loop[j].ok
      OBVIOUS
    <2>1. PICK m \in 1 .. n : m = j + (i + 1) /\ m - 1 = j + i
      OBVIOUS
    <2>2. /\ IsInitial(loop[j].files, loop[m - 1].files)
          /\ loop[m - 1].ok => loop[j].ok
      BY <1>6, <2>1
    <2>3. /\ IsInitial(loop[m - 1].files, loop[m].files)
          /\ loop[m].ok => loop[m - 1].ok
          /\ Len(loop[m - 1].files) \in Nat /\ Len(loop[m].files) \in Nat
      BY <1>3
    <2>4. IsInitial(loop[j].files, loop[m].files)
      BY <1>4, <2>2, <2>3, IsInitialTransitive
    <2> QED
      BY <2>1, <2>2, <2>3, <2>4
  <1> HIDE DEF S
  <1>7. \A i \in Nat : i \in S
    BY <1>5, <1>6, NumbersIn
  <1>8. PICK i \in Nat : j + i = k /\ k <= n
    <2>1. k - j \in Nat /\ j + (k - j) = k
      OBVIOUS
    <2> QED
      BY <2>1
  <1> QED
    BY <1>7, <1>8 DEF S

LEMMA ArchiveOutcomeType ==
    ASSUME NEW below \in Table, NEW p \in Payloads, NEW dir \in Seq(STRING),
           NEW position \in Seq(Nat)
    PROVE  ArchiveOutcome(below, p, dir, position) \in Result
  <1> PICK n \in Nat : n = Len(Bytes[p].entries)
    BY ParsedFacts
  <1> PICK last : last = LoopOutcome(below, p, dir, position)[n]
    OBVIOUS
  <1> PICK tail : tail = [files |-> <<>>, ok |-> Bytes[p].extension # "truncated"]
    OBVIOUS
  <1>1. last \in Result
    <2>1. n \in 0 .. n
      OBVIOUS
    <2> QED
      BY <2>1, LoopFacts
  <1>2. tail \in Result
    BY DEF Result
  <1>3. Then(last, tail) \in Result
    BY <1>1, <1>2, ThenFacts
  <1>4. ArchiveOutcome(below, p, dir, position) \in {Then(last, tail), Rejected}
    BY Zenon DEF ArchiveOutcome
  <1> QED
    BY <1>3, <1>4, FixedResults

\* A call gives what its loop and its extension give, one level down.
LEMMA OutcomeFacts ==
    /\ \A n \in Nat : Outcome[n] \in Table
    /\ \A p \in Payloads, dir \in Seq(STRING), position \in Seq(Nat) :
          Outcome[0][p][dir][position] = Rejected
    /\ \A n \in Nat \ {0}, p \in Payloads, dir \in Seq(STRING), position \in Seq(Nat) :
          Outcome[n][p][dir][position] = ArchiveOutcome(Outcome[n - 1], p, dir, position)
  <1> DEFINE Of(below) == [p \in Payloads |-> [dir \in Seq(STRING) |-> [position \in Seq(Nat) |->
                            ArchiveOutcome(below, p, dir, position)]]]
             step == [n \in Nat |-> [below \in Table |-> Of(below)]]
             first == [p \in Payloads |-> [dir \in Seq(STRING) |-> [position \in Seq(Nat) |->
                         Rejected]]]
             Body(f) == [n \in Nat |->
                [p \in Payloads |-> [dir \in Seq(STRING) |-> [position \in Seq(Nat) |->
                   IF n = 0 THEN Rejected ELSE ArchiveOutcome(f[n - 1], p, dir, position)]]]]
  <1>1. first \in Table
    BY FixedResults DEF Table
  <1>2. ASSUME NEW below \in Table
        PROVE  Of(below) \in Table
    <2>1. \A p \in Payloads, dir \in Seq(STRING), position \in Seq(Nat) :
             ArchiveOutcome(below, p, dir, position) \in Result
      BY ArchiveOutcomeType
    <2> QED
      BY <2>1, Zenon DEF Table
  <1> HIDE DEF Of, first
  <1>3. step \in [Nat -> [Table -> Table]]
    BY <1>2
  <1>4. PICK f \in [Nat -> Table] : Recursive(f, first, step)
    <2> HIDE DEF step
    <2> QED
      BY <1>1, <1>3, Recursion
  <1>5. f[0] = first /\ \A n \in Nat \ {0} : f[n] = Of(f[n - 1])
    <2>1. \A n \in Nat \ {0} : n \in Nat /\ f[n - 1] \in Table
      OBVIOUS
    <2>2. \A n \in Nat, below \in Table : step[n][below] = Of(below)
      BY Zenon
    <2> HIDE DEF step
    <2>3. f[0] = first /\ \A n \in Nat \ {0} : f[n] = step[n][f[n - 1]]
      BY <1>4, Zenon DEF Recursive
    <2> QED
      BY <2>1, <2>2, <2>3, Zenon
  <1>6. \A g : /\ Body(g)[0] = first
               /\ \A n \in Nat \ {0} : Body(g)[n] = Of(g[n - 1])
    <2> SUFFICES ASSUME NEW g
                 PROVE  /\ Body(g)[0] = first
                        /\ \A n \in Nat \ {0} : Body(g)[n] = Of(g[n - 1])
      OBVIOUS
    <2>1. Body(g)[0] = first
      BY DEF first
    <2>2. ASSUME NEW n \in Nat \ {0}
          PROVE  Body(g)[n] = Of(g[n - 1])
      <3>1. n # 0 /\ n \in Nat
        OBVIOUS
      <3> QED
        BY <3>1, Zenon DEF Of
    <2> QED
      BY <2>1, <2>2
  <1>7. \A g : Body(g) = [n \in Nat |-> Body(g)[n]]
    OBVIOUS
  <1>8. f = Body(f)
    <2>1. \A n \in Nat : f[n] = Body(f)[n]
      <3> HIDE DEF Body
      <3> QED
        BY <1>5, <1>6
    <2>2. f = [n \in Nat |-> f[n]]
      OBVIOUS
    <2> HIDE DEF Body
    <2> QED
      BY <1>7, <2>1, <2>2
  <1>9. Outcome = Body(Outcome)
    BY <1>8, Zenon DEF Outcome
  <1> HIDE DEF Body
  <1>10. Outcome[0] = first /\ \A n \in Nat \ {0} : Outcome[n] = Of(Outcome[n - 1])
    BY <1>6, <1>9, Zenon
  <1> DEFINE S == {n \in Nat : Outcome[n] \in Table}
  <1>11. 0 \in S
    BY <1>1, <1>10
  <1>12. ASSUME NEW n \in Nat, n \in S
         PROVE  n + 1 \in S
    <2>1. PICK m \in Nat \ {0} : m = n + 1 /\ m - 1 = n
      OBVIOUS
    <2>2. Outcome[m] = Of(Outcome[n]) /\ Outcome[n] \in Table
      BY <1>10, <1>12, <2>1, Zenon
    <2> QED
      BY <1>2, <2>1, <2>2
  <1> HIDE DEF S
  <1>13. \A n \in Nat : n \in S
    BY <1>11, <1>12, NumbersIn
  <1>14. \A n \in Nat : Outcome[n] \in Table
    BY <1>13 DEF S
  <1>15. \A p \in Payloads, dir \in Seq(STRING), position \in Seq(Nat) :
            Outcome[0][p][dir][position] = Rejected
    <2>1. \A p \in Payloads, dir \in Seq(STRING), position \in Seq(Nat) :
             first[p][dir][position] = Rejected
      BY DEF first
    <2> QED
      BY <1>10, <2>1, Zenon
  <1>16. ASSUME NEW n \in Nat \ {0}, NEW p \in Payloads, NEW dir \in Seq(STRING),
                NEW position \in Seq(Nat)
         PROVE  Outcome[n][p][dir][position] = ArchiveOutcome(Outcome[n - 1], p, dir, position)
    <2>1. \A below : Of(below)[p][dir][position] = ArchiveOutcome(below, p, dir, position)
      BY DEF Of
    <2>2. Outcome[n] = Of(Outcome[n - 1])
      BY <1>10, Zenon
    <2> QED
      BY <2>1, <2>2, Zenon
  <1> QED
    BY <1>14, <1>15, <1>16, Zenon

FitsEntry(n, entry) ==
    IsContainer(entry) =>
      /\ Acquisitions[n][entry.payload] < SlotCount
      /\ ~Pool!Recycles(Bytes[entry.payload].size, MaxNestedDepth + 1 - n)
      /\ Fits[n][entry.payload]

\* Fits, one level down.
LEMMA FitsEquation ==
    \A n \in Nat : Fits[n] =
       [p \in Payloads |->
          n # 0 =>
            \A k \in 1 .. Len(Bytes[p].entries) :
               LET entry == Bytes[p].entries[k]
               IN  IsContainer(entry) =>
                      /\ Acquisitions[n - 1][entry.payload] < SlotCount
                      /\ ~Pool!Recycles(Bytes[entry.payload].size, MaxNestedDepth + 2 - n)
                      /\ Fits[n - 1][entry.payload]]
  <1> DEFINE V == [Payloads -> BOOLEAN]
             Of(n, below) ==
               [p \in Payloads |->
                  n # 0 =>
                    \A k \in 1 .. Len(Bytes[p].entries) :
                       LET entry == Bytes[p].entries[k]
                       IN  IsContainer(entry) =>
                              /\ Acquisitions[n - 1][entry.payload] < SlotCount
                              /\ ~Pool!Recycles(Bytes[entry.payload].size,
                                                MaxNestedDepth + 2 - n)
                              /\ below[entry.payload]]
             step == [n \in Nat |-> [below \in V |-> Of(n, below)]]
             first == [p \in Payloads |-> TRUE]
  <1>1. first \in V /\ \A n \in Nat, below \in V : Of(n, below) \in V
    BY Zenon
  <1> HIDE DEF Of
  <1>2. step \in [Nat -> [V -> V]]
    BY <1>1, Zenon
  <1>3. PICK f \in [Nat -> V] : Recursive(f, first, step)
    <2> HIDE DEF step, V, first
    <2> QED
      BY <1>1, <1>2, Recursion
  <1>4. f[0] = first /\ \A n \in Nat \ {0} : f[n] = Of(n, f[n - 1])
    <2>1. \A n \in Nat \ {0} : n \in Nat /\ f[n - 1] \in V
      OBVIOUS
    <2>2. \A n \in Nat, below \in V : step[n][below] = Of(n, below)
      BY Zenon
    <2> HIDE DEF step, V, first
    <2>3. f[0] = first /\ \A n \in Nat \ {0} : f[n] = step[n][f[n - 1]]
      BY <1>3, Zenon DEF Recursive
    <2> QED
      BY <2>1, <2>2, <2>3, Zenon
  <1>5. \A n \in Nat : f[n] = Of(n, f[n - 1])
    <2>1. \A below : Of(0, below) = first
      BY Zenon DEF Of
    <2> HIDE DEF first
    <2> QED
      BY <1>4, <2>1, Zenon
  <1>6. f = [n \in Nat |-> Of(n, f[n - 1])]
    <2>1. f = [n \in Nat |-> f[n]]
      OBVIOUS
    <2> QED
      BY <1>5, <2>1
  <1> DEFINE Body(g) == [n \in Nat |-> Of(n, g[n - 1])]
             fits == CHOOSE g : g = Body(g)
  <1>7. Fits = [n \in Nat |-> Of(n, Fits[n - 1])]
    <2>1. Fits = fits
      BY Zenon DEF Fits, Of
    <2>2. f = Body(f)
      BY <1>6
    <2> HIDE DEF Body
    <2>3. fits = Body(fits)
      BY <2>2, Zenon
    <2> HIDE DEF fits
    <2>4. Fits = Body(Fits)
      BY <2>1, <2>3, Zenon
    <2> QED
      BY <2>4, Zenon DEF Body
  <1>8. ASSUME NEW n \in Nat
        PROVE  Fits[n] = Of(n, Fits[n - 1])
    BY <1>7, Zenon
  <1> QED
    BY <1>8, Zenon DEF Of

LEMMA FitsFacts ==
    ASSUME NEW n \in Nat, NEW p \in Payloads, Fits[n + 1][p],
           NEW k \in 1 .. Len(Bytes[p].entries)
    PROVE  FitsEntry(n, Bytes[p].entries[k])
  <1>1. PICK m \in Nat : m = n + 1 /\ m - 1 = n /\ m # 0
                         /\ MaxNestedDepth + 2 - m = MaxNestedDepth + 1 - n
    BY UnpackAssumption
  <1>2. m # 0 =>
          \A i \in 1 .. Len(Bytes[p].entries) :
             LET entry == Bytes[p].entries[i]
             IN  IsContainer(entry) =>
                    /\ Acquisitions[m - 1][entry.payload] < SlotCount
                    /\ ~Pool!Recycles(Bytes[entry.payload].size, MaxNestedDepth + 2 - m)
                    /\ Fits[m - 1][entry.payload]
    <2>1. Fits[m][p]
      BY <1>1
    <2> QED
      BY <2>1, FitsEquation, Zenon
  <1> QED
    BY <1>1, <1>2, Zenon DEF FitsEntry

-----------------------------------------------------------------------------
(* Where a call is in what extraction should give: its first file, its     *)
(* directory and the entries that lead to it.                              *)

Where == [from : Nat, dir : Seq(STRING), at : Seq(Nat)]

Root == [from |-> 0, dir |-> <<>>, at |-> <<>>]

Level(f) == Levels(f.depth)

\* What the call of frame f gives, and its loop up to the entry it is at.
Whole(f, w) == Outcome[Level(f)][f.archive][w.dir][w.at]
Done(f, w) == LoopOutcome(Outcome[Level(f) - 1], f.archive, w.dir, w.at)[f.next - 1]

\* What parsing the entry it is at gives.
InnerDir(f, w) == NestedDir(SafeOutputPath(w.dir, Current(f).name))
InnerAt(f, w) == Append(w.at, f.next)
Inside(f, w) == Outcome[Level(f) - 1][Current(f).payload][InnerDir(f, w)][InnerAt(f, w)]

\* part, from some file on, is in whole, and fails only if whole does.
PartOf(part, from, whole) ==
    /\ whole.ok => part.ok
    /\ from + Len(part.files) <= Len(whole.files)
    /\ \A i \in 1 .. Len(part.files) : whole.files[from + i] = part.files[i]

\* Buffers: how many the loop has taken before the entry it is at, and the
\* number of the last one the call takes.
Taken(f) == Spent(Acquisitions[Level(f) - 1], f.archive)[f.next - 1]
Ceiling(f) == f.source.serial + Acquisitions[Level(f)][f.archive]

InBody(f) == f.pc \in {"copy", "descend", "nested", "write"}

\* A call is where it should be and has done without failure what it did.
FrameOn(f, w) ==
    /\ w \in Where
    /\ Fits[Level(f)][f.archive]
    /\ extract => f.dir = w.dir
    /\ PartOf(Whole(f, w), w.from, Expected)
    /\ f.pc = "open" => extract
    /\ f.pc \notin {"open", "index"} => Readable(f.archive) /\ Done(f, w).ok
    /\ InBody(f) => /\ f.source.serial < f.handle.serial
                    /\ f.handle.serial <= f.source.serial + Taken(f) + 1
                    /\ f.handle.size = Bytes[Current(f).payload].size
    /\ f.pc \in {"descend", "nested", "write"} => Current(f).chunk = "ok"
    /\ f.pc \in {"descend", "nested"} => IsContainer(Current(f))

\* Its buffer holds the entry.
BufferOn(f) ==
    /\ InBody(f) => Pool!Intact(f.handle)
    /\ f.pc \in {"descend", "nested", "write"} =>
          contents[f.handle.slot] = Current(f).payload

\* The call g was made by f.
LinkOn(f, v, g, w) ==
    /\ g.archive = Current(f).payload
    /\ g.depth = f.depth + 1
    /\ w.from = v.from + Len(Done(f, v).files)
    /\ w.dir = InnerDir(f, v)
    /\ w.at = InnerAt(f, v)

\* What the innermost call has written and how many buffers it has taken.
TopOn(f, w) ==
    /\ f.pc \in {"open", "index"} => acquires = f.source.serial
    /\ f.pc = "entry" =>
          f.source.serial <= acquires /\ acquires <= f.source.serial + Taken(f)
    /\ f.pc \in {"copy", "descend"} => acquires = f.handle.serial
    /\ f.pc = "write" =>
          /\ f.handle.serial <= acquires
          /\ acquires <= f.handle.serial
               + (IF IsContainer(Current(f))
                    THEN Acquisitions[Level(f) - 1][Current(f).payload] ELSE 0)
          /\ IsContainer(Current(f)) => Inside(f, w).ok
    /\ extract =>
          Len(written) = w.from
             + (IF f.pc \in {"open", "index"} THEN 0 ELSE Len(Done(f, w).files))
             + (IF f.pc = "write" /\ IsContainer(Current(f))
                  THEN Len(Inside(f, w).files) ELSE 0)

\* The calls s are at the places W.
Tracks(s, W) ==
    /\ s[1].archive = root /\ s[1].depth = FirstDepth /\ W[1] = Root
    /\ \A j \in 1 .. Len(s) : FrameOn(s[j], W[j]) /\ BufferOn(s[j])
    /\ \A j \in 1 .. Len(s) - 1 : LinkOn(s[j], W[j], s[j + 1], W[j + 1])
    /\ \A j \in 1 .. Len(s) :
          /\ Len(W[j].at) = j - 1
          /\ \A i \in 1 .. j - 1 : /\ W[j].at[i] = s[i].next
                                   /\ s[i].handle.serial <= s[j].source.serial
                                   /\ Ceiling(s[j]) <= Ceiling(s[i])
    /\ TopOn(s[Len(s)], W[Len(s)])

Tracked == \E s, W : s = stack /\ Tracks(s, W)

\* While extraction runs, it has written what it should.
Faithful ==
    /\ Tracked
    /\ ~extract => written = <<>>
    /\ Agree(written, Expected.files)

\* And at its end what it says is so.
FidelityInv ==
    RootFits => IF stack = <<>> THEN FaithfulPrefix /\ SuccessExact ELSE Faithful

\* What a result is made of.
LEMMA ResultFacts ==
    ASSUME NEW r \in Result
    PROVE  r.files \in Seq(File) /\ Len(r.files) \in Nat /\ r.ok \in BOOLEAN
  <1>1. r.files \in Seq(File) /\ r.ok \in BOOLEAN
    BY DEF Result
  <1> QED
    BY <1>1, LenProperties, Zenon

\* A part of a part.
LEMMA PartTransitive ==
    ASSUME NEW a \in Result, NEW b \in Result, NEW c \in Result,
           NEW i \in Nat, NEW j \in Nat, PartOf(a, i, b), PartOf(b, j, c)
    PROVE  PartOf(a, j + i, c)
  <1>1. PICK l \in Nat, m \in Nat, n \in Nat :
          l = Len(a.files) /\ m = Len(b.files) /\ n = Len(c.files)
    BY ResultFacts
  <1>2. i + l <= m /\ j + m <= n
    BY <1>1, Zenon DEF PartOf
  <1>3. (j + i) + l <= n
    BY <1>2
  <1>4. ASSUME NEW x \in 1 .. l
        PROVE  c.files[(j + i) + x] = a.files[x]
    <2>1. PICK y \in 1 .. m : y = i + x /\ j + y = (j + i) + x
      BY <1>2
    <2>2. b.files[y] = a.files[x] /\ c.files[j + y] = b.files[y]
      BY <1>1, <2>1, Zenon DEF PartOf
    <2> QED
      BY <2>1, <2>2
  <1>5. c.ok => a.ok
    BY Zenon DEF PartOf
  <1> QED
    BY <1>1, <1>3, <1>4, <1>5, Zenon DEF PartOf

\* A part at the beginning.
LEMMA InitialPart ==
    ASSUME NEW a \in Result, NEW b \in Result
    PROVE  PartOf(a, 0, b) <=> IsInitial(a.files, b.files) /\ (b.ok => a.ok)
  <1>1. PICK l \in Nat : l = Len(a.files)
    BY ResultFacts
  <1>2. 0 + l = l /\ \A i \in 1 .. l : 0 + i = i
    OBVIOUS
  <1> QED
    BY <1>1, <1>2, Zenon DEF PartOf, IsInitial

LEMMA ThenParts ==
    ASSUME NEW a \in Result, NEW b \in Result
    PROVE  PartOf(a, 0, Then(a, b)) /\ (a.ok => PartOf(b, Len(a.files), Then(a, b)))
  <1> PICK c : c = Then(a, b)
    OBVIOUS
  <1>1. /\ c \in Result
        /\ IsInitial(a.files, c.files)
        /\ c.ok <=> a.ok /\ b.ok
        /\ a.ok => /\ Len(c.files) = Len(a.files) + Len(b.files)
                   /\ \A i \in 1 .. Len(b.files) : c.files[Len(a.files) + i] = b.files[i]
    BY ThenFacts, Zenon
  <1>2. PICK l \in Nat, m \in Nat : l = Len(a.files) /\ m = Len(b.files) /\ l + m <= l + m
    BY ResultFacts
  <1>3. a.ok => PartOf(b, Len(a.files), c)
    BY <1>1, <1>2, Zenon DEF PartOf
  <1>4. PartOf(a, 0, c)
    BY <1>1, InitialPart, Zenon
  <1> QED
    BY <1>3, <1>4

LEMMA ThenOk ==
    ASSUME NEW a \in Result, NEW b \in Result
    PROVE  Then(a, b).ok <=> a.ok /\ b.ok
  BY ThenFacts, Zenon

LEMMA ThenLength ==
    ASSUME NEW a \in Result, NEW b \in Result, a.ok
    PROVE  Len(Then(a, b).files) = Len(a.files) + Len(b.files)
  BY ThenFacts, Zenon

LEMMA ThenRest ==
    ASSUME NEW a \in Result, NEW b \in Result, a.ok, NEW i \in 1 .. Len(b.files)
    PROVE  Then(a, b).files[Len(a.files) + i] = b.files[i]
  BY ThenFacts

\* The types of what is said of a call.
LEMMA FrameTypes ==
    ASSUME NEW f, FrameInv(f), NEW w \in Where
    PROVE  /\ f.archive \in Payloads /\ f.next \in Nat \ {0}
           /\ Len(Entries(f)) \in Nat /\ f.next - 1 \in 0 .. Len(Entries(f))
           /\ f.depth \in 0 .. MaxNestedDepth
           /\ Level(f) \in Nat \ {0} /\ Level(f) - 1 \in Nat
           /\ w.from \in Nat /\ w.dir \in Seq(STRING) /\ w.at \in Seq(Nat)
           /\ Whole(f, w) \in Result /\ Done(f, w) \in Result
           /\ Taken(f) \in Nat
  <1>1. f.archive \in Payloads /\ f.next \in Nat \ {0} /\ f.depth \in 0 .. MaxNestedDepth
    BY DEF FrameInv, IsFrame
  <1>2. Len(Entries(f)) \in Nat
    BY <1>1, ParsedFacts DEF Entries
  <1>3. f.next - 1 \in 0 .. Len(Entries(f))
    BY <1>1, <1>2 DEF FrameInv
  <1>4. Level(f) \in Nat \ {0} /\ Level(f) - 1 \in Nat
    BY <1>1, UnpackAssumption DEF Level, Levels
  <1>5. w.from \in Nat /\ w.dir \in Seq(STRING) /\ w.at \in Seq(Nat)
    BY DEF Where
  <1>6. Outcome[Level(f)] \in Table /\ Outcome[Level(f) - 1] \in Table
    BY <1>4, OutcomeFacts
  <1>7. Whole(f, w) \in Result
    BY <1>1, <1>5, <1>6 DEF Whole, Table
  <1>8. Done(f, w) \in Result
    <2>1. f.next - 1 \in 0 .. Len(Bytes[f.archive].entries)
      BY <1>3 DEF Entries
    <2> QED
      BY <1>1, <1>5, <1>6, <2>1, LoopFacts, Zenon DEF Done
  <1>9. Taken(f) \in Nat
    <2>1. f.next - 1 \in 0 .. Len(Bytes[f.archive].entries)
      BY <1>3 DEF Entries
    <2>2. Acquisitions[Level(f) - 1] \in [Payloads -> Nat]
      BY <1>4, AcquisitionsFacts, Zenon
    <2> QED
      BY <1>1, <2>1, <2>2, SpentFacts, Zenon DEF Taken
  <1> QED
    BY <1>1, <1>2, <1>3, <1>4, <1>5, <1>7, <1>8, <1>9

\* What the loop body does for the entry the call is at.
Here(f, w) == EntryOutcome(Outcome[Level(f) - 1], f.archive, w.dir, w.at, f.next)

\* The file it is written to, if nothing fails.
FileHere(f, w) ==
    [path |-> SafeOutputPath(w.dir, Current(f).name), bytes |-> Current(f).payload,
     entry |-> InnerAt(f, w)]

\* And of the entry it is at.
LEMMA InsideTypes ==
    ASSUME NEW f, FrameInv(f), NEW w \in Where, f.next <= Len(Entries(f))
    PROVE  /\ f.next \in 1 .. Len(Entries(f))
           /\ Current(f).payload \in Payloads
           /\ InnerDir(f, w) \in Seq(STRING) /\ InnerAt(f, w) \in Seq(Nat)
           /\ Inside(f, w) \in Result /\ Here(f, w) \in Result
           /\ FileHere(f, w) \in File
  <1>1. /\ f.archive \in Payloads /\ f.next \in Nat \ {0} /\ Len(Entries(f)) \in Nat
        /\ Level(f) - 1 \in Nat /\ w.dir \in Seq(STRING) /\ w.at \in Seq(Nat)
    BY FrameTypes
  <1>2. f.next \in 1 .. Len(Entries(f)) /\ f.next \in 1 .. Len(Bytes[f.archive].entries)
    BY <1>1 DEF Entries
  <1>3. Current(f).payload \in Payloads
    BY <1>1, <1>2, ParsedFacts DEF Current, Entries
  <1>4. PICK path : path = SafeOutputPath(w.dir, Current(f).name)
    OBVIOUS
  <1>5. path \in Seq(STRING) /\ NestedDir(path) \in Seq(STRING)
    BY <1>1, <1>2, <1>4, PathFacts DEF Current, Entries
  <1>6. InnerAt(f, w) \in Seq(Nat)
    BY <1>1 DEF InnerAt
  <1>7. Outcome[Level(f) - 1] \in Table
    BY <1>1, OutcomeFacts
  <1>8. InnerDir(f, w) \in Seq(STRING)
    BY <1>4, <1>5 DEF InnerDir
  <1>9. Inside(f, w) \in Result
    <2>1. PICK below \in Table : below = Outcome[Level(f) - 1]
      BY <1>7
    <2>2. \A p \in Payloads, d \in Seq(STRING), a \in Seq(Nat) : below[p][d][a] \in Result
      BY DEF Table
    <2> QED
      BY <1>3, <1>6, <1>8, <2>1, <2>2, Zenon DEF Inside
  <1>10. Here(f, w) \in Result
    BY <1>1, <1>2, <1>7, EntryOutcomeType DEF Here
  <1>11. FileHere(f, w) \in File
    BY <1>3, <1>4, <1>5, <1>6 DEF FileHere, File
  <1> QED
    BY <1>2, <1>3, <1>6, <1>8, <1>9, <1>10, <1>11

\* The loop body's part, in detail.
LEMMA HereFacts ==
    ASSUME NEW f, FrameInv(f), NEW w \in Where, f.next <= Len(Entries(f))
    PROVE  /\ Current(f).chunk # "ok" => ~Here(f, w).ok
           /\ Current(f).chunk = "ok" /\ IsContainer(Current(f)) =>
                 /\ PartOf(Inside(f, w), 0, Here(f, w))
                 /\ Inside(f, w).ok =>
                       /\ Here(f, w).ok
                       /\ Len(Here(f, w).files) = Len(Inside(f, w).files) + 1
                       /\ Here(f, w).files[Len(Inside(f, w).files) + 1] = FileHere(f, w)
           /\ Current(f).chunk = "ok" /\ ~IsContainer(Current(f)) =>
                 /\ Here(f, w).ok
                 /\ Len(Here(f, w).files) = 1
                 /\ Here(f, w).files[1] = FileHere(f, w)
  <1> PICK out : out = [files |-> <<FileHere(f, w)>>, ok |-> TRUE]
    OBVIOUS
  <1>1. FileHere(f, w) \in File /\ Inside(f, w) \in Result
    BY InsideTypes
  <1>2. /\ out \in Result /\ out.ok /\ Len(out.files) = 1
        /\ out.files[1] = FileHere(f, w)
    BY <1>1 DEF Result
  <1>3. Here(f, w) = IF Current(f).chunk # "ok" THEN Rejected
                     ELSE IF IsContainer(Current(f)) THEN Then(Inside(f, w), out) ELSE out
    BY Zenon DEF Here, EntryOutcome, FileHere, Inside, InnerDir, InnerAt, Current, Entries
  <1>4. ~Rejected.ok
    BY DEF Rejected
  <1>5. ASSUME Here(f, w) = Then(Inside(f, w), out)
        PROVE  /\ PartOf(Inside(f, w), 0, Here(f, w))
               /\ Inside(f, w).ok =>
                     /\ Here(f, w).ok
                     /\ Len(Here(f, w).files) = Len(Inside(f, w).files) + 1
                     /\ Here(f, w).files[Len(Inside(f, w).files) + 1] = FileHere(f, w)
    <2>1. PICK in \in Result : in = Inside(f, w)
      BY <1>1
    <2>2. PICK here : here = Then(in, out)
      OBVIOUS
    <2>3. PartOf(in, 0, Then(in, out))
      BY <1>2, <2>1, ThenParts, Zenon
    <2>4. ASSUME in.ok
          PROVE  Then(in, out).ok
      <3>1. Then(in, out).ok = out.ok
        BY <2>4 DEF Then
      <3> QED
        BY <1>2, <3>1
    <2>5. in.ok => Len(Then(in, out).files) = Len(in.files) + 1
      BY <1>2, ThenLength, Zenon
    <2>6. in.ok => Then(in, out).files[Len(in.files) + 1] = FileHere(f, w)
      <3>1. 1 \in 1 .. Len(out.files)
        BY <1>2
      <3> QED
        BY <1>2, <3>1, ThenRest, Zenon
    <2> QED
      BY <1>5, <2>1, <2>3, <2>4, <2>5, <2>6, <2>2, Zenon
  <1> QED
    BY <1>2, <1>3, <1>4, <1>5, Zenon

\* A call that has done without failure what it did so far: what it does next
\* is in the whole.
LEMMA BodyFacts ==
    ASSUME NEW f, FrameInv(f), NEW w \in Where, f.next <= Len(Entries(f)),
           Readable(f.archive), Done(f, w).ok
    PROVE  PartOf(Here(f, w), Len(Done(f, w).files), Whole(f, w))
  <1>1. /\ f.archive \in Payloads /\ f.next \in Nat \ {0} /\ Len(Entries(f)) \in Nat
        /\ Level(f) \in Nat \ {0} /\ Level(f) - 1 \in Nat
        /\ w.dir \in Seq(STRING) /\ w.at \in Seq(Nat)
        /\ Whole(f, w) \in Result /\ Done(f, w) \in Result
    BY FrameTypes
  <1>2. Here(f, w) \in Result /\ f.next \in 1 .. Len(Entries(f))
    BY InsideTypes
  <1>3. PICK below \in Table : below = Outcome[Level(f) - 1]
    BY <1>1, OutcomeFacts
  <1>4. PICK n \in Nat : n = Len(Bytes[f.archive].entries) /\ n = Len(Entries(f))
    BY <1>1 DEF Entries
  <1>5. PICK loop : loop = LoopOutcome(below, f.archive, w.dir, w.at)
    OBVIOUS
  <1>6. loop[f.next] = Then(Done(f, w), Here(f, w)) /\ loop[f.next] \in Result
    <2>1. f.next \in 1 .. n /\ f.next \in 0 .. n
      BY <1>2, <1>4
    <2>2. \A k \in 1 .. n :
            loop[k] = Then(loop[k - 1], EntryOutcome(below, f.archive, w.dir, w.at, k))
      <3>1. PICK p \in Payloads, dir \in Seq(STRING), position \in Seq(Nat) :
              p = f.archive /\ dir = w.dir /\ position = w.at
        BY <1>1
      <3>2. \A k \in 1 .. Len(Bytes[p].entries) :
               LoopOutcome(below, p, dir, position)[k] =
                 Then(LoopOutcome(below, p, dir, position)[k - 1],
                      EntryOutcome(below, p, dir, position, k))
        BY LoopFacts, Zenon
      <3> QED
        BY <1>4, <1>5, <3>1, <3>2, Zenon
    <2>3. loop[f.next] = Then(loop[f.next - 1], EntryOutcome(below, f.archive, w.dir, w.at, f.next))
      BY <2>1, <2>2, Zenon
    <2>4. loop[f.next] \in Result
      BY <1>1, <1>4, <1>5, <2>1, LoopFacts, Zenon
    <2> QED
      BY <1>3, <1>5, <2>3, <2>4, Zenon DEF Done, Here
  <1>7. PartOf(Here(f, w), Len(Done(f, w).files), loop[f.next])
    BY <1>1, <1>2, <1>6, ThenParts, Zenon
  <1>8. PICK tail \in Result : tail = [files |-> <<>>, ok |->
        Bytes[f.archive].extension # "truncated"]
    <2>1. PICK t : t = [files |-> <<>>, ok |-> Bytes[f.archive].extension # "truncated"]
      OBVIOUS
    <2>2. t \in Result
      BY <2>1 DEF Result
    <2> QED
      BY <2>1, <2>2
  <1>9. Whole(f, w) = Then(loop[n], tail)
    <2>1. Whole(f, w) = ArchiveOutcome(below, f.archive, w.dir, w.at)
      BY <1>1, <1>3, OutcomeFacts, Zenon DEF Whole
    <2> QED
      BY <1>4, <1>5, <1>8, <2>1, Zenon DEF ArchiveOutcome
  <1>10. loop[n] \in Result /\ PartOf(loop[f.next], 0, loop[n])
    <2>1. f.next \in 0 .. n /\ n \in f.next .. n /\ n \in 0 .. n
      BY <1>2, <1>4
    <2>2. IsInitial(loop[f.next].files, loop[n].files) /\ (loop[n].ok => loop[f.next].ok)
      BY <1>1, <1>4, <1>5, <2>1, LoopGrows, Zenon
    <2>3. loop[n] \in Result
      BY <1>1, <1>4, <1>5, <2>1, LoopFacts, Zenon
    <2> QED
      BY <1>6, <2>2, <2>3, InitialPart, Zenon
  <1>11. PartOf(loop[n], 0, Whole(f, w))
    BY <1>8, <1>9, <1>10, ThenParts, Zenon
  <1>12. PartOf(loop[f.next], 0 + 0, Whole(f, w))
    BY <1>1, <1>6, <1>10, <1>11, PartTransitive
  <1>13. Len(Done(f, w).files) \in Nat
    BY <1>1, ResultFacts
  <1>14. PartOf(Here(f, w), (0 + 0) + Len(Done(f, w).files), Whole(f, w))
    BY <1>1, <1>2, <1>6, <1>7, <1>12, <1>13, PartTransitive
  <1>15. (0 + 0) + Len(Done(f, w).files) = Len(Done(f, w).files)
    BY <1>13
  <1> QED
    BY <1>14, <1>15

\* What the call gives when its loop is done.
LEMMA EndFacts ==
    ASSUME NEW f, FrameInv(f), NEW w \in Where, f.next > Len(Entries(f)),
           Readable(f.archive), Done(f, w).ok
    PROVE  /\ Whole(f, w).ok <=> Bytes[f.archive].extension # "truncated"
           /\ Len(Whole(f, w).files) = Len(Done(f, w).files)
  <1>1. /\ f.archive \in Payloads /\ f.next \in Nat \ {0} /\ Len(Entries(f)) \in Nat
        /\ f.next - 1 \in 0 .. Len(Entries(f))
        /\ Level(f) \in Nat \ {0} /\ w.dir \in Seq(STRING) /\ w.at \in Seq(Nat)
        /\ Done(f, w) \in Result
    BY FrameTypes
  <1>2. f.next - 1 = Len(Bytes[f.archive].entries)
    BY <1>1 DEF Entries
  <1>3. PICK tail \in Result : tail = [files |-> <<>>, ok |->
        Bytes[f.archive].extension # "truncated"]
    <2>1. PICK t : t = [files |-> <<>>, ok |-> Bytes[f.archive].extension # "truncated"]
      OBVIOUS
    <2>2. t \in Result
      BY <2>1 DEF Result
    <2> QED
      BY <2>1, <2>2
  <1>4. Whole(f, w) = Then(Done(f, w), tail)
    <2>1. Whole(f, w) = ArchiveOutcome(Outcome[Level(f) - 1], f.archive, w.dir, w.at)
      BY <1>1, OutcomeFacts, Zenon DEF Whole
    <2> QED
      BY <1>2, <1>3, <2>1, Zenon DEF ArchiveOutcome, Done
  <1>5. Len(tail.files) = 0 /\ tail.ok = (Bytes[f.archive].extension # "truncated")
    BY <1>3
  <1>6. PICK done \in Result, m \in Nat : done = Done(f, w) /\ m = Len(done.files) /\ m + 0 = m
    <2>1. PICK m \in Nat : m = Len(Done(f, w).files) /\ m + 0 = m
      BY <1>1, ResultFacts
    <2> QED
      BY <1>1, <2>1
  <1>7. Then(done, tail).ok <=> done.ok /\ tail.ok
    BY ThenOk, Zenon
  <1>8. done.ok => Len(Then(done, tail).files) = Len(done.files) + Len(tail.files)
    BY ThenLength, Zenon
  <1> QED
    BY <1>4, <1>5, <1>6, <1>7, <1>8, Zenon

\* A rejected index gives nothing.
LEMMA RejectedWhole ==
    ASSUME NEW f, FrameInv(f), NEW w \in Where, ~Readable(f.archive)
    PROVE  ~Whole(f, w).ok
  <1>1. /\ f.archive \in Payloads /\ Level(f) \in Nat \ {0}
        /\ w.dir \in Seq(STRING) /\ w.at \in Seq(Nat)
    BY FrameTypes
  <1>2. Whole(f, w) = ArchiveOutcome(Outcome[Level(f) - 1], f.archive, w.dir, w.at)
    BY <1>1, OutcomeFacts, Zenon DEF Whole
  <1>3. Whole(f, w) = Rejected
    BY <1>2, Zenon DEF ArchiveOutcome
  <1> QED
    BY <1>3 DEF Rejected

-----------------------------------------------------------------------------
(* The stack goes on: what stays, and where the innermost call gets.       *)

\* What a call is does not depend on the pool or the files.
LEMMA FrameStays ==
    ASSUME NEW f, NEW w, UNCHANGED <<root, entrypoint>>, FrameOn(f, w)
    PROVE  FrameOn(f, w)'
  <1>1. (extract <=> extract') /\ Expected' = Expected
    BY DEF extract, Expected, FirstDepth
  <1> QED
    BY <1>1 DEF FrameOn

\* Nor does its buffer change while the pool does not.
LEMMA BufferStays ==
    ASSUME NEW f, BufferOn(f), UNCHANGED poolVars, UNCHANGED contents
    PROVE  BufferOn(f)'
  BY DEF BufferOn, poolVars, Pool!Intact, Pool!Freed, Pool!Overwritten

\* The innermost call, and the bytes it parses, which are still there.
LEMMA TopTracked ==
    ASSUME StackInv, stack # <<>>, NEW s, NEW W, s = stack, Tracks(s, W),
           NEW n, n = Len(s)
    PROVE  /\ n \in Nat \ {0} /\ n = Len(stack) /\ Top = s[n]
           /\ FrameInv(s[n]) /\ W[n] \in Where
           /\ FrameOn(s[n], W[n]) /\ BufferOn(s[n]) /\ TopOn(s[n], W[n])
           /\ SourceGood(s[n])
  <1>1. n \in Nat \ {0} /\ n = Len(stack) /\ Top = s[n]
    BY NotEmpty DEF StackInv, Top
  <1>2. n \in 1 .. Len(s) /\ n \in 1 .. Len(stack)
    BY <1>1
  <1>3. FrameInv(s[n])
    BY <1>2 DEF StackInv
  <1>4. FrameOn(s[n], W[n]) /\ BufferOn(s[n]) /\ TopOn(s[n], W[n])
    <2>1. FrameOn(s[n], W[n]) /\ BufferOn(s[n])
      BY <1>2, Zenon DEF Tracks
    <2>2. TopOn(s[n], W[n])
      BY Zenon DEF Tracks
    <2> QED
      BY <2>1, <2>2
  <1>5. W[n] \in Where
    BY <1>4 DEF FrameOn
  <1>6. ASSUME n = 1
        PROVE  SourceGood(s[n])
    BY <1>1, <1>6 DEF StackInv, OuterInv, SourceGood
  <1>7. ASSUME n # 1
        PROVE  SourceGood(s[n])
    <2>1. PICK m \in 1 .. Len(s) : m = n - 1 /\ m < Len(stack) /\ n \in 2 .. Len(stack)
      BY <1>1, <1>7
    <2>2. s[m].pc = "nested" /\ s[n].source = s[m].handle
      <3>1. /\ \A k \in 1 .. Len(stack) : stack[k].pc = "nested" <=> k < Len(stack)
            /\ \A k \in 2 .. Len(stack) : stack[k].source = stack[k - 1].handle
        BY DEF StackInv
      <3>2. m \in 1 .. Len(stack)
        BY <1>1, <2>1
      <3> QED
        BY <2>1, <3>1, <3>2, Zenon
    <2>3. BufferOn(s[m])
      BY <2>1 DEF Tracks
    <2>4. Pool!Intact(s[m].handle)
      BY <2>2, <2>3 DEF BufferOn, InBody
    <2> QED
      BY <2>2, <2>4 DEF SourceGood
  <1> QED
    BY <1>1, <1>3, <1>4, <1>5, <1>6, <1>7

\* The innermost call goes on.
LEMMA TrackUpdate ==
    ASSUME StackInv, stack # <<>>, NEW s, NEW W, s = stack, Tracks(s, W),
           NEW n, n = Len(s), NEW g, Update(g),
           g.archive = s[n].archive, g.depth = s[n].depth, g.source = s[n].source,
           UNCHANGED <<root, entrypoint>>,
           FrameOn(g, W[n])', BufferOn(g)', TopOn(g, W[n])',
           \A j \in 1 .. n - 1 : BufferOn(s[j])'
    PROVE  Tracked'
  <1>1. /\ n \in Nat \ {0} /\ Len(stack') = n /\ stack'[n] = g
        /\ \A j \in 1 .. n - 1 : stack'[j] = s[j]
    BY UpdatedStack DEF StackInv
  <1>2. PICK t : t = stack'
    OBVIOUS
  <1>3. Len(t) = n /\ t[n] = g /\ \A j \in 1 .. n - 1 : t[j] = s[j]
    BY <1>1, <1>2
  <1>4. /\ s[1].archive = root /\ s[1].depth = FirstDepth /\ W[1] = Root
        /\ \A j \in 1 .. n : FrameOn(s[j], W[j])
        /\ \A j \in 1 .. n - 1 : LinkOn(s[j], W[j], s[j + 1], W[j + 1])
        /\ \A j \in 1 .. n :
              /\ Len(W[j].at) = j - 1
              /\ \A i \in 1 .. j - 1 : /\ W[j].at[i] = s[i].next
                                       /\ s[i].handle.serial <= s[j].source.serial
                                       /\ Ceiling(s[j]) <= Ceiling(s[i])
    BY DEF Tracks
  <1>5. /\ t[1].archive = s[1].archive /\ t[1].depth = s[1].depth
        /\ root' = root /\ FirstDepth' = FirstDepth
    <2>1. root' = root /\ FirstDepth' = FirstDepth
      BY DEF FirstDepth
    <2>2. CASE n = 1
      BY <1>3, <2>1, <2>2
    <2>3. CASE n # 1
      BY <1>1, <1>3, <2>1, <2>3
    <2> QED
      BY <2>2, <2>3
  <1>6. ASSUME NEW j \in 1 .. n
        PROVE  FrameOn(t[j], W[j])' /\ BufferOn(t[j])'
    <2>1. CASE j = n
      BY <1>3, <2>1
    <2>2. CASE j # n
      <3>1. j \in 1 .. n - 1 /\ t[j] = s[j]
        BY <1>1, <1>3, <2>2
      <3>2. FrameOn(s[j], W[j])'
        BY <1>4, FrameStays
      <3> QED
        BY <3>1, <3>2
    <2> QED
      BY <2>1, <2>2
  <1>7. ASSUME NEW j \in 1 .. n - 1
        PROVE  LinkOn(t[j], W[j], t[j + 1], W[j + 1])
    <2>1. LinkOn(s[j], W[j], s[j + 1], W[j + 1]) /\ t[j] = s[j]
      BY <1>3, <1>4
    <2>2. CASE j + 1 = n
      BY <1>3, <2>1, <2>2 DEF LinkOn
    <2>3. CASE j + 1 # n
      <3>1. j + 1 \in 1 .. n - 1
        BY <1>1, <2>3
      <3> QED
        BY <1>3, <2>1, <3>1
    <2> QED
      BY <2>2, <2>3
  <1>8. ASSUME NEW j \in 1 .. n, NEW i \in 1 .. j - 1
        PROVE  /\ W[j].at[i] = t[i].next
               /\ t[i].handle.serial <= t[j].source.serial
               /\ Ceiling(t[j]) <= Ceiling(t[i])
    <2>1. i \in 1 .. n - 1 /\ t[i] = s[i]
      BY <1>1, <1>3
    <2>2. t[j].source = s[j].source /\ Ceiling(t[j]) = Ceiling(s[j])
      <3>1. CASE j = n
        BY <1>3, <3>1 DEF Ceiling, Level
      <3>2. CASE j # n
        BY <1>1, <1>3, <3>2
      <3> QED
        BY <3>1, <3>2
    <2> QED
      BY <1>4, <2>1, <2>2
  <1>9. TopOn(t[Len(t)], W[Len(t)])'
    BY <1>3
  <1>10. Tracks(t, W)'
    <2>1. t[1].archive = root' /\ t[1].depth = FirstDepth' /\ W[1] = Root
      BY <1>4, <1>5
    <2>2. \A j \in 1 .. Len(t) : FrameOn(t[j], W[j])' /\ BufferOn(t[j])'
      BY <1>3, <1>6
    <2>3. \A j \in 1 .. Len(t) - 1 : LinkOn(t[j], W[j], t[j + 1], W[j + 1])
      BY <1>3, <1>7
    <2>4. \A j \in 1 .. Len(t) :
          /\ Len(W[j].at) = j - 1
          /\ \A i \in 1 .. j - 1 : /\ W[j].at[i] = t[i].next
                                   /\ t[i].handle.serial <= t[j].source.serial
                                   /\ Ceiling(t[j]) <= Ceiling(t[i])
      BY <1>3, <1>4, <1>8
    <2> QED
      BY <1>9, <2>1, <2>2, <2>3, <2>4 DEF Tracks
  <1> QED
    BY <1>2, <1>10 DEF Tracked

-----------------------------------------------------------------------------
(* How extraction ends.                                                    *)

\* A frame that differs in its state alone.
LEMMA SameCall ==
    ASSUME NEW f, NEW g, NEW w, g.archive = f.archive, g.depth = f.depth
    PROVE  /\ Level(g) = Level(f) /\ Whole(g, w) = Whole(f, w)
           /\ Entries(g) = Entries(f)
           /\ g.next = f.next =>
                /\ Done(g, w) = Done(f, w) /\ Taken(g) = Taken(f)
                /\ Current(g) = Current(f) /\ Inside(g, w) = Inside(f, w)
  <1>1. Level(g) = Level(f) /\ Entries(g) = Entries(f)
    BY DEF Level, Entries
  <1>2. Whole(g, w) = Whole(f, w)
    BY <1>1 DEF Whole
  <1>3. ASSUME g.next = f.next
        PROVE  /\ Done(g, w) = Done(f, w) /\ Taken(g) = Taken(f)
               /\ Current(g) = Current(f) /\ Inside(g, w) = Inside(f, w)
    BY <1>1, <1>3 DEF Done, Taken, Current, Inside, InnerDir, InnerAt
  <1> QED
    BY <1>1, <1>2, <1>3

LEMMA ExpectedType ==
    ASSUME StackInv
    PROVE  Expected \in Result
  <1>1. Levels(FirstDepth) \in Nat
    BY UnpackAssumption DEF Levels, FirstDepth
  <1>2. root \in Payloads /\ <<>> \in Seq(STRING) /\ <<>> \in Seq(Nat)
    BY DEF StackInv
  <1>3. PICK below \in Table : below = Outcome[Levels(FirstDepth)]
    BY <1>1, OutcomeFacts
  <1>4. \A p \in Payloads, d \in Seq(STRING), a \in Seq(Nat) : below[p][d][a] \in Result
    BY DEF Table
  <1> QED
    BY <1>2, <1>3, <1>4, Zenon DEF Expected

LEMMA AgreeNotTorn ==
    ASSUME NEW e \in Seq(File), NEW files, IsList(files), Agree(files, e), files # <<>>
    PROVE  files[Len(files)].bytes # Torn
  <1>1. PICK n \in Nat \ {0} : n = Len(files) /\ n \in DOMAIN files
    <2> DEFINE S == {files[k] : k \in 1 .. Len(files)}
    <2>1. files \in Seq(S)
      BY DEF IsList
    <2>2. DOMAIN files = 1 .. Len(files)
      <3> HIDE DEF S
      <3> QED
        BY <2>1
    <2>3. Len(files) \in Nat \ {0}
      BY NotEmpty
    <2>4. Len(files) \in 1 .. Len(files)
      BY <2>3
    <2>5. Len(files) \in DOMAIN files
      BY <2>2, <2>4, Zenon
    <2> QED
      BY <2>3, <2>5, Zenon
  <1>2. n \in 1 .. Len(e)
    <2>1. Len(e) \in Nat
      OBVIOUS
    <2> QED
      BY <1>1, <2>1 DEF Agree
  <1>3. PICK x \in File : x = e[n]
    BY <1>2
  <1>4. files[n] \in {x, [x EXCEPT !.bytes = Lost]}
    BY <1>1, <1>3 DEF Agree
  <1>5. files[n].bytes \in {x.bytes, Lost} /\ x.bytes \in Payloads
    BY <1>4 DEF File
  <1> QED
    BY <1>1, <1>5, UnpackAssumption

\* Files as they should be: no torn one among them.
LEMMA WholeFiles ==
    ASSUME StackInv, FilesInv, Agree(written, Expected.files)
    PROVE  ~(written # <<>> /\ written[Len(written)].bytes = Torn)
  <1>1. Expected.files \in Seq(File)
    BY ExpectedType, ResultFacts
  <1>2. IsList(written)
    BY DEF FilesInv
  <1> QED
    BY <1>1, <1>2, AgreeNotTorn

\* While extraction runs, nothing is torn.
LEMMA Running ==
    ASSUME FullInv, FidelityInv
    PROVE  FaithfulPrefix /\ SuccessExact
  <1>1. CASE RootFits /\ stack # <<>>
    <2>1. Agree(written, Expected.files)
      BY <1>1 DEF FidelityInv, Faithful
    <2>2. result = "running"
      BY <1>1 DEF FullInv, StackInv
    <2>3. SuccessExact
      BY <2>2 DEF SuccessExact
    <2>4. FaithfulPrefix
      BY <2>1, WholeFiles, Zenon DEF FaithfulPrefix, FullInv
    <2> QED
      BY <2>3, <2>4
  <1>2. CASE RootFits /\ stack = <<>>
    BY <1>2 DEF FidelityInv
  <1>3. CASE ~RootFits
    BY <1>3 DEF FaithfulPrefix, SuccessExact
  <1> QED
    BY <1>1, <1>2, <1>3

\* A failure is no success.
LEMMA CloseFail ==
    ASSUME FullInv, RootFits, UNCHANGED <<root, entrypoint, written>>, Fail,
           Agree(written, Expected.files), ~extract => ~Expected.ok
    PROVE  FidelityInv'
  <1>1. (extract <=> extract') /\ Expected' = Expected
    BY DEF extract, Expected, FirstDepth
  <1>2. stack' = <<>> /\ result' = "error"
    BY DEF Fail
  <1>3. SuccessExact'
    <2>1. ~(result' = "ok")
      BY <1>2
    <2> QED
      BY <1>1, <2>1 DEF SuccessExact
  <1>4. FaithfulPrefix'
    <2>1. ~(written # <<>> /\ written[Len(written)].bytes = Torn)
      BY WholeFiles DEF FullInv
    <2> QED
      BY <1>1, <2>1 DEF FaithfulPrefix
  <1> QED
    BY <1>2, <1>3, <1>4 DEF FidelityInv

\* A failure in the middle of a file.
LEMMA CloseTorn ==
    ASSUME FullInv, RootFits, UNCHANGED <<root, entrypoint>>, Fail, extract,
           Agree(written, Expected.files), NEW e, e.bytes = Torn, written' = Append(written, e)
    PROVE  FidelityInv'
  <1>1. (extract <=> extract') /\ Expected' = Expected
    BY DEF extract, Expected, FirstDepth
  <1>2. stack' = <<>> /\ result' = "error"
    BY DEF Fail
  <1>3. SuccessExact'
    <2>1. ~(result' = "ok")
      BY <1>2
    <2> QED
      BY <1>1, <2>1 DEF SuccessExact
  <1> DEFINE Old == {written[k] : k \in 1 .. Len(written)}
             S == Old \cup {e}
  <1>4. written \in Seq(Old)
    BY DEF FullInv, FilesInv, IsList
  <1> HIDE DEF Old
  <1>5. written \in Seq(S) /\ Len(written) \in Nat /\ e \in S
    BY <1>4
  <1> HIDE DEF S
  <1>6. PICK n \in Nat : written \in Seq(S) /\ e \in S /\ n = Len(written)
    BY <1>5, Zenon
  <1>7. PICK w : w = written'
    OBVIOUS
  <1>8. Len(w) = n + 1 /\ w[n + 1] = e /\ w # <<>>
    BY <1>6, <1>7
  <1>9. SubSeq(w, 1, n) = written
    BY <1>6, <1>7
  <1>10. n + 1 - 1 = n
    BY <1>6
  <1>11. FaithfulPrefix'
    <2>1. w # <<>> /\ w[Len(w)].bytes = Torn /\ SubSeq(w, 1, Len(w) - 1) = written
      BY <1>6, <1>8, <1>9, <1>10
    <2>2. Agree(written, Expected'.files) /\ RootFits
      BY <1>1
    <2> QED
      BY <1>2, <1>7, <2>1, <2>2, Zenon DEF FaithfulPrefix
  <1> QED
    BY <1>2, <1>3, <1>11 DEF FidelityInv

\* What is in vain for a call is in vain for the whole.
LEMMA WholeFails ==
    ASSUME NEW f, NEW w, FrameOn(f, w), ~Whole(f, w).ok
    PROVE  ~Expected.ok
  BY DEF FrameOn, PartOf

LEMMA HereFails ==
    ASSUME NEW f, FrameInv(f), NEW w, FrameOn(f, w), f.pc \notin {"open", "index"},
           f.next <= Len(Entries(f)), ~Here(f, w).ok
    PROVE  ~Expected.ok
  <1>1. w \in Where /\ Readable(f.archive) /\ Done(f, w).ok
    BY DEF FrameOn
  <1>2. PartOf(Here(f, w), Len(Done(f, w).files), Whole(f, w))
    BY <1>1, BodyFacts
  <1> QED
    BY <1>2, WholeFails DEF PartOf

\* The buffers a call takes for one entry.
LEMMA TakenFacts ==
    ASSUME NEW f, FrameInv(f), f.next <= Len(Entries(f))
    PROVE  LET below == Acquisitions[Level(f) - 1]
               cost == IF IsContainer(Current(f)) THEN below[Current(f).payload] ELSE 0
           IN  /\ cost \in Nat
               /\ Spent(below, f.archive)[f.next] = Taken(f) + 1 + cost
               /\ Taken(f) + 1 + cost <= Acquisitions[Level(f)][f.archive]
               /\ Taken(f) \in Nat /\ Acquisitions[Level(f)][f.archive] \in Nat
  <1>1. f.archive \in Payloads /\ f.next \in Nat \ {0} /\ f.depth \in 0 .. MaxNestedDepth
    BY DEF FrameInv, IsFrame
  <1>2. PICK n \in Nat : n = Len(Bytes[f.archive].entries) /\ Entries(f) = Bytes[f.archive].entries
    BY <1>1, ParsedFacts DEF Entries
  <1>3. PICK k \in 1 .. n : k = f.next /\ k - 1 \in 0 .. n /\ k \in 0 .. n /\ n \in k .. n
    BY <1>1, <1>2
  <1>4. PICK l \in Nat \ {0} : l = Level(f) /\ l - 1 \in Nat
    BY <1>1, UnpackAssumption DEF Level, Levels
  <1>5. PICK below \in [Payloads -> Nat] : below = Acquisitions[l - 1]
    BY <1>4, AcquisitionsFacts
  <1>6. PICK p \in Payloads : p = f.archive
    BY <1>1
  <1>7. PICK cost \in Nat : cost = (IF IsContainer(Bytes[p].entries[k])
                                      THEN below[Bytes[p].entries[k].payload] ELSE 0)
    BY <1>2, <1>3, <1>6, ParsedFacts
  <1>8. Spent(below, p)[k] = Spent(below, p)[k - 1] + 1 + cost
    BY <1>2, <1>3, <1>6, <1>7, SpentFacts
  <1>9. Spent(below, p)[k] <= Spent(below, p)[n]
    BY <1>2, <1>3, <1>6, SpentGrows
  <1>10. Acquisitions[l][p] = Spent(below, p)[n] /\ Acquisitions[l] \in [Payloads -> Nat]
    BY <1>2, <1>4, <1>5, <1>6, AcquisitionsFacts, Zenon
  <1>11. Spent(below, p)[k - 1] \in Nat
    BY <1>2, <1>3, <1>6, SpentFacts
  <1>12. /\ Taken(f) = Spent(below, p)[k - 1]
         /\ Current(f) = Bytes[p].entries[k]
    BY <1>2, <1>3, <1>4, <1>5, <1>6 DEF Taken, Current
  <1>13. Spent(below, p)[k - 1] + 1 + cost <= Acquisitions[l][p] /\ Acquisitions[l][p] \in Nat
    BY <1>8, <1>9, <1>10
  <1> QED
    BY <1>3, <1>4, <1>5, <1>6, <1>7, <1>8, <1>11, <1>12, <1>13, Zenon

-----------------------------------------------------------------------------
(* The innermost call makes another, or returns.                           *)

\* The numbers of the buffers on the stack.
LEMMA SerialTypes ==
    ASSUME StackInv, P!TypeInvariant, NEW j \in 1 .. Len(stack)
    PROVE  /\ stack[j].handle.serial \in Nat
           /\ stack[j].source.serial \in Nat
           /\ Ceiling(stack[j]) \in Nat
  <1>1. ASSUME NEW i \in 1 .. Len(stack)
        PROVE  stack[i].handle.serial \in Nat
    <2>1. CASE stack[i].handle = NoHandle
      BY <2>1 DEF NoHandle
    <2>2. CASE stack[i].handle # NoHandle
      <3>1. stack[i].handle \in P!Handle
        BY <2>2 DEF OpenHandles, P!TypeInvariant
      <3> QED
        BY <3>1 DEF P!Handle
    <2> QED
      BY <2>1, <2>2
  <1>2. stack[j].source.serial \in Nat
    <2>1. CASE j = 1
      <3>1. stack[1].source = NoHandle
        BY <2>1 DEF StackInv, OuterInv
      <3> QED
        BY <2>1, <3>1 DEF NoHandle
    <2>2. CASE j # 1
      <3>1. Len(stack) \in Nat
        BY DEF StackInv, IsList
      <3>2. j \in 2 .. Len(stack) /\ j - 1 \in 1 .. Len(stack)
        BY <2>2, <3>1
      <3>3. stack[j].source = stack[j - 1].handle
        BY <3>2 DEF StackInv
      <3> QED
        BY <1>1, <3>2, <3>3
    <2> QED
      BY <2>1, <2>2
  <1>3. Ceiling(stack[j]) \in Nat
    <2>1. FrameInv(stack[j])
      BY DEF StackInv
    <2>2. stack[j].archive \in Payloads /\ stack[j].depth \in 0 .. MaxNestedDepth
      BY <2>1 DEF FrameInv, IsFrame
    <2>3. Level(stack[j]) \in Nat
      BY <2>2, UnpackAssumption DEF Level, Levels
    <2>4. Acquisitions[Level(stack[j])][stack[j].archive] \in Nat
      BY <2>2, <2>3, AcquisitionsFacts
    <2> QED
      BY <1>2, <2>4 DEF Ceiling
  <1> QED
    BY <1>1, <1>2, <1>3

\* The innermost call makes another.
LEMMA TrackPush ==
    ASSUME StackInv, P!TypeInvariant, stack # <<>>, NEW s, NEW W, s = stack, Tracks(s, W),
           NEW n, n = Len(s), NEW f, NEW g, NEW w,
           stack' = Append([stack EXCEPT ![Len(stack)] = f], g),
           f.archive = s[n].archive, f.depth = s[n].depth, f.source = s[n].source,
           f.next = s[n].next, f.handle = s[n].handle, g.source = f.handle,
           f.source.serial < f.handle.serial, Ceiling(g) \in Nat, Ceiling(g) <= Ceiling(f),
           UNCHANGED <<root, entrypoint>>,
           FrameOn(f, W[n])', BufferOn(f)', FrameOn(g, w)', BufferOn(g)', TopOn(g, w)',
           LinkOn(f, W[n], g, w), \A j \in 1 .. n - 1 : BufferOn(s[j])'
    PROVE  Tracked'
  <1>1. /\ n \in Nat \ {0} /\ Len(stack') = n + 1 /\ stack'[n + 1] = g /\ stack'[n] = f
        /\ \A j \in 1 .. n - 1 : stack'[j] = s[j]
    BY PushedStack DEF StackInv
  <1>2. PICK t : t = stack'
    OBVIOUS
  <1>3. /\ Len(t) = n + 1 /\ t[n + 1] = g /\ t[n] = f
        /\ \A j \in 1 .. n - 1 : t[j] = s[j]
    BY <1>1, <1>2
  <1>4. PICK V : V = [j \in 1 .. n + 1 |-> IF j = n + 1 THEN w ELSE W[j]]
    OBVIOUS
  <1>5. V[n + 1] = w /\ \A j \in 1 .. n : V[j] = W[j]
    BY <1>1, <1>4
  <1>6. /\ s[1].archive = root /\ s[1].depth = FirstDepth /\ W[1] = Root
        /\ \A j \in 1 .. n : FrameOn(s[j], W[j])
        /\ \A j \in 1 .. n - 1 : LinkOn(s[j], W[j], s[j + 1], W[j + 1])
        /\ \A j \in 1 .. n :
              /\ Len(W[j].at) = j - 1
              /\ \A i \in 1 .. j - 1 : /\ W[j].at[i] = s[i].next
                                       /\ s[i].handle.serial <= s[j].source.serial
                                       /\ Ceiling(s[j]) <= Ceiling(s[i])
    BY DEF Tracks
  <1>7. W[n].at \in Seq(Nat) /\ Len(W[n].at) = n - 1 /\ n \in 1 .. n
    <2>1. n \in 1 .. n
      BY <1>1
    <2>2. FrameOn(s[n], W[n]) /\ Len(W[n].at) = n - 1
      BY <1>6, <2>1
    <2> QED
      BY <2>1, <2>2 DEF FrameOn, Where
  <1>8. /\ t[1].archive = root' /\ t[1].depth = FirstDepth' /\ V[1] = Root
    <2>1. root' = root /\ FirstDepth' = FirstDepth /\ 1 \in 1 .. n
      BY <1>1 DEF FirstDepth
    <2>2. CASE n = 1
      BY <1>3, <1>5, <1>6, <2>1, <2>2
    <2>3. CASE n # 1
      BY <1>1, <1>3, <1>5, <1>6, <2>1, <2>3, SMTT(60)
    <2> QED
      BY <2>2, <2>3
  <1>9. ASSUME NEW j \in 1 .. n + 1
        PROVE  FrameOn(t[j], V[j])' /\ BufferOn(t[j])'
    <2>1. CASE j = n + 1
      BY <1>3, <1>5, <2>1
    <2>2. CASE j = n
      <3>1. V[j] = W[n] /\ t[j] = f
        BY <1>1, <1>3, <1>5, <2>2
      <3> QED
        BY <3>1
    <2>3. CASE j # n /\ j # n + 1
      <3>1. j \in 1 .. n - 1 /\ j \in 1 .. n
        BY <1>1, <2>3
      <3>2. t[j] = s[j] /\ V[j] = W[j]
        BY <1>3, <1>5, <3>1
      <3>3. FrameOn(s[j], W[j])'
        BY <1>6, <3>1, FrameStays
      <3> QED
        BY <3>1, <3>2, <3>3
    <2> QED
      BY <2>1, <2>2, <2>3
  <1>10. ASSUME NEW j \in 1 .. n
        PROVE  LinkOn(t[j], V[j], t[j + 1], V[j + 1])
    <2>1. CASE j = n
      <3>1. t[j] = f /\ V[j] = W[n] /\ t[j + 1] = g /\ V[j + 1] = w
        BY <1>1, <1>3, <1>5, <2>1
      <3> QED
        BY <3>1
    <2>2. CASE j # n
      <3>1. j \in 1 .. n - 1 /\ j + 1 \in 1 .. n
        BY <1>1, <2>2
      <3>2. LinkOn(s[j], W[j], s[j + 1], W[j + 1]) /\ t[j] = s[j] /\ V[j] = W[j]
            /\ V[j + 1] = W[j + 1]
        BY <1>3, <1>5, <1>6, <3>1
      <3>3. t[j + 1].archive = s[j + 1].archive /\ t[j + 1].depth = s[j + 1].depth
        <4>1. CASE j + 1 = n
          BY <1>3, <4>1
        <4>2. CASE j + 1 # n
          <5>1. j + 1 \in 1 .. n - 1
            BY <1>1, <3>1, <4>2
          <5> QED
            BY <1>3, <5>1
        <4> QED
          BY <4>1, <4>2
      <3> QED
        BY <3>2, <3>3 DEF LinkOn
    <2> QED
      BY <2>1, <2>2
  <1>11. ASSUME NEW i \in 1 .. n
         PROVE  /\ t[i].next = s[i].next /\ t[i].handle = s[i].handle
                /\ t[i].source = s[i].source /\ Ceiling(t[i]) = Ceiling(s[i])
    <2>1. CASE i = n
      BY <1>3, <2>1 DEF Ceiling, Level
    <2>2. CASE i # n
      BY <1>1, <1>3, <2>2
    <2> QED
      BY <2>1, <2>2
  <1>12. ASSUME NEW j \in 1 .. n + 1, NEW i \in 1 .. j - 1
         PROVE  /\ V[j].at[i] = t[i].next
                /\ t[i].handle.serial <= t[j].source.serial
                /\ Ceiling(t[j]) <= Ceiling(t[i])
    <2>1. i \in 1 .. n
      BY <1>1
    <2>2. CASE j # n + 1
      <3>1. j \in 1 .. n
        BY <1>1, <2>2
      <3>2. /\ W[j].at[i] = s[i].next
            /\ s[i].handle.serial <= s[j].source.serial
            /\ Ceiling(s[j]) <= Ceiling(s[i])
        BY <1>6, <3>1
      <3>3. V[j] = W[j] /\ t[j].source = s[j].source /\ Ceiling(t[j]) = Ceiling(s[j])
        BY <1>5, <1>11, <3>1, Zenon
      <3>4. t[i].next = s[i].next /\ t[i].handle = s[i].handle /\ Ceiling(t[i]) = Ceiling(s[i])
        BY <1>11, <2>1, Zenon
      <3> QED
        BY <3>2, <3>3, <3>4
    <2>3. CASE j = n + 1
      <3>1. w.at = Append(W[n].at, s[n].next)
        <4>1. w.at = InnerAt(f, W[n])
          BY DEF LinkOn
        <4>2. InnerAt(f, W[n]) = Append(W[n].at, f.next)
          BY Zenon DEF InnerAt
        <4> QED
          BY <4>1, <4>2
      <3>2. W[n].at \in Seq(Nat) /\ Len(W[n].at) = n - 1 /\ n \in 1 .. n
        BY <1>7
      <3>3. s[n].next \in Nat
        BY <3>2 DEF StackInv, FrameInv, IsFrame
      <3>4. w.at[i] = s[i].next
        <4>1. CASE i = n
          <5>1. w.at[n] = s[n].next
            BY <1>1, <3>1, <3>2, <3>3
          <5> QED
            BY <4>1, <5>1
        <4>2. CASE i # n
          <5>1. i \in 1 .. n - 1
            BY <1>1, <2>1, <4>2
          <5>2. W[n].at[i] = s[i].next
            BY <1>6, <3>2, <5>1
          <5>3. w.at[i] = W[n].at[i]
            BY <1>1, <3>1, <3>2, <3>3, <5>1
          <5> QED
            BY <5>2, <5>3
        <4> QED
          BY <4>1, <4>2
      <3>5. t[j] = g /\ V[j] = w
        BY <1>3, <1>5, <2>3
      <3>6. s[i].handle.serial \in Nat /\ s[n].source.serial \in Nat
            /\ s[n].handle.serial \in Nat /\ Ceiling(s[i]) \in Nat /\ Ceiling(s[n]) \in Nat
        BY <2>1, <3>2, SerialTypes
      <3>7. Ceiling(f) = Ceiling(s[n])
        BY DEF Ceiling, Level
      <3>8. /\ s[i].handle.serial <= s[n].handle.serial
            /\ Ceiling(g) <= Ceiling(s[i])
        <4>1. CASE i = n
          BY <3>6, <3>7, <4>1
        <4>2. CASE i # n
          <5>1. i \in 1 .. n - 1
            BY <1>1, <2>1, <4>2
          <5>2. s[i].handle.serial <= s[n].source.serial /\ Ceiling(s[n]) <= Ceiling(s[i])
            BY <1>6, <3>2, <5>1
          <5> QED
            BY <3>6, <3>7, <5>2
        <4> QED
          BY <4>1, <4>2
      <3> QED
        BY <1>11, <2>1, <3>4, <3>5, <3>8
    <2> QED
      BY <2>2, <2>3
  <1>13. ASSUME NEW j \in 1 .. n + 1
         PROVE  Len(V[j].at) = j - 1
    <2>1. CASE j # n + 1
      <3>1. j \in 1 .. n
        BY <1>1, <2>1
      <3>2. Len(W[j].at) = j - 1 /\ V[j] = W[j]
        BY <1>5, <1>6, <3>1, Zenon
      <3> QED
        BY <3>2
    <2>2. CASE j = n + 1
      <3>1. W[n].at \in Seq(Nat) /\ Len(W[n].at) = n - 1 /\ n \in 1 .. n
        BY <1>7
      <3>2. Len(Append(W[n].at, f.next)) = n
        BY <1>1, <3>1
      <3>3. w.at = Append(W[n].at, f.next)
        BY DEF LinkOn, InnerAt
      <3> QED
        BY <1>1, <1>5, <2>2, <3>2, <3>3
    <2> QED
      BY <2>1, <2>2
  <1>14. Tracks(t, V)'
    <2>1. TopOn(t[Len(t)], V[Len(t)])'
      BY <1>3, <1>5
    <2>2. n + 1 - 1 = n
      BY <1>1
    <2>3. \A j \in 1 .. Len(t) : FrameOn(t[j], V[j])' /\ BufferOn(t[j])'
      BY <1>3, <1>9
    <2>4. \A j \in 1 .. Len(t) - 1 : LinkOn(t[j], V[j], t[j + 1], V[j + 1])
      BY <1>3, <1>10, <2>2
    <2>5. \A j \in 1 .. Len(t) :
          /\ Len(V[j].at) = j - 1
          /\ \A i \in 1 .. j - 1 : /\ V[j].at[i] = t[i].next
                                   /\ t[i].handle.serial <= t[j].source.serial
                                   /\ Ceiling(t[j]) <= Ceiling(t[i])
      <3>1. Len(t) = n + 1
        BY <1>3
      <3> QED
        BY <1>12, <1>13, <3>1, Zenon
    <2> QED
      BY <1>8, <2>1, <2>3, <2>4, <2>5 DEF Tracks
  <1> QED
    BY <1>2, <1>14 DEF Tracked

\* The innermost call returns.
LEMMA TrackPop ==
    ASSUME StackInv, stack # <<>>, NEW s, NEW W, s = stack, Tracks(s, W),
           NEW n, n + 1 = Len(s), n \in Nat \ {0}, NEW f, f = [s[n] EXCEPT !.pc = "write"],
           Len(stack') = n, stack'[n] = f, \A j \in 1 .. n - 1 : stack'[j] = stack[j],
           UNCHANGED <<root, entrypoint>>,
           FrameOn(f, W[n])', TopOn(f, W[n])', \A j \in 1 .. n : BufferOn(s[j])'
    PROVE  Tracked'
  <1>1. /\ Len(stack') = n /\ stack'[n] = f
        /\ \A j \in 1 .. n - 1 : stack'[j] = s[j]
    OBVIOUS
  <1>2. PICK t : t = stack'
    OBVIOUS
  <1>3. Len(t) = n /\ t[n] = f /\ \A j \in 1 .. n - 1 : t[j] = s[j]
    BY <1>1, <1>2
  <1>4. /\ s[1].archive = root /\ s[1].depth = FirstDepth /\ W[1] = Root
        /\ \A j \in 1 .. n : FrameOn(s[j], W[j])
        /\ \A j \in 1 .. n : LinkOn(s[j], W[j], s[j + 1], W[j + 1])
        /\ \A j \in 1 .. n :
              /\ Len(W[j].at) = j - 1
              /\ \A i \in 1 .. j - 1 : /\ W[j].at[i] = s[i].next
                                       /\ s[i].handle.serial <= s[j].source.serial
                                       /\ Ceiling(s[j]) <= Ceiling(s[i])
    <2>1. \A j \in 1 .. n : j \in 1 .. Len(s) /\ j \in 1 .. Len(s) - 1
      OBVIOUS
    <2> QED
      BY <2>1 DEF Tracks
  <1>5. /\ f.archive = s[n].archive /\ f.depth = s[n].depth /\ f.source = s[n].source
        /\ f.next = s[n].next /\ f.handle = s[n].handle /\ f.pc = "write"
        /\ s[n].pc = "nested"
    <2>1. n \in 1 .. Len(stack) /\ n < Len(stack)
      OBVIOUS
    <2>2. FrameInv(s[n]) /\ s[n].pc = "nested"
      BY <2>1 DEF StackInv
    <2> QED
      BY <2>2 DEF FrameInv, IsFrame
  <1>6. ASSUME NEW i \in 1 .. n
        PROVE  /\ t[i].archive = s[i].archive /\ t[i].depth = s[i].depth
               /\ t[i].next = s[i].next /\ t[i].handle = s[i].handle
               /\ t[i].source = s[i].source /\ Ceiling(t[i]) = Ceiling(s[i])
    <2>1. CASE i = n
      BY <1>3, <1>5, <2>1 DEF Ceiling, Level
    <2>2. CASE i # n
      BY <1>3, <2>2
    <2> QED
      BY <2>1, <2>2
  <1>7. t[1].archive = root' /\ t[1].depth = FirstDepth' /\ W[1] = Root
    <2>1. root' = root /\ FirstDepth' = FirstDepth /\ 1 \in 1 .. n
      BY DEF FirstDepth
    <2> QED
      BY <1>4, <1>6, <2>1
  <1>8. BufferOn(f)'
    <2>1. BufferOn(s[n])'
      OBVIOUS
    <2>2. Current(f) = Current(s[n]) /\ InBody(s[n])
      BY <1>5 DEF Current, Entries, InBody
    <2>3. Pool!Intact(s[n].handle)' /\ contents'[s[n].handle.slot] = Current(s[n]).payload
      BY <1>5, <2>1, <2>2 DEF BufferOn
    <2> PICK h : h = s[n].handle
      OBVIOUS
    <2>4. Pool!Intact(h)' /\ f.handle = h
      BY <1>5, <2>3
    <2> QED
      BY <1>5, <2>2, <2>3, <2>4 DEF BufferOn
  <1>9. ASSUME NEW j \in 1 .. n
        PROVE  FrameOn(t[j], W[j])' /\ BufferOn(t[j])'
    <2>1. CASE j = n
      BY <1>3, <1>8, <2>1
    <2>2. CASE j # n
      <3>1. j \in 1 .. n - 1 /\ t[j] = s[j]
        BY <1>3, <2>2
      <3>2. FrameOn(s[j], W[j])'
        BY <1>4, FrameStays
      <3> QED
        BY <3>1, <3>2
    <2> QED
      BY <2>1, <2>2
  <1>10. ASSUME NEW j \in 1 .. n - 1
         PROVE  LinkOn(t[j], W[j], t[j + 1], W[j + 1])
    <2>1. j \in 1 .. n /\ j + 1 \in 1 .. n
      OBVIOUS
    <2>2. LinkOn(s[j], W[j], s[j + 1], W[j + 1]) /\ t[j] = s[j]
      BY <1>3, <1>4, <2>1
    <2>3. t[j + 1].archive = s[j + 1].archive /\ t[j + 1].depth = s[j + 1].depth
      BY <1>6, <2>1
    <2> QED
      BY <2>2, <2>3 DEF LinkOn
  <1>11. ASSUME NEW j \in 1 .. n, NEW i \in 1 .. j - 1
         PROVE  /\ W[j].at[i] = t[i].next
                /\ t[i].handle.serial <= t[j].source.serial
                /\ Ceiling(t[j]) <= Ceiling(t[i])
    <2>1. i \in 1 .. n
      OBVIOUS
    <2> QED
      BY <1>4, <1>6, <2>1
  <1>12. TopOn(t[Len(t)], W[Len(t)])'
    BY <1>3
  <1> QED
    <2>1. Tracks(t, W)'
      BY <1>3, <1>4, <1>7, <1>9, <1>10, <1>11, <1>12 DEF Tracks
    <2> QED
      BY <1>2, <2>1 DEF Tracked

-----------------------------------------------------------------------------
(* The steps, one by one.                                                  *)

LEMMA TopStays ==
    ASSUME NEW f, NEW w, TopOn(f, w), UNCHANGED <<acquires, written, entrypoint>>
    PROVE  TopOn(f, w)'
  <1>1. (extract <=> extract')
    BY DEF extract
  <1> QED
    BY <1>1 DEF TopOn

\* The calls below the innermost one hold what they held.
LEMMA BuffersStay ==
    ASSUME NEW s, NEW W, Tracks(s, W), UNCHANGED poolVars, UNCHANGED contents,
           NEW n \in Nat, n = Len(s), NEW j \in 1 .. n
    PROVE  BufferOn(s[j])'
  <1>1. BufferOn(s[j])
    BY DEF Tracks
  <1> QED
    BY <1>1, BufferStays

LEMMA StaysFaithful ==
    ASSUME Faithful, UNCHANGED <<root, entrypoint, written>>, stack' # <<>>, Tracked'
    PROVE  FidelityInv'
  <1>1. (extract <=> extract') /\ Expected' = Expected
    BY DEF extract, Expected, FirstDepth
  <1>2. Agree(written', Expected'.files)
    BY <1>1 DEF Faithful
  <1>3. ~extract' => written' = <<>>
    BY <1>1 DEF Faithful
  <1> QED
    BY <1>2, <1>3 DEF FidelityInv, Faithful

\* A failure that says that the archive cannot be extracted.
LEMMA JustFailure ==
    ASSUME FullInv, RootFits, Faithful, UNCHANGED <<root, entrypoint, written>>, Fail,
           extract \/ ~Expected.ok
    PROVE  FidelityInv'
  BY CloseFail DEF Faithful

\* The archive is read, or cannot be.
LEMMA OpenFidelity ==
    ASSUME FullInv, RootFits, Faithful, Open
    PROVE  FidelityInv'
  <1>1. /\ StackInv /\ stack # <<>> /\ Top.pc = "open"
        /\ UNCHANGED poolVars /\ UNCHANGED contents
        /\ UNCHANGED <<root, entrypoint, written>> /\ UNCHANGED acquires
    BY DEF FullInv, Open, At, poolVars
  <1>2. PICK s, W : s = stack /\ Tracks(s, W)
    BY DEF Faithful, Tracked
  <1>3. PICK n : n = Len(s)
    OBVIOUS
  <1>4. /\ n \in Nat \ {0} /\ n = Len(stack) /\ Top = s[n]
        /\ FrameInv(s[n]) /\ W[n] \in Where
        /\ FrameOn(s[n], W[n]) /\ BufferOn(s[n]) /\ TopOn(s[n], W[n])
    BY <1>1, <1>2, <1>3, TopTracked
  <1>5. extract
    BY <1>1, <1>4 DEF FrameOn
  <1>6. CASE Fail
    BY <1>1, <1>5, <1>6, JustFailure
  <1>7. PICK f : f = s[n]
    OBVIOUS
  <1>8. CASE Update([Top EXCEPT !.pc = "index"])
    <2> PICK g : g = [f EXCEPT !.pc = "index"]
      OBVIOUS
    <2>1. /\ g.archive = f.archive /\ g.depth = f.depth /\ g.source = f.source
          /\ g.dir = f.dir /\ g.pc = "index"
      BY <1>4, <1>7 DEF FrameInv, IsFrame
    <2>2. Level(g) = Level(f) /\ Whole(g, W[n]) = Whole(f, W[n])
      BY <2>1, SameCall
    <2>3. FrameOn(g, W[n])
      BY <1>4, <1>7, <2>1, <2>2 DEF FrameOn, InBody
    <2>4. FrameOn(g, W[n])'
      BY <1>1, <2>3, FrameStays
    <2>5. BufferOn(g)'
      BY <2>1 DEF BufferOn, InBody
    <2>6. TopOn(g, W[n])
      BY <1>1, <1>4, <1>7, <2>1 DEF TopOn
    <2>7. TopOn(g, W[n])'
      BY <1>1, <2>6, TopStays
    <2>8. \A j \in 1 .. n - 1 : BufferOn(s[j])'
      <3>1. \A j \in 1 .. n - 1 : j \in 1 .. n
        BY <1>4
      <3> QED
        BY <1>1, <1>2, <1>3, <1>4, <3>1, BuffersStay
    <2>9. Update(g)
      BY <1>4, <1>8, <1>7
    <2>10. g.archive = s[n].archive /\ g.depth = s[n].depth /\ g.source = s[n].source
      BY <1>7, <2>1
    <2>11. Tracked'
      BY <1>1, <1>2, <1>3, <2>10, <2>4, <2>5, <2>7, <2>8, <2>9, TrackUpdate
    <2>12. stack' # <<>>
      BY <1>1, <2>9, UpdatedStack DEF StackInv
    <2> QED
      BY <1>1, <2>11, <2>12, StaysFaithful
  <1> QED
    BY <1>6, <1>8 DEF Open

\* The index is accepted exactly if it can be.
LEMMA ParseIndexFidelity ==
    ASSUME FullInv, P!TypeInvariant, RootFits, Faithful, ParseIndex
    PROVE  FidelityInv'
  <1>1. /\ StackInv /\ stack # <<>> /\ Top.pc = "index"
        /\ UNCHANGED poolVars /\ UNCHANGED contents
        /\ UNCHANGED <<root, entrypoint, written>> /\ UNCHANGED acquires
    BY DEF FullInv, ParseIndex, At, poolVars
  <1>2. PICK s, W : s = stack /\ Tracks(s, W)
    BY DEF Faithful, Tracked
  <1>3. PICK n : n = Len(s)
    OBVIOUS
  <1>4. /\ n \in Nat \ {0} /\ n = Len(stack) /\ Top = s[n]
        /\ FrameInv(s[n]) /\ W[n] \in Where
        /\ FrameOn(s[n], W[n]) /\ BufferOn(s[n]) /\ TopOn(s[n], W[n])
        /\ SourceGood(s[n])
    BY <1>1, <1>2, <1>3, TopTracked
  <1>5. PICK f : f = s[n]
    OBVIOUS
  <1>6. IF Readable(f.archive)
          THEN Update([f EXCEPT !.archive = f.archive, !.pc = "entry"])
          ELSE Fail
    BY <1>4, <1>5 DEF ParseIndex, Readable
  <1>7. CASE ~Readable(f.archive)
    <2>1. ~Whole(f, W[n]).ok
      BY <1>4, <1>5, <1>7, RejectedWhole
    <2>2. ~Expected.ok
      BY <1>4, <1>5, <2>1, WholeFails
    <2> QED
      BY <1>1, <1>6, <1>7, <2>2, JustFailure
  <1>8. CASE Readable(f.archive)
    <2> PICK g : g = [f EXCEPT !.archive = f.archive, !.pc = "entry"]
      OBVIOUS
    <2>1. /\ g.archive = f.archive /\ g.depth = f.depth /\ g.source = f.source
          /\ g.dir = f.dir /\ g.pc = "entry" /\ g.next = f.next /\ f.next = 1
      BY <1>1, <1>4, <1>5 DEF FrameInv, IsFrame
    <2>2. /\ Level(g) = Level(f) /\ Whole(g, W[n]) = Whole(f, W[n])
          /\ Done(g, W[n]) = Done(f, W[n]) /\ Taken(g) = Taken(f)
      BY <2>1, SameCall, ZenonT(60)
    <2>3. Done(f, W[n]) = Nothing
      <3>1. /\ f.archive \in Payloads /\ Level(f) - 1 \in Nat
            /\ W[n].dir \in Seq(STRING) /\ W[n].at \in Seq(Nat)
        BY <1>4, <1>5, FrameTypes
      <3>2. Outcome[Level(f) - 1] \in Table
        BY <3>1, OutcomeFacts
      <3>3. LoopOutcome(Outcome[Level(f) - 1], f.archive, W[n].dir, W[n].at)[0] = Nothing
        BY <3>1, <3>2, LoopFacts, Zenon
      <3>4. f.next - 1 = 0
        BY <2>1
      <3> QED
        BY <3>3, <3>4 DEF Done
    <2>4. Taken(f) = 0
      <3>1. f.archive \in Payloads /\ Level(f) - 1 \in Nat
        BY <1>4, <1>5, FrameTypes
      <3>2. Acquisitions[Level(f) - 1] \in [Payloads -> Nat]
        BY <3>1, AcquisitionsFacts, Zenon
      <3>3. Spent(Acquisitions[Level(f) - 1], f.archive)[0] = 0
        BY <3>1, <3>2, SpentFacts, Zenon
      <3>4. f.next - 1 = 0
        BY <2>1
      <3> QED
        BY <3>3, <3>4 DEF Taken
    <2>5. Nothing.ok /\ Len(Nothing.files) = 0
      BY DEF Nothing
    <2>6. FrameOn(g, W[n])
      BY <1>4, <1>5, <1>8, <2>1, <2>2, <2>3, <2>5 DEF FrameOn, InBody
    <2>7. FrameOn(g, W[n])'
      BY <1>1, <2>6, FrameStays
    <2>8. BufferOn(g)'
      BY <2>1 DEF BufferOn, InBody
    <2>9. TopOn(g, W[n])
      <3>1. f.source.serial \in Nat
        BY <1>1, <1>2, <1>4, <1>5, SerialTypes
      <3>2. acquires = f.source.serial /\ (extract => Len(written) = W[n].from + 0 + 0)
        BY <1>1, <1>4, <1>5 DEF TopOn
      <3>3. f.source.serial <= acquires /\ acquires <= f.source.serial + 0
        BY <3>1, <3>2
      <3> QED
        BY <2>1, <2>2, <2>3, <2>4, <2>5, <3>2, <3>3 DEF TopOn
    <2>10. TopOn(g, W[n])'
      BY <1>1, <2>9, TopStays
    <2>11. \A j \in 1 .. n - 1 : BufferOn(s[j])'
      <3>1. \A j \in 1 .. n - 1 : j \in 1 .. n
        BY <1>4
      <3> QED
        BY <1>1, <1>2, <1>3, <1>4, <3>1, BuffersStay
    <2>12. Update(g)
      BY <1>6, <1>8
    <2>13. g.archive = s[n].archive /\ g.depth = s[n].depth /\ g.source = s[n].source
      BY <1>5, <2>1
    <2>14. Tracked'
      BY <1>1, <1>2, <1>3, <2>13, <2>7, <2>8, <2>10, <2>11, <2>12, TrackUpdate
    <2>15. stack' # <<>>
      BY <1>1, <2>12, UpdatedStack DEF StackInv
    <2> QED
      BY <1>1, <2>14, <2>15, StaysFaithful
  <1> QED
    BY <1>7, <1>8

\* A nested archive that is being parsed takes fewer buffers than the ring has.
LEMMA NestedFits ==
    ASSUME NEW f, FrameInv(f), f.next <= Len(Entries(f)), NEW w, FrameOn(f, w),
           IsContainer(Current(f))
    PROVE  /\ Acquisitions[Level(f) - 1][Current(f).payload] < SlotCount
           /\ ~Pool!Recycles(Bytes[Current(f).payload].size, f.depth + 1)
           /\ Fits[Level(f) - 1][Current(f).payload]
  <1>1. /\ f.archive \in Payloads /\ f.next \in Nat \ {0} /\ Len(Entries(f)) \in Nat
        /\ f.depth \in 0 .. MaxNestedDepth
    BY ParsedFacts DEF FrameInv, IsFrame, Entries
  <1>2. PICK m \in Nat : m = Level(f) - 1 /\ m + 1 = Level(f)
        /\ MaxNestedDepth + 1 - m = f.depth + 1
    BY <1>1, UnpackAssumption DEF Level, Levels
  <1>3. PICK k \in 1 .. Len(Bytes[f.archive].entries) : k = f.next
    BY <1>1 DEF Entries
  <1>4. Fits[m + 1][f.archive]
    BY <1>2 DEF FrameOn
  <1>5. FitsEntry(m, Bytes[f.archive].entries[k])
    BY <1>1, <1>4, FitsFacts
  <1>6. FitsEntry(m, Current(f))
    BY <1>3, <1>5 DEF Current, Entries
  <1> QED
    BY <1>2, <1>6 DEF FitsEntry

\* The buffer taken is not that of a call that waits for this one.
LEMMA ReadChunkFidelity ==
    ASSUME FullInv, P!PoolInv, RootFits, Faithful, ReadChunk
    PROVE  FidelityInv'
  <1>1. /\ StackInv /\ stack # <<>> /\ Top.pc = "entry" /\ UNCHANGED contents
        /\ UNCHANGED <<root, entrypoint, written>> /\ Top.next <= Len(Entries(Top))
    BY DEF FullInv, ReadChunk, At
  <1>2. PICK s, W : s = stack /\ Tracks(s, W)
    BY DEF Faithful, Tracked
  <1>3. PICK n : n = Len(s)
    OBVIOUS
  <1>4. /\ n \in Nat \ {0} /\ n = Len(stack) /\ Top = s[n]
        /\ FrameInv(s[n]) /\ W[n] \in Where
        /\ FrameOn(s[n], W[n]) /\ BufferOn(s[n]) /\ TopOn(s[n], W[n])
        /\ SourceGood(s[n])
    BY <1>1, <1>2, <1>3, TopTracked
  <1>5. PICK f : f = s[n]
    OBVIOUS
  <1>6. /\ f.next <= Len(Entries(f)) /\ f.pc = "entry" /\ FrameInv(f)
        /\ FrameOn(f, W[n]) /\ TopOn(f, W[n])
    BY <1>1, <1>4, <1>5
  <1>7. PICK size : size = Bytes[Current(f).payload].size
    OBVIOUS
  <1>8. IF Current(f).chunk = "refused" THEN Fail
        ELSE /\ Pool!AcquireSlot(size)
             /\ Update([f EXCEPT !.handle = Pool!NewHandle(size), !.pc = "copy"])
    BY <1>4, <1>5, <1>7 DEF ReadChunk
  <1>9. CASE Current(f).chunk = "refused"
    <2>1. ~Here(f, W[n]).ok
      BY <1>4, <1>6, <1>9, HereFacts
    <2>2. ~Expected.ok
      BY <1>6, <2>1, HereFails
    <2> QED
      BY <1>1, <1>8, <1>9, <2>2, JustFailure
  <1>10. CASE Current(f).chunk # "refused"
    <2> PICK h : h = Pool!NewHandle(size)
      OBVIOUS
    <2> PICK g : g = [f EXCEPT !.handle = h, !.pc = "copy"]
      OBVIOUS
    <2>1. Pool!AcquireSlot(size) /\ Update(g)
      BY <1>8, <1>10
    <2>2. P!TypeInvariant /\ acquires \in Nat /\ acquires' = acquires + 1 /\ size \in Nat
      <3>1. P!TypeInvariant
        BY DEF P!PoolInv
      <3>2. acquires' = acquires + 1
        BY <2>1 DEF Pool!AcquireSlot
      <3>3. Current(f).payload \in Payloads
        BY <1>4, <1>6, InsideTypes
      <3>4. size \in Nat
        BY <1>7, <3>3, UnpackAssumption DEF Parsed
      <3> QED
        BY <3>1, <3>2, <3>4 DEF P!TypeInvariant
    <2>3. /\ g.archive = f.archive /\ g.depth = f.depth /\ g.source = f.source
          /\ g.dir = f.dir /\ g.pc = "copy" /\ g.next = f.next /\ g.handle = h
      BY <1>6 DEF FrameInv, IsFrame
    <2>4. /\ Level(g) = Level(f) /\ Whole(g, W[n]) = Whole(f, W[n])
          /\ Done(g, W[n]) = Done(f, W[n]) /\ Taken(g) = Taken(f)
          /\ Current(g) = Current(f)
      <3>1. g.archive = f.archive /\ g.depth = f.depth /\ g.next = f.next
        BY <2>3
      <3> QED
        BY <3>1, SameCall, ZenonT(60)
    <2>5. h.slot = cursor /\ h.storage = storage'[cursor] /\ h.serial = acquires' /\ h.size = size
      BY DEF Pool!NewHandle
    <2>6. Pool!Intact(h)'
      <3>1. lease'[cursor] = acquires'
        BY <2>1, <2>2 DEF Pool!AcquireSlot, P!TypeInvariant
      <3>2. storage'[h.slot] = h.storage /\ lease'[h.slot] = h.serial
        BY <2>5, <3>1
      <3> QED
        BY <3>2 DEF Pool!Intact, Pool!Freed, Pool!Overwritten
    <2>7. f.source.serial \in Nat /\ Taken(f) \in Nat /\ Acquisitions[Level(f)][f.archive] \in Nat
          /\ Taken(f) + 1 <= Acquisitions[Level(f)][f.archive]
      <3>1. f.source.serial \in Nat
        BY <1>1, <1>2, <1>4, <1>5, <2>2, SerialTypes
      <3>2. PICK cost \in Nat : Taken(f) + 1 + cost <= Acquisitions[Level(f)][f.archive]
        BY <1>6, TakenFacts
      <3>3. Taken(f) \in Nat /\ Acquisitions[Level(f)][f.archive] \in Nat
        BY <1>6, TakenFacts
      <3> QED
        BY <3>1, <3>2, <3>3
    <2>8. f.source.serial <= acquires /\ acquires <= f.source.serial + Taken(f)
      BY <1>6 DEF TopOn
    <2>9. f.source.serial < h.serial /\ h.serial <= f.source.serial + Taken(f) + 1
          /\ h.serial <= Ceiling(f) /\ h.serial \in Nat
      BY <2>2, <2>5, <2>7, <2>8 DEF Ceiling
    <2>10. FrameOn(g, W[n])
      BY <1>6, <1>7, <2>3, <2>4, <2>5, <2>9 DEF FrameOn
    <2>11. FrameOn(g, W[n])'
      BY <1>1, <2>10, FrameStays
    <2>12. BufferOn(g)'
      BY <2>3, <2>6 DEF BufferOn
    <2>13. TopOn(g, W[n])'
      <3>1. (extract <=> extract')
        BY <1>1 DEF extract
      <3> QED
        BY <1>1, <1>6, <2>3, <2>4, <2>5, <3>1 DEF TopOn
    <2>14. ASSUME NEW j \in 1 .. n - 1
           PROVE  BufferOn(s[j])'
      <3>1. j \in 1 .. n /\ j + 1 \in 1 .. n /\ j \in 1 .. Len(stack) /\ j < Len(stack)
        BY <1>4
      <3>2. BufferOn(s[j]) /\ FrameOn(s[j], W[j]) /\ LinkOn(s[j], W[j], s[j + 1], W[j + 1])
        BY <1>2, <1>3, <3>1 DEF Tracks
      <3>3. s[j].pc = "nested" /\ s[j + 1].source = s[j].handle /\ FrameInv(s[j])
        <4>1. \A k \in 1 .. Len(stack) : FrameInv(stack[k])
              /\ (stack[k].pc = "nested" <=> k < Len(stack))
          BY <1>1 DEF StackInv
        <4>2. \A k \in 2 .. Len(stack) : stack[k].source = stack[k - 1].handle
          BY <1>1 DEF StackInv
        <4>3. j + 1 \in 2 .. Len(stack) /\ j + 1 - 1 = j
          BY <1>4, <3>1
        <4> QED
          BY <1>2, <3>1, <4>1, <4>2, <4>3
      <3>4. /\ Pool!Intact(s[j].handle) /\ contents[s[j].handle.slot] = Current(s[j]).payload
            /\ IsContainer(Current(s[j])) /\ s[j].next <= Len(Entries(s[j]))
        BY <3>2, <3>3 DEF BufferOn, FrameOn, InBody, FrameInv
      <3>5. Acquisitions[Level(s[j]) - 1][Current(s[j]).payload] < SlotCount
        BY <3>2, <3>3, <3>4, NestedFits
      <3>6. Ceiling(s[j + 1]) =
              s[j].handle.serial + Acquisitions[Level(s[j]) - 1][Current(s[j]).payload]
        <4>1. Level(s[j + 1]) = Level(s[j]) - 1
          <5>1. s[j + 1].depth = s[j].depth + 1
            BY <3>2 DEF LinkOn
          <5>2. s[j].depth \in Nat /\ MaxNestedDepth \in Nat
            BY <3>3, UnpackAssumption DEF FrameInv, IsFrame
          <5> QED
            BY <5>1, <5>2 DEF Level, Levels
        <4>2. s[j + 1].archive = Current(s[j]).payload
          BY <3>2 DEF LinkOn
        <4> QED
          BY <3>3, <4>1, <4>2 DEF Ceiling
      <3>7. Ceiling(s[n]) <= Ceiling(s[j + 1])
        <4>1. CASE j + 1 = n
          <5>1. Ceiling(s[n]) \in Nat
            BY <1>1, <1>2, <1>4, <2>2, SerialTypes
          <5> QED
            BY <4>1, <5>1
        <4>2. CASE j + 1 # n
          <5>1. j + 1 \in 1 .. n - 1 /\ n \in 1 .. Len(s)
            BY <1>3, <1>4, <3>1, <4>2
          <5> QED
            BY <1>2, <5>1 DEF Tracks
        <4> QED
          BY <4>1, <4>2
      <3>8. PICK x \in Nat, y \in Nat, a \in Int, c \in Nat :
              x = s[j].handle.serial /\ y = Ceiling(s[n]) /\ c = Ceiling(s[j + 1])
              /\ a = Acquisitions[Level(s[j]) - 1][Current(s[j]).payload]
        <4>1. s[j].handle.serial \in Nat /\ Ceiling(s[n]) \in Nat /\ Ceiling(s[j + 1]) \in Nat
          BY <1>1, <1>2, <1>4, <2>2, <3>1, SerialTypes
        <4>2. Level(s[j]) - 1 \in Nat /\ Current(s[j]).payload \in Payloads
          <5>1. W[j] \in Where
            BY <3>2 DEF FrameOn
          <5> QED
            BY <3>3, <3>4, <5>1, FrameTypes, InsideTypes
        <4>3. Acquisitions[Level(s[j]) - 1][Current(s[j]).payload] \in Nat
          BY <4>2, AcquisitionsFacts
        <4> QED
          BY <4>1, <4>3
      <3>9. acquires + 1 - x < SlotCount
        <4>1. c = x + a /\ a < SlotCount /\ y <= c
          BY <3>5, <3>6, <3>7, <3>8
        <4>2. acquires + 1 <= y
          BY <1>5, <2>2, <2>5, <2>9, <3>8
        <4> QED
          BY <2>2, <4>1, <4>2, UnpackAssumption
      <3>10. s[j].handle \in OpenHandles
        <4>1. s[j].handle # NoHandle
          <5>1. s[j].source.serial < s[j].handle.serial
            BY <3>2, <3>3 DEF FrameOn, InBody
          <5>2. s[j].source.serial \in Nat
            BY <1>1, <1>2, <2>2, <3>1, SerialTypes
          <5> QED
            BY <5>1, <5>2 DEF NoHandle
        <4> QED
          BY <1>2, <3>1, <4>1 DEF OpenHandles
      <3>11. PICK i \in OpenHandles : i = s[j].handle
        BY <3>10
      <3>12. P!Intact(i)' <=> P!Intact(i) /\ acquires + 1 - i.serial < SlotCount
        <4>1. P!AcquireSlot(size)
          BY <2>1 DEF Pool!AcquireSlot, P!AcquireSlot, Pool!Reallocate, P!Reallocate,
             Pool!Request, P!Request
        <4> QED
          BY <2>2, <4>1, PoolConstants, P!AcquireKeepsIntact DEF P!PoolAssumption
      <3>13. Pool!Intact(i)'
        BY <3>4, <3>8, <3>9, <3>11, <3>12 DEF P!Intact, Pool!Intact, P!Freed, Pool!Freed,
           P!Overwritten, Pool!Overwritten
      <3> QED
        BY <1>1, <3>4, <3>11, <3>13 DEF BufferOn
    <2>15. g.archive = s[n].archive /\ g.depth = s[n].depth /\ g.source = s[n].source
      BY <1>5, <2>3
    <2>16. Tracked'
      BY <1>1, <1>2, <1>3, <2>1, <2>11, <2>12, <2>13, <2>14, <2>15, TrackUpdate
    <2>17. stack' # <<>>
      BY <1>1, <2>1, UpdatedStack DEF StackInv
    <2> QED
      BY <1>1, <2>16, <2>17, StaysFaithful
  <1> QED
    BY <1>9, <1>10

\* The buffer filled is not that of a call that waits for this one.
LEMMA CopyChunkFidelity ==
    ASSUME FullInv, P!TypeInvariant, RootFits, Faithful, CopyChunk
    PROVE  FidelityInv'
  <1>1. /\ StackInv /\ stack # <<>> /\ Top.pc = "copy" /\ UNCHANGED poolVars
        /\ UNCHANGED <<root, entrypoint, written>> /\ UNCHANGED acquires
    BY DEF FullInv, CopyChunk, At, poolVars
  <1>2. PICK s, W : s = stack /\ Tracks(s, W)
    BY DEF Faithful, Tracked
  <1>3. PICK n : n = Len(s)
    OBVIOUS
  <1>4. /\ n \in Nat \ {0} /\ n = Len(stack) /\ Top = s[n]
        /\ FrameInv(s[n]) /\ W[n] \in Where
        /\ FrameOn(s[n], W[n]) /\ BufferOn(s[n]) /\ TopOn(s[n], W[n])
        /\ SourceGood(s[n])
    BY <1>1, <1>2, <1>3, TopTracked
  <1>5. PICK f : f = s[n]
    OBVIOUS
  <1>6. /\ f.next <= Len(Entries(f)) /\ f.pc = "copy" /\ FrameInv(f) /\ BufferOn(f)
        /\ FrameOn(f, W[n]) /\ TopOn(f, W[n]) /\ f.handle.slot \in Slots
    BY <1>1, <1>4, <1>5 DEF FrameInv
  <1>7. PICK pc : pc = IF IsContainer(Current(f)) THEN "descend" ELSE "write"
    OBVIOUS
  <1>8. \/ /\ Current(f).chunk = "ok"
           /\ contents' = [contents EXCEPT ![f.handle.slot] = Current(f).payload]
           /\ Update([f EXCEPT !.pc = pc])
        \/ Current(f).chunk = "broken" /\ Fail
    BY <1>4, <1>5, <1>7 DEF CopyChunk, IsContainer
  <1>9. CASE Current(f).chunk = "broken" /\ Fail
    <2>1. ~Here(f, W[n]).ok
      BY <1>4, <1>6, <1>9, HereFacts
    <2>2. ~Expected.ok
      BY <1>6, <2>1, HereFails
    <2> QED
      BY <1>1, <1>9, <2>2, JustFailure
  <1>10. CASE /\ Current(f).chunk = "ok"
              /\ contents' = [contents EXCEPT ![f.handle.slot] = Current(f).payload]
              /\ Update([f EXCEPT !.pc = pc])
    <2> PICK g : g = [f EXCEPT !.pc = pc]
      OBVIOUS
    <2>1. Update(g) /\ Current(f).chunk = "ok"
      BY <1>10
    <2>2. pc \in {"descend", "write"} /\ (pc = "descend" <=> IsContainer(Current(f)))
      BY <1>7
    <2>3. /\ g.archive = f.archive /\ g.depth = f.depth /\ g.source = f.source
          /\ g.dir = f.dir /\ g.pc = pc /\ g.next = f.next /\ g.handle = f.handle
      BY <1>6 DEF FrameInv, IsFrame
    <2>4. /\ Level(g) = Level(f) /\ Whole(g, W[n]) = Whole(f, W[n])
          /\ Done(g, W[n]) = Done(f, W[n]) /\ Taken(g) = Taken(f)
          /\ Current(g) = Current(f)
      <3>1. g.archive = f.archive /\ g.depth = f.depth /\ g.next = f.next
        BY <2>3
      <3> QED
        BY <3>1, SameCall, Zenon
    <2>5. FrameOn(g, W[n])
      BY <1>6, <2>1, <2>2, <2>3, <2>4 DEF FrameOn, InBody
    <2>6. FrameOn(g, W[n])'
      BY <1>1, <2>5, FrameStays
    <2>7. Pool!Intact(f.handle)
      BY <1>6 DEF BufferOn, InBody
    <2>8. contents'[f.handle.slot] = Current(f).payload
          /\ contents \in [Slots -> Payloads \cup {Stale}]
      BY <1>1, <1>6, <1>10 DEF StackInv, RingTypes
    <2>9. BufferOn(g)'
      <3> PICK h : h = f.handle
        OBVIOUS
      <3>1. Pool!Intact(h)'
        BY <1>1, <2>7 DEF Pool!Intact, Pool!Freed, Pool!Overwritten, poolVars
      <3>2. g.handle = h /\ contents'[g.handle.slot] = Current(g).payload
        BY <2>3, <2>4, <2>8
      <3> QED
        BY <3>1, <3>2 DEF BufferOn
    <2>10. f.handle.serial \in Nat /\ f.source.serial \in Nat
      BY <1>1, <1>2, <1>4, <1>5, SerialTypes
    <2>11. TopOn(g, W[n])
      <3>1. acquires = f.handle.serial
        BY <1>6 DEF TopOn
      <3>2. extract => Len(written) = W[n].from + Len(Done(f, W[n]).files) + 0
        BY <1>6 DEF TopOn
      <3>3. f.handle.serial <= acquires /\ acquires <= f.handle.serial + 0
        BY <2>10, <3>1
      <3> QED
        BY <2>2, <2>3, <2>4, <3>1, <3>2, <3>3 DEF TopOn
    <2>12. TopOn(g, W[n])'
      BY <1>1, <2>11, TopStays
    <2>13. ASSUME NEW j \in 1 .. n - 1
           PROVE  BufferOn(s[j])'
      <3>1. j \in 1 .. n /\ j \in 1 .. Len(stack) /\ j < Len(stack) /\ n \in 1 .. n
        BY <1>4
      <3>2. BufferOn(s[j])
        BY <1>2, <1>3, <3>1 DEF Tracks
      <3>3. s[j].pc = "nested" /\ FrameInv(s[j])
        BY <1>1, <1>2, <3>1 DEF StackInv
      <3>4. Pool!Intact(s[j].handle) /\ contents[s[j].handle.slot] = Current(s[j]).payload
        BY <3>2, <3>3 DEF BufferOn, InBody
      <3>5. s[j].handle.serial # f.handle.serial
        <4>1. s[j].handle.serial <= f.source.serial
          BY <1>2, <1>3, <1>5, <3>1 DEF Tracks
        <4>2. f.source.serial < f.handle.serial
          BY <1>6 DEF FrameOn, InBody
        <4>3. s[j].handle.serial \in Nat
          BY <1>1, <1>2, <3>1, SerialTypes
        <4> QED
          BY <2>10, <4>1, <4>2, <4>3
      <3>6. s[j].handle.slot # f.handle.slot
        BY <2>7, <3>4, <3>5 DEF Pool!Intact, Pool!Overwritten
      <3>7. contents'[s[j].handle.slot] = Current(s[j]).payload
        <4>1. s[j].handle.slot \in Slots
          BY <3>3 DEF FrameInv
        <4> QED
          BY <1>10, <2>8, <3>4, <3>6, <4>1
      <3> PICK h : h = s[j].handle
        OBVIOUS
      <3>8. Pool!Intact(h)'
        BY <1>1, <3>4 DEF Pool!Intact, Pool!Freed, Pool!Overwritten, poolVars
      <3> QED
        BY <3>7, <3>8 DEF BufferOn
    <2>14. g.archive = s[n].archive /\ g.depth = s[n].depth /\ g.source = s[n].source
      BY <1>5, <2>3
    <2>15. Tracked'
      BY <1>1, <1>2, <1>3, <2>1, <2>6, <2>9, <2>12, <2>13, <2>14, TrackUpdate
    <2>16. stack' # <<>>
      BY <1>1, <2>1, UpdatedStack DEF StackInv
    <2> QED
      BY <1>1, <2>15, <2>16, StaysFaithful
  <1> QED
    BY <1>8, <1>9, <1>10

\* A nested archive is part of what extraction should give.
LEMMA InsideFacts ==
    ASSUME StackInv, NEW f, FrameInv(f), NEW w, FrameOn(f, w), f.pc \notin {"open", "index"},
           f.next <= Len(Entries(f)), Current(f).chunk = "ok", IsContainer(Current(f))
    PROVE  PartOf(Inside(f, w), w.from + Len(Done(f, w).files), Expected)
  <1>1. /\ w \in Where /\ Readable(f.archive) /\ Done(f, w).ok
        /\ PartOf(Whole(f, w), w.from, Expected)
    BY DEF FrameOn
  <1>2. PartOf(Here(f, w), Len(Done(f, w).files), Whole(f, w))
    BY <1>1, BodyFacts
  <1>3. PartOf(Inside(f, w), 0, Here(f, w))
    BY <1>1, HereFacts
  <1>4. /\ Inside(f, w) \in Result /\ Here(f, w) \in Result /\ Whole(f, w) \in Result
        /\ Done(f, w) \in Result /\ w.from \in Nat /\ Expected \in Result
    BY <1>1, InsideTypes, FrameTypes, ExpectedType
  <1>5. PICK d \in Nat : d = Len(Done(f, w).files)
    BY <1>4, ResultFacts
  <1>6. PartOf(Here(f, w), w.from + d, Expected)
    BY <1>1, <1>2, <1>4, <1>5, PartTransitive
  <1>7. w.from + d \in Nat /\ (w.from + d) + 0 = w.from + d
    BY <1>4
  <1>8. PartOf(Inside(f, w), (w.from + d) + 0, Expected)
    BY <1>3, <1>4, <1>6, <1>7, PartTransitive
  <1> QED
    BY <1>5, <1>7, <1>8

\* The callee begins where its caller is.
LEMMA DescendFidelity ==
    ASSUME FullInv, P!TypeInvariant, RootFits, Faithful, Descend
    PROVE  FidelityInv'
  <1>1. /\ StackInv /\ stack # <<>> /\ Top.pc = "descend" /\ UNCHANGED contents
        /\ UNCHANGED <<root, entrypoint, written>>
    BY DEF FullInv, Descend, At
  <1>2. PICK s, W : s = stack /\ Tracks(s, W)
    BY DEF Faithful, Tracked
  <1>3. PICK n : n = Len(s)
    OBVIOUS
  <1>4. /\ n \in Nat \ {0} /\ n = Len(stack) /\ Top = s[n]
        /\ FrameInv(s[n]) /\ W[n] \in Where
        /\ FrameOn(s[n], W[n]) /\ BufferOn(s[n]) /\ TopOn(s[n], W[n])
    BY <1>1, <1>2, <1>3, TopTracked
  <1>5. PICK e, v : e = s[n] /\ v = W[n]
    OBVIOUS
  <1>6. /\ e.next <= Len(Entries(e)) /\ e.pc = "descend" /\ FrameInv(e) /\ BufferOn(e)
        /\ FrameOn(e, v) /\ TopOn(e, v) /\ v \in Where
    BY <1>1, <1>4, <1>5 DEF FrameInv
  <1>7. IsContainer(Current(e)) /\ Current(e).chunk = "ok"
        /\ contents[e.handle.slot] = Current(e).payload
        /\ e.handle.size = Bytes[Current(e).payload].size
        /\ e.source.serial < e.handle.serial
        /\ e.handle.serial <= e.source.serial + Taken(e) + 1
        /\ Pool!Intact(e.handle)
    BY <1>6 DEF FrameOn, BufferOn, InBody
  <1>8. e.depth \in Nat /\ e.depth <= MaxNestedDepth /\ MaxNestedDepth \in Nat
        /\ Current(e).payload \in Payloads /\ Level(e) - 1 \in Nat
        /\ Level(e) = MaxNestedDepth + 1 - e.depth
    BY <1>6, InsideTypes, FrameTypes, UnpackAssumption DEF FrameInv, IsFrame, Level, Levels
  <1>9. CASE e.depth + 1 > MaxNestedDepth
    <2>1. Fail
      BY <1>4, <1>5, <1>9 DEF Descend
    <2>2. Level(e) - 1 = 0
      BY <1>8, <1>9
    <2>3. InnerDir(e, v) \in Seq(STRING) /\ InnerAt(e, v) \in Seq(Nat)
      BY <1>6, InsideTypes
    <2>4. Inside(e, v) = Rejected
      BY <1>8, <2>2, <2>3, OutcomeFacts DEF Inside
    <2>5. PartOf(Inside(e, v), 0, Here(e, v))
      BY <1>6, <1>7, HereFacts
    <2>6. ~Here(e, v).ok
      BY <2>4, <2>5 DEF Rejected, PartOf
    <2>7. ~Expected.ok
      BY <1>6, <2>6, HereFails
    <2> QED
      BY <1>1, <2>1, <2>7, JustFailure
  <1>10. CASE ~(e.depth + 1 > MaxNestedDepth)
    <2> PICK f : f = [e EXCEPT !.pc = "nested"]
      OBVIOUS
    <2> PICK dir :
             dir = IF extract THEN NestedDir(SafeOutputPath(e.dir, Current(e).name))
                              ELSE e.dir
      OBVIOUS
    <2> PICK g : g = Frame(e.handle, Current(e).payload, e.depth + 1, dir, "index")
      OBVIOUS
    <2>1. UNCHANGED poolVars /\ UNCHANGED acquires
      <3>1. ~Pool!Recycles(e.handle.size, e.depth + 1)
        BY <1>6, <1>7, NestedFits
      <3>2. Pool!RecycleSlots(e.handle.size, e.depth + 1)
        BY <1>4, <1>5, <1>10 DEF Descend
      <3> QED
        BY <3>1, <3>2 DEF Pool!RecycleSlots, Pool!poolVars, poolVars
    <2>2. stack' = Append([stack EXCEPT ![Len(stack)] = f], g)
      <3>1. EnterNested
        BY <1>4, <1>5, <1>10 DEF Descend
      <3>2. [stack EXCEPT ![Len(stack)].pc = "nested"] = [stack EXCEPT ![Len(stack)] = f]
        BY <1>4, <1>5 DEF Top
      <3> QED
        BY <1>4, <1>5, <1>7, <3>1, <3>2 DEF EnterNested
    <2>3. /\ f.archive = e.archive /\ f.depth = e.depth /\ f.source = e.source
          /\ f.dir = e.dir /\ f.pc = "nested" /\ f.next = e.next /\ f.handle = e.handle
      BY <1>6 DEF FrameInv, IsFrame
    <2>4. /\ Level(f) = Level(e) /\ Whole(f, v) = Whole(e, v)
          /\ Done(f, v) = Done(e, v) /\ Taken(f) = Taken(e)
          /\ Current(f) = Current(e) /\ Inside(f, v) = Inside(e, v)
      <3>1. f.archive = e.archive /\ f.depth = e.depth /\ f.next = e.next
        BY <2>3
      <3> QED
        BY <3>1, SameCall, Zenon
    <2>5. /\ g.source = e.handle /\ g.archive = Current(e).payload /\ g.depth = e.depth + 1
          /\ g.dir = dir /\ g.pc = "index" /\ g.next = 1
      BY DEF Frame
    <2>6. Level(g) = Level(e) - 1
      BY <1>8, <2>5 DEF Level, Levels
    <2> PICK w : w = [from |-> v.from + Len(Done(e, v).files), dir |-> InnerDir(e, v),
                      at |-> InnerAt(e, v)]
      OBVIOUS
    <2>7. w.from = v.from + Len(Done(e, v).files) /\ w.dir = InnerDir(e, v) /\ w.at = InnerAt(e, v)
      OBVIOUS
    <2>8. w \in Where
      <3>1. InnerDir(e, v) \in Seq(STRING) /\ InnerAt(e, v) \in Seq(Nat)
        BY <1>6, InsideTypes
      <3>2. Done(e, v) \in Result /\ v.from \in Nat
        BY <1>6, FrameTypes
      <3>3. Len(Done(e, v).files) \in Nat
        BY <3>2, ResultFacts
      <3>4. v.from + Len(Done(e, v).files) \in Nat
        BY <3>2, <3>3
      <3> QED
        BY <3>1, <3>4 DEF Where
    <2>9. FrameOn(f, v)
      BY <1>6, <1>7, <2>3, <2>4 DEF FrameOn, InBody
    <2>10. FrameOn(f, v)'
      BY <1>1, <2>9, FrameStays
    <2>11. FrameOn(g, w)
      <3>1. Fits[Level(g)][g.archive]
        BY <1>6, <1>7, <2>5, <2>6, NestedFits
      <3>2. extract => g.dir = w.dir
        BY <1>6, <2>5, <2>7 DEF FrameOn, InnerDir
      <3>3. Whole(g, w) = Inside(e, v)
        BY <2>5, <2>6, <2>7 DEF Whole, Inside
      <3>4. PartOf(Whole(g, w), w.from, Expected)
        BY <1>1, <1>6, <1>7, <2>7, <3>3, InsideFacts
      <3> QED
        BY <2>5, <2>8, <3>1, <3>2, <3>4 DEF FrameOn, InBody
    <2>12. FrameOn(g, w)'
      BY <1>1, <2>11, FrameStays
    <2>13. BufferOn(f)'
      <3>1. BufferOn(f)
        BY <1>6, <1>7, <2>3, <2>4 DEF BufferOn
      <3> QED
        BY <1>1, <2>1, <3>1, BufferStays
    <2>14. BufferOn(g)'
      BY <2>5 DEF BufferOn, InBody
    <2>15. TopOn(g, w)'
      <3>1. acquires = e.handle.serial /\ (extract => Len(written) =
            v.from + Len(Done(e, v).files) + 0)
        BY <1>6 DEF TopOn
      <3>2. v.from \in Nat /\ Len(Done(e, v).files) \in Nat
        BY <1>6, FrameTypes, ResultFacts
      <3>3. extract => Len(written) = w.from + 0 + 0
        BY <2>7, <3>1, <3>2
      <3>4. TopOn(g, w)
        BY <2>5, <3>1, <3>3 DEF TopOn
      <3> QED
        BY <1>1, <2>1, <3>4, TopStays
    <2>16. LinkOn(f, v, g, w)
      BY <2>3, <2>4, <2>5, <2>7 DEF LinkOn, InnerDir, InnerAt
    <2>17. Ceiling(g) \in Nat /\ Ceiling(g) <= Ceiling(f) /\ f.source.serial < f.handle.serial
      <3>1. PICK t \in Nat, total \in Nat, cost \in Nat :
              /\ t = Taken(e) /\ total = Acquisitions[Level(e)][e.archive]
              /\ cost = Acquisitions[Level(e) - 1][Current(e).payload]
              /\ t + 1 + cost <= total
        BY <1>6, <1>7, TakenFacts
      <3>2. PICK x \in Nat, y \in Nat : x = e.source.serial /\ y = e.handle.serial
        BY <1>1, <1>2, <1>4, <1>5, SerialTypes
      <3>3. x < y /\ y <= x + t + 1
        BY <1>7, <3>1, <3>2
      <3>4. Ceiling(g) = y + cost /\ Ceiling(f) = x + total
        BY <2>3, <2>4, <2>5, <2>6, <3>1, <3>2 DEF Ceiling
      <3> QED
        BY <2>3, <3>1, <3>2, <3>3, <3>4, SMTT(60)
    <2>18. \A j \in 1 .. n - 1 : BufferOn(s[j])'
      <3>1. \A j \in 1 .. n - 1 : j \in 1 .. n
        BY <1>4
      <3> QED
        BY <1>1, <1>2, <1>3, <1>4, <2>1, <3>1, BuffersStay
    <2>19. /\ f.archive = s[n].archive /\ f.depth = s[n].depth /\ f.source = s[n].source
           /\ f.next = s[n].next /\ f.handle = s[n].handle /\ g.source = f.handle
      BY <1>5, <2>3, <2>5
    <2>20. FrameOn(f, W[n])' /\ LinkOn(f, W[n], g, w)
      BY <1>5, <2>10, <2>16
    <2>21. Tracked'
      BY <1>1, <1>2, <1>3, <2>2, <2>12, <2>13, <2>14, <2>15, <2>17,
         <2>18, <2>19, <2>20, TrackPush, ZenonT(60)
    <2>22. stack' # <<>>
      BY <1>1, <2>2, PushedStack DEF StackInv
    <2> QED
      BY <1>1, <2>21, <2>22, StaysFaithful
  <1> QED
    BY <1>9, <1>10

\* The loop is past one more entry.
LEMMA DoneStep ==
    ASSUME NEW f, FrameInv(f), NEW w \in Where, f.next <= Len(Entries(f)),
           NEW g, g.archive = f.archive, g.depth = f.depth, g.next = f.next + 1
    PROVE  Done(g, w) = Then(Done(f, w), Here(f, w))
  <1>1. /\ f.archive \in Payloads /\ f.next \in Nat \ {0} /\ Len(Entries(f)) \in Nat
        /\ Level(f) - 1 \in Nat /\ w.dir \in Seq(STRING) /\ w.at \in Seq(Nat)
    BY FrameTypes
  <1>2. PICK below \in Table : below = Outcome[Level(f) - 1]
    BY <1>1, OutcomeFacts
  <1>3. PICK k \in 1 .. Len(Bytes[f.archive].entries) : k = f.next /\ g.next - 1 = k
    BY <1>1 DEF Entries
  <1>4. PICK p \in Payloads, dir \in Seq(STRING), position \in Seq(Nat) :
          p = f.archive /\ dir = w.dir /\ position = w.at
    BY <1>1
  <1>5. LoopOutcome(below, p, dir, position)[k] =
          Then(LoopOutcome(below, p, dir, position)[k - 1],
               EntryOutcome(below, p, dir, position, k))
    BY <1>3, <1>4, LoopFacts, Zenon
  <1>6. Level(g) = Level(f)
    BY DEF Level
  <1>7. Done(g, w) = LoopOutcome(below, p, dir, position)[k]
    BY <1>2, <1>3, <1>4, <1>6 DEF Done
  <1>8. Done(f, w) = LoopOutcome(below, p, dir, position)[k - 1]
    BY <1>2, <1>3, <1>4 DEF Done
  <1>9. Here(f, w) = EntryOutcome(below, p, dir, position, k)
    BY <1>2, <1>3, <1>4 DEF Here
  <1> QED
    BY <1>5, <1>7, <1>8, <1>9

\* One entry later.
LEMMA TakenStep ==
    ASSUME NEW f, FrameInv(f), f.next <= Len(Entries(f)),
           NEW g, g.archive = f.archive, g.depth = f.depth, g.next = f.next + 1
    PROVE  Taken(g) = Taken(f) + 1
             + (IF IsContainer(Current(f))
                  THEN Acquisitions[Level(f) - 1][Current(f).payload] ELSE 0)
  <1>1. f.next \in Nat
    BY DEF FrameInv, IsFrame
  <1>2. g.next - 1 = f.next /\ Level(g) = Level(f)
    BY <1>1 DEF Level
  <1>3. Taken(g) = Spent(Acquisitions[Level(f) - 1], f.archive)[f.next]
    BY <1>2 DEF Taken
  <1> QED
    BY <1>3, TakenFacts

\* The file of an entry: after what a nested archive gives, and there it is.
LEMMA NextFile ==
    ASSUME StackInv, NEW f, FrameInv(f), NEW w, FrameOn(f, w), f.pc = "write",
           f.next <= Len(Entries(f)), TopOn(f, w), extract
    PROVE  /\ Here(f, w).ok
           /\ Len(written) \in Nat
           /\ Len(written) + 1 = w.from + Len(Done(f, w).files) + Len(Here(f, w).files)
           /\ Len(written) + 1 <= Len(Expected.files)
           /\ Expected.files[Len(written) + 1] = FileHere(f, w)
  <1>1. /\ w \in Where /\ Readable(f.archive) /\ Done(f, w).ok /\ Current(f).chunk = "ok"
        /\ PartOf(Whole(f, w), w.from, Expected)
    BY DEF FrameOn
  <1>2. /\ Inside(f, w) \in Result /\ Here(f, w) \in Result /\ Whole(f, w) \in Result
        /\ Done(f, w) \in Result /\ w.from \in Nat /\ Expected \in Result
    BY <1>1, InsideTypes, FrameTypes, ExpectedType
  <1>3. PICK d \in Nat, i \in Nat, h \in Nat, m \in Nat :
          /\ d = Len(Done(f, w).files) /\ i = Len(Inside(f, w).files)
          /\ h = Len(Here(f, w).files) /\ m = Len(Expected.files)
    BY <1>2, ResultFacts
  <1>4. PartOf(Here(f, w), Len(Done(f, w).files), Whole(f, w))
    BY <1>1, BodyFacts
  <1>5. PartOf(Here(f, w), w.from + d, Expected)
    BY <1>1, <1>2, <1>3, <1>4, PartTransitive
  <1>6. /\ Here(f, w).ok
        /\ h = (IF IsContainer(Current(f)) THEN i ELSE 0) + 1
        /\ Here(f, w).files[h] = FileHere(f, w)
    <2>1. CASE IsContainer(Current(f))
      <3>1. Inside(f, w).ok
        BY <2>1 DEF TopOn
      <3>2. /\ Here(f, w).ok
            /\ Len(Here(f, w).files) = Len(Inside(f, w).files) + 1
            /\ Here(f, w).files[Len(Inside(f, w).files) + 1] = FileHere(f, w)
        BY <1>1, <2>1, <3>1, HereFacts, Zenon
      <3> QED
        BY <1>3, <2>1, <3>2
    <2>2. CASE ~IsContainer(Current(f))
      <3>1. /\ Here(f, w).ok
            /\ Len(Here(f, w).files) = 1
            /\ Here(f, w).files[1] = FileHere(f, w)
        BY <1>1, <2>2, HereFacts, Zenon
      <3> QED
        BY <1>3, <2>2, <3>1
    <2> QED
      BY <2>1, <2>2
  <1>7. Len(written) = w.from + d + (IF IsContainer(Current(f)) THEN i ELSE 0)
    BY <1>3 DEF TopOn
  <1>8. /\ Len(written) \in Nat /\ Len(written) + 1 = w.from + d + h
        /\ Len(written) + 1 = (w.from + d) + h /\ h \in 1 .. h
    BY <1>2, <1>6, <1>7
  <1>9. (w.from + d) + h <= m /\ Expected.files[(w.from + d) + h] = Here(f, w).files[h]
    BY <1>3, <1>5, <1>8, Zenon DEF PartOf
  <1> QED
    BY <1>3, <1>6, <1>8, <1>9

\* One more file as it should be.
LEMMA AgreeAppend ==
    ASSUME FilesInv, NEW expected, Agree(written, expected), Len(written) \in Nat,
           NEW m, m = Len(written) + 1, m <= Len(expected), NEW e,
           e \in {expected[m], [expected[m] EXCEPT !.bytes = Lost]}
    PROVE  Agree(Append(written, e), expected) /\ Len(Append(written, e)) = m
  <1> DEFINE Old == {written[k] : k \in 1 .. Len(written)}
             S == Old \cup {e}
  <1>1. written \in Seq(Old)
    BY DEF FilesInv, IsList
  <1> HIDE DEF Old
  <1>2. written \in Seq(S) /\ e \in S
    BY <1>1
  <1> HIDE DEF S
  <1>3. PICK n \in Nat : n = Len(written) /\ m = n + 1
    OBVIOUS
  <1>4. PICK t : t = Append(written, e)
    OBVIOUS
  <1>5. /\ t \in Seq(S) /\ Len(t) = n + 1 /\ t[n + 1] = e
        /\ \A k \in 1 .. n : t[k] = written[k]
    BY <1>2, <1>3, <1>4
  <1>6. DOMAIN t = 1 .. n + 1 /\ DOMAIN written = 1 .. n
    BY <1>2, <1>3, <1>5, LenProperties
  <1>7. ASSUME NEW k \in DOMAIN t
        PROVE  t[k] \in {expected[k], [expected[k] EXCEPT !.bytes = Lost]}
    <2>1. CASE k = n + 1
      BY <1>3, <1>5, <2>1
    <2>2. CASE k # n + 1
      <3>1. k \in 1 .. n
        BY <1>6, <2>2
      <3>2. k \in DOMAIN written
        BY <1>6, <3>1, Zenon
      <3>3. written[k] \in {expected[k], [expected[k] EXCEPT !.bytes = Lost]}
        BY <3>2, Zenon DEF Agree
      <3> QED
        BY <1>5, <3>1, <3>3
    <2> QED
      BY <2>1, <2>2
  <1> QED
    BY <1>3, <1>4, <1>5, <1>7, Zenon DEF Agree

\* The entry a file is written for.
LEMMA PositionIs ==
    ASSUME StackInv, stack # <<>>, NEW s, NEW W, s = stack, Tracks(s, W),
           NEW n, n = Len(s), NEW f, f = s[n], NEW w, w = W[n]
    PROVE  Position = InnerAt(f, w)
  <1>1. n \in Nat \ {0} /\ n = Len(stack) /\ w \in Where
    BY TopTracked
  <1>2. n \in 1 .. n /\ n \in 1 .. Len(s)
    BY <1>1
  <1>3. /\ w.at \in Seq(Nat) /\ Len(w.at) = n - 1
        /\ \A i \in 1 .. n - 1 : w.at[i] = s[i].next
    BY <1>1, <1>2 DEF Tracks, Where
  <1>4. \A k \in 1 .. n : stack[k].next \in Nat
    BY <1>1 DEF StackInv, FrameInv, IsFrame
  <1>5. PICK p : p = [k \in 1 .. n |-> stack[k].next]
    OBVIOUS
  <1>6. p \in Seq(Nat) /\ Len(p) = n /\ \A k \in 1 .. n : p[k] = s[k].next
    BY <1>1, <1>4, <1>5
  <1>7. PICK q : q = Append(w.at, f.next)
    OBVIOUS
  <1>8. f.next \in Nat /\ f.next = s[n].next
    BY <1>2, <1>4
  <1>9. /\ q \in Seq(Nat) /\ Len(q) = n /\ q[n] = s[n].next
        /\ \A k \in 1 .. n - 1 : q[k] = w.at[k]
    BY <1>1, <1>3, <1>7, <1>8
  <1>10. ASSUME NEW k \in 1 .. n
         PROVE  p[k] = q[k]
    <2>1. CASE k = n
      BY <1>6, <1>9, <2>1
    <2>2. CASE k # n
      <3>1. k \in 1 .. n - 1
        BY <1>1, <2>2
      <3>2. q[k] = s[k].next
        BY <1>3, <1>9, <3>1, Zenon
      <3> QED
        BY <1>6, <3>2
    <2> QED
      BY <2>1, <2>2
  <1>11. p = q
    BY <1>6, <1>9, <1>10, SeqEqual
  <1> QED
    BY <1>1, <1>5, <1>7, <1>11 DEF Position, InnerAt

\* The loop goes on after its entry.
LEMMA WrittenTracked ==
    ASSUME FullInv, P!TypeInvariant, stack # <<>>, NEW s, NEW W, s = stack, Tracks(s, W),
           NEW n, n = Len(s), s[n].pc = "write",
           Update([s[n] EXCEPT !.next = @ + 1, !.handle = NoHandle, !.pc = "entry"]),
           UNCHANGED poolVars, UNCHANGED <<contents, root, entrypoint>>,
           IF extract THEN Len(written') = Len(written) + 1 ELSE UNCHANGED written
    PROVE  Tracked' /\ stack' # <<>>
  <1>1. StackInv
    BY DEF FullInv
  <1>2. /\ n \in Nat \ {0} /\ n = Len(stack) /\ Top = s[n]
        /\ FrameInv(s[n]) /\ W[n] \in Where
        /\ FrameOn(s[n], W[n]) /\ BufferOn(s[n]) /\ TopOn(s[n], W[n])
    BY <1>1, TopTracked
  <1>3. PICK f, w : f = s[n] /\ w = W[n]
    OBVIOUS
  <1>4. /\ f.next <= Len(Entries(f)) /\ f.pc = "write" /\ FrameInv(f)
        /\ FrameOn(f, w) /\ TopOn(f, w) /\ w \in Where
    BY <1>2, <1>3 DEF FrameInv
  <1>5. PICK g : g = [f EXCEPT !.next = @ + 1, !.handle = NoHandle, !.pc = "entry"]
    OBVIOUS
  <1>6. /\ g.archive = f.archive /\ g.depth = f.depth /\ g.source = f.source
        /\ g.dir = f.dir /\ g.pc = "entry" /\ g.next = f.next + 1 /\ g.handle = NoHandle
    BY <1>4, <1>5 DEF FrameInv, IsFrame
  <1>7. Level(g) = Level(f) /\ Whole(g, w) = Whole(f, w)
    BY <1>6, SameCall
  <1>8. Done(g, w) = Then(Done(f, w), Here(f, w))
    BY <1>4, <1>6, DoneStep
  <1>9. Done(f, w) \in Result /\ Here(f, w) \in Result /\ Done(f, w).ok
    BY <1>4, FrameTypes, InsideTypes DEF FrameOn
  <1>10. Here(f, w).ok
    <2>1. Current(f).chunk = "ok"
      BY <1>4 DEF FrameOn
    <2>2. CASE IsContainer(Current(f))
      <3>1. Inside(f, w).ok
        BY <1>4, <2>2 DEF TopOn
      <3> QED
        BY <1>4, <2>1, <2>2, <3>1, HereFacts, Zenon
    <2>3. CASE ~IsContainer(Current(f))
      BY <1>4, <2>1, <2>3, HereFacts, Zenon
    <2> QED
      BY <2>2, <2>3
  <1>11. Done(g, w).ok
    <2>1. Then(Done(f, w), Here(f, w)).ok
      BY <1>9, <1>10, ThenOk, Zenon
    <2> QED
      BY <1>8, <2>1
  <1>12. FrameOn(g, w)
    BY <1>4, <1>6, <1>7, <1>11 DEF FrameOn, InBody
  <1>13. FrameOn(g, w)'
    BY <1>12, FrameStays
  <1>14. BufferOn(g)'
    BY <1>6 DEF BufferOn, InBody
  <1>15. TopOn(g, w)'
    <2>1. acquires' = acquires /\ (extract <=> extract')
      BY DEF poolVars, extract
    <2>2. g.source.serial <= acquires /\ acquires <= g.source.serial + Taken(g)
      <3>1. PICK t \in Nat, cost \in Nat :
              /\ t = Taken(f) /\ Taken(g) = t + 1 + cost
              /\ cost = (IF IsContainer(Current(f))
                           THEN Acquisitions[Level(f) - 1][Current(f).payload] ELSE 0)
        BY <1>4, <1>6, TakenFacts, TakenStep
      <3>2. PICK x \in Nat, y \in Nat : x = f.source.serial /\ y = f.handle.serial
        BY <1>1, <1>2, <1>3, SerialTypes
      <3>3. x < y /\ y <= x + t + 1
        BY <1>4, <3>1, <3>2 DEF FrameOn, InBody
      <3>4. y <= acquires /\ acquires <= y + cost
        BY <1>4, <3>1, <3>2 DEF TopOn
      <3>5. acquires \in Nat
        BY <1>1 DEF StackInv, RingTypes
      <3> QED
        BY <1>6, <3>1, <3>2, <3>3, <3>4, <3>5, SMTT(60)
    <2>3. ASSUME extract
          PROVE  Len(written') = w.from + Len(Done(g, w).files) + 0
      <3>1. Len(written) + 1 = w.from + Len(Done(f, w).files) + Len(Here(f, w).files)
        BY <1>1, <1>4, <2>3, NextFile
      <3>2. Len(Done(g, w).files) = Len(Done(f, w).files) + Len(Here(f, w).files)
        <4>1. Len(Then(Done(f, w), Here(f, w)).files) =
              Len(Done(f, w).files) + Len(Here(f, w).files)
          BY <1>9, ThenLength, Zenon
        <4> QED
          BY <1>8, <4>1
      <3>3. w.from \in Nat /\ Len(Done(f, w).files) \in Nat /\ Len(Here(f, w).files) \in Nat
        BY <1>4, <1>9, FrameTypes, ResultFacts
      <3>4. Len(written') = Len(written) + 1
        BY <2>3
      <3>5. w.from + Len(Done(f, w).files) + Len(Here(f, w).files) =
            w.from + Len(Done(g, w).files) + 0
        <4>1. PICK a \in Nat, b \in Nat, c \in Nat :
                a = w.from /\ b = Len(Done(f, w).files) /\ c = Len(Here(f, w).files)
          BY <3>3
        <4>2. PICK d : d = Len(Done(g, w).files)
          OBVIOUS
        <4>3. d = b + c
          BY <3>2, <4>1, <4>2
        <4>4. a + b + c = a + d + 0
          BY <4>3
        <4> QED
          BY <4>1, <4>2, <4>4
      <3> QED
        BY <3>1, <3>4, <3>5
    <2> QED
      BY <1>6, <2>1, <2>2, <2>3 DEF TopOn
  <1>16. \A j \in 1 .. n - 1 : BufferOn(s[j])'
    <2>1. \A j \in 1 .. n - 1 : j \in 1 .. n
      BY <1>2
    <2> QED
      BY <1>2, <2>1, BuffersStay
  <1>17. g.archive = s[n].archive /\ g.depth = s[n].depth /\ g.source = s[n].source
    BY <1>3, <1>6
  <1>18. Update(g)
    BY <1>3, <1>5
  <1>19. FrameOn(g, W[n])' /\ TopOn(g, W[n])'
    BY <1>3, <1>13, <1>15
  <1>20. Tracked'
    BY <1>1, <1>14, <1>16, <1>17, <1>18, <1>19, TrackUpdate
  <1>21. stack' # <<>>
    BY <1>1, <1>18, UpdatedStack DEF StackInv
  <1> QED
    BY <1>20, <1>21

\* The file written is the next one.
LEMMA WriteFileFidelity ==
    ASSUME FullInv, P!TypeInvariant, RootFits, Faithful, WriteFile
    PROVE  FidelityInv'
  <1>1. /\ StackInv /\ FilesInv /\ stack # <<>> /\ Top.pc = "write" /\ UNCHANGED poolVars
        /\ UNCHANGED <<contents, root, entrypoint>>
    BY DEF FullInv, WriteFile, At
  <1>2. PICK s, W : s = stack /\ Tracks(s, W)
    BY DEF Faithful, Tracked
  <1>3. PICK n : n = Len(s)
    OBVIOUS
  <1>4. /\ n \in Nat \ {0} /\ n = Len(stack) /\ Top = s[n]
        /\ FrameInv(s[n]) /\ W[n] \in Where
        /\ FrameOn(s[n], W[n]) /\ BufferOn(s[n]) /\ TopOn(s[n], W[n])
    BY <1>1, <1>2, <1>3, TopTracked
  <1>5. PICK f, w : f = s[n] /\ w = W[n]
    OBVIOUS
  <1>6. /\ f.next <= Len(Entries(f)) /\ f.pc = "write" /\ FrameInv(f)
        /\ FrameOn(f, w) /\ BufferOn(f) /\ TopOn(f, w) /\ w \in Where /\ Top = f
    BY <1>1, <1>4, <1>5 DEF FrameInv
  <1>7. Position = InnerAt(f, w)
    BY <1>1, <1>2, <1>3, <1>5, PositionIs
  <1>8. Pool!Intact(f.handle) /\ contents[f.handle.slot] = Current(f).payload
    BY <1>6 DEF BufferOn, InBody
  <1> DEFINE file(content) == [path |-> SafeOutputPath(f.dir, Current(f).name),
                               bytes |-> content, entry |-> Position]
             done == Update([f EXCEPT !.next = @ + 1, !.handle = NoHandle, !.pc = "entry"])
  <1>9. \/ ~extract /\ done /\ UNCHANGED written
        \/ /\ extract /\ done
           /\ \E content \in {Current(f).payload, Lost} : written' = Append(written, file(content))
        \/ extract /\ Fail /\ UNCHANGED written
        \/ extract /\ Fail /\ written' = Append(written, file(Torn))
    BY <1>6, <1>8 DEF WriteFile, LostUnseen
  <1>10. (extract <=> extract') /\ Expected' = Expected
    BY <1>1 DEF extract, Expected, FirstDepth
  <1>11. CASE ~extract /\ done /\ UNCHANGED written
    <2>1. Tracked' /\ stack' # <<>>
      BY <1>1, <1>2, <1>3, <1>5, <1>6, <1>11, WrittenTracked
    <2> QED
      BY <1>1, <1>11, <2>1, StaysFaithful
  <1>12. CASE /\ extract /\ done
              /\ \E content \in {Current(f).payload, Lost} : written' = Append(written, file(content))
    <2>1. PICK content \in {Current(f).payload, Lost} :
             written' = Append(written, file(content))
      BY <1>12
    <2>2. PICK e : e = file(content) /\ written' = Append(written, e)
      BY <2>1
    <2>3. /\ Len(written) \in Nat /\ Len(written) + 1 <= Len(Expected.files)
          /\ Expected.files[Len(written) + 1] = FileHere(f, w)
      BY <1>1, <1>6, <1>12, NextFile
    <2>4. e \in {FileHere(f, w), [FileHere(f, w) EXCEPT !.bytes = Lost]}
      <3>1. f.dir = w.dir
        BY <1>6, <1>12 DEF FrameOn
      <3> QED
        BY <1>7, <2>2, <3>1 DEF FileHere
    <2>5. PICK m : m = Len(written) + 1
      OBVIOUS
    <2>6. Agree(written, Expected.files)
      BY DEF Faithful
    <2>7. Agree(Append(written, e), Expected.files) /\ Len(Append(written, e)) = m
      BY <1>1, <2>3, <2>4, <2>5, <2>6, AgreeAppend
    <2>8. Len(written') = Len(written) + 1
      BY <2>2, <2>5, <2>7
    <2>9. Tracked' /\ stack' # <<>>
      BY <1>1, <1>2, <1>3, <1>5, <1>6, <1>12, <2>8, WrittenTracked
    <2>10. Agree(written', Expected'.files)
      BY <1>10, <2>2, <2>7
    <2>11. extract'
      BY <1>10, <1>12
    <2> QED
      BY <2>9, <2>10, <2>11 DEF FidelityInv, Faithful
  <1>13. CASE extract /\ Fail /\ UNCHANGED written
    BY <1>1, <1>13, JustFailure
  <1>14. CASE extract /\ Fail /\ written' = Append(written, file(Torn))
    <2>1. PICK e : e = file(Torn)
      OBVIOUS
    <2>2. e.bytes = Torn /\ written' = Append(written, e)
      BY <1>14, <2>1
    <2>3. Agree(written, Expected.files)
      BY DEF Faithful
    <2> QED
      BY <1>1, <1>14, <2>2, <2>3, CloseTorn
  <1> QED
    BY <1>9, <1>11, <1>12, <1>13, <1>14

\* Extraction is done.
LEMMA CloseOk ==
    ASSUME FullInv, RootFits, UNCHANGED <<root, entrypoint, written>>,
           stack' = <<>>, result' = "ok", Agree(written, Expected.files), Expected.ok,
           extract => Len(written) = Len(Expected.files)
    PROVE  FidelityInv'
  <1>1. (extract <=> extract') /\ Expected' = Expected
    BY DEF extract, Expected, FirstDepth
  <1>2. SuccessExact'
    BY <1>1 DEF SuccessExact
  <1>3. FaithfulPrefix'
    <2>1. ~(written # <<>> /\ written[Len(written)].bytes = Torn)
      BY WholeFiles DEF FullInv
    <2> QED
      BY <1>1, <2>1 DEF FaithfulPrefix
  <1> QED
    BY <1>2, <1>3 DEF FidelityInv

\* What a call has taken when its loop is done.
LEMMA TakenAll ==
    ASSUME NEW f, FrameInv(f), f.next > Len(Entries(f))
    PROVE  /\ Taken(f) = Acquisitions[Level(f)][f.archive]
           /\ Taken(f) \in Nat
  <1>1. f.archive \in Payloads /\ f.next \in Nat \ {0} /\ f.depth \in 0 .. MaxNestedDepth
        /\ Len(Entries(f)) \in Nat
    BY ParsedFacts DEF FrameInv, IsFrame, Entries
  <1>2. f.next - 1 = Len(Bytes[f.archive].entries)
    BY <1>1 DEF FrameInv, Entries
  <1>3. Level(f) \in Nat \ {0}
    BY <1>1, UnpackAssumption DEF Level, Levels
  <1>4. Acquisitions[Level(f)][f.archive] =
          Spent(Acquisitions[Level(f) - 1], f.archive)[Len(Bytes[f.archive].entries)]
    BY <1>1, <1>3, AcquisitionsFacts, Zenon
  <1>5. Acquisitions[Level(f)][f.archive] \in Nat
    BY <1>1, <1>3, AcquisitionsFacts
  <1> QED
    BY <1>2, <1>4, <1>5 DEF Taken

\* The caller, when its callee has returned.
LEMMA CallerFacts ==
    ASSUME NEW e, FrameInv(e), e.pc = "nested", NEW v, FrameOn(e, v),
           NEW f, f = [e EXCEPT !.pc = "write"]
    PROVE  /\ f.pc = "write" /\ f.handle = e.handle
           /\ Level(f) = Level(e) /\ Done(f, v) = Done(e, v)
           /\ Current(f) = Current(e) /\ Inside(f, v) = Inside(e, v)
           /\ FrameOn(f, v)
  <1>1. /\ f.archive = e.archive /\ f.depth = e.depth /\ f.source = e.source
        /\ f.dir = e.dir /\ f.pc = "write" /\ f.next = e.next /\ f.handle = e.handle
    BY DEF FrameInv, IsFrame
  <1>2. PICK h : h = f
    OBVIOUS
  <1>3. h.archive = e.archive /\ h.depth = e.depth /\ h.next = e.next
    BY <1>1, <1>2
  <1>4. /\ Level(h) = Level(e) /\ Whole(h, v) = Whole(e, v)
        /\ Done(h, v) = Done(e, v) /\ Taken(h) = Taken(e)
        /\ Current(h) = Current(e) /\ Inside(h, v) = Inside(e, v)
    BY <1>3, SameCall, Zenon
  <1>5. /\ Level(f) = Level(e) /\ Whole(f, v) = Whole(e, v)
        /\ Done(f, v) = Done(e, v) /\ Taken(f) = Taken(e)
        /\ Current(f) = Current(e) /\ Inside(f, v) = Inside(e, v)
    BY <1>2, <1>4
  <1>6. FrameOn(f, v)
    BY <1>1, <1>5 DEF FrameOn, InBody
  <1> QED
    BY <1>1, <1>5, <1>6

LEMMA ReturnTracked ==
    ASSUME FullInv, P!TypeInvariant, stack # <<>>, NEW s, NEW W, s = stack, Tracks(s, W),
           NEW m, m \in Nat \ {0}, m + 1 = Len(s), s[m + 1].pc = "entry",
           s[m + 1].next > Len(Entries(s[m + 1])), Whole(s[m + 1], W[m + 1]).ok,
           NEW f, f = [s[m] EXCEPT !.pc = "write"],
           Len(stack') = m, stack'[m] = f, \A j \in 1 .. m - 1 : stack'[j] = stack[j],
           UNCHANGED poolVars, UNCHANGED <<contents, root, entrypoint, written>>
    PROVE  Tracked'
  <1>1. StackInv
    BY DEF FullInv
  <1>2. PICK n : n = Len(s) /\ n = m + 1
    OBVIOUS
  <1>3. PICK g, w : g = s[n] /\ w = W[n]
    OBVIOUS
  <1>4. PICK e, v : e = s[m] /\ v = W[m]
    OBVIOUS
  <1>5. FrameInv(g) /\ w \in Where /\ FrameOn(g, w) /\ TopOn(g, w)
    BY <1>1, <1>2, <1>3, TopTracked
  <1>6. g.pc = "entry" /\ g.next > Len(Entries(g)) /\ Whole(g, w).ok
    BY <1>2, <1>3
  <1>7. m \in 1 .. Len(s) /\ m \in 1 .. Len(s) - 1 /\ m \in 1 .. Len(stack) /\ m < Len(stack)
        /\ n \in 2 .. Len(stack) /\ n - 1 = m
    BY <1>2
  <1>8. FrameOn(e, v) /\ BufferOn(e) /\ LinkOn(e, v, g, w)
    BY <1>2, <1>3, <1>4, <1>7 DEF Tracks
  <1>9. FrameInv(e) /\ e.pc = "nested" /\ g.source = e.handle
    <2>1. \A k \in 1 .. Len(stack) : FrameInv(stack[k])
          /\ (stack[k].pc = "nested" <=> k < Len(stack))
      BY <1>1 DEF StackInv
    <2>2. \A k \in 2 .. Len(stack) : stack[k].source = stack[k - 1].handle
      BY <1>1 DEF StackInv
    <2>3. FrameInv(stack[m]) /\ stack[m].pc = "nested"
      BY <1>7, <2>1
    <2>4. stack[n].source = stack[m].handle
      BY <1>7, <2>2
    <2> QED
      BY <1>3, <1>4, <2>3, <2>4
  <1>10. /\ f.pc = "write" /\ f.handle = e.handle
         /\ Level(f) = Level(e) /\ Done(f, v) = Done(e, v)
         /\ Current(f) = Current(e) /\ Inside(f, v) = Inside(e, v)
         /\ FrameOn(f, v)
    BY <1>4, <1>8, <1>9, CallerFacts
  <1>11. FrameOn(f, v)'
    BY <1>10, FrameStays
  <1>12. Level(g) = Level(e) - 1
    <2>1. g.depth = e.depth + 1
      BY <1>8 DEF LinkOn
    <2>2. e.depth \in Nat /\ MaxNestedDepth \in Nat
      BY <1>9, UnpackAssumption DEF FrameInv, IsFrame
    <2> QED
      BY <2>1, <2>2 DEF Level, Levels
  <1>13. Whole(g, w) = Inside(e, v)
    BY <1>8, <1>12 DEF LinkOn, Whole, Inside
  <1>14. TopOn(f, v)
    <2>1. PICK x \in Nat, t \in Nat :
            /\ x = e.handle.serial /\ t = Taken(g)
            /\ t = Acquisitions[Level(e) - 1][Current(e).payload]
      <3>1. e.handle.serial \in Nat
        BY <1>1, <1>4, <1>7, SerialTypes
      <3>2. Taken(g) \in Nat /\ Taken(g) = Acquisitions[Level(g)][g.archive]
        BY <1>5, <1>6, TakenAll
      <3>3. g.archive = Current(e).payload
        BY <1>8 DEF LinkOn
      <3> QED
        BY <1>12, <3>1, <3>2, <3>3
    <2>2. x <= acquires /\ acquires <= x + t
      BY <1>5, <1>6, <1>9, <2>1 DEF TopOn
    <2>3. IsContainer(Current(e))
      BY <1>8, <1>9 DEF FrameOn
    <2>4. Inside(e, v).ok
      BY <1>6, <1>13
    <2>5. ASSUME extract
          PROVE  Len(written) = v.from + Len(Done(e, v).files) + Len(Inside(e, v).files)
      <3>1. Len(written) = w.from + Len(Done(g, w).files) + 0
        BY <1>5, <1>6, <2>5 DEF TopOn
      <3>2. w.from = v.from + Len(Done(e, v).files)
        BY <1>8 DEF LinkOn
      <3>3. Len(Inside(e, v).files) = Len(Done(g, w).files)
        <4>1. Readable(g.archive) /\ Done(g, w).ok
          BY <1>5, <1>6 DEF FrameOn
        <4>2. Len(Whole(g, w).files) = Len(Done(g, w).files)
          BY <1>5, <1>6, <4>1, EndFacts
        <4> QED
          BY <1>13, <4>2
      <3>4. w.from \in Nat /\ Len(Done(g, w).files) \in Nat
        BY <1>5, FrameTypes, ResultFacts
      <3> QED
        BY <3>1, <3>2, <3>3, <3>4
    <2> QED
      BY <1>10, <2>1, <2>2, <2>3, <2>4, <2>5 DEF TopOn
  <1>15. TopOn(f, v)'
    <2>1. UNCHANGED acquires
      BY DEF poolVars
    <2> QED
      BY <1>14, <2>1, TopStays
  <1>16. \A j \in 1 .. m : BufferOn(s[j])'
    <2>1. \A j \in 1 .. m : j \in 1 .. n
      BY <1>2
    <2>2. n \in Nat
      BY <1>2
    <2> QED
      BY <1>2, <2>1, <2>2, BuffersStay
  <1>17. FrameOn(f, W[m])' /\ TopOn(f, W[m])'
    BY <1>4, <1>11, <1>15
  <1> QED
    BY <1>1, <1>16, <1>17, TrackPop

\* A call that returns has given what it should.
LEMMA ParseExtensionFidelity ==
    ASSUME FullInv, FullInv', P!TypeInvariant, RootFits, Faithful, ParseExtension
    PROVE  FidelityInv'
  <1>1. /\ StackInv /\ stack # <<>> /\ Top.pc = "entry" /\ UNCHANGED poolVars
        /\ UNCHANGED <<contents, root, entrypoint, written>>
    BY DEF FullInv, ParseExtension, At
  <1>2. PICK s, W : s = stack /\ Tracks(s, W)
    BY DEF Faithful, Tracked
  <1>3. PICK n : n = Len(s)
    OBVIOUS
  <1>4. /\ n \in Nat \ {0} /\ n = Len(stack) /\ Top = s[n]
        /\ FrameInv(s[n]) /\ W[n] \in Where
        /\ FrameOn(s[n], W[n]) /\ BufferOn(s[n]) /\ TopOn(s[n], W[n])
        /\ SourceGood(s[n])
    BY <1>1, <1>2, <1>3, TopTracked
  <1>5. PICK f, w : f = s[n] /\ w = W[n]
    OBVIOUS
  <1>6. /\ f.next > Len(Entries(f)) /\ f.pc = "entry" /\ FrameInv(f)
        /\ FrameOn(f, w) /\ TopOn(f, w) /\ w \in Where
        /\ Readable(f.archive) /\ Done(f, w).ok
    BY <1>1, <1>4, <1>5 DEF ParseExtension, FrameOn
  <1>7. IF Bytes[f.archive].extension = "truncated" THEN Fail
        ELSE IF n = 1 THEN stack' = <<>> /\ result' = "ok"
        ELSE /\ stack' = [SubSeq(stack, 1, Len(stack) - 1)
                            EXCEPT ![Len(stack) - 1].pc = "write"]
             /\ UNCHANGED result
    BY <1>4, <1>5 DEF ParseExtension
  <1>8. /\ Whole(f, w).ok <=> Bytes[f.archive].extension # "truncated"
        /\ Len(Whole(f, w).files) = Len(Done(f, w).files)
    BY <1>6, EndFacts
  <1>9. Agree(written, Expected.files)
    BY DEF Faithful
  <1>10. CASE Bytes[f.archive].extension = "truncated"
    <2>1. ~Expected.ok
      BY <1>6, <1>8, <1>10, WholeFails
    <2> QED
      BY <1>1, <1>7, <1>10, <2>1, JustFailure
  <1>11. CASE Bytes[f.archive].extension # "truncated" /\ n = 1
    <2>1. Whole(f, w) = Expected
      <3>1. f.archive = root /\ f.depth = FirstDepth /\ w = Root
        BY <1>2, <1>5, <1>11 DEF Tracks
      <3> QED
        BY <3>1 DEF Whole, Expected, Level, Root
    <2>2. Expected.ok
      BY <1>8, <1>11, <2>1
    <2>3. ASSUME extract
          PROVE  Len(written) = Len(Expected.files)
      <3>1. Len(written) = w.from + Len(Done(f, w).files) + 0
        BY <1>6, <2>3 DEF TopOn
      <3>2. w.from = 0
        BY <1>2, <1>5, <1>11 DEF Tracks, Root
      <3>3. Len(Done(f, w).files) \in Nat
        BY <1>6, FrameTypes, ResultFacts
      <3> QED
        BY <1>8, <2>1, <3>1, <3>2, <3>3
    <2> QED
      BY <1>1, <1>7, <1>9, <1>11, <2>2, <2>3, CloseOk
  <1>12. CASE Bytes[f.archive].extension # "truncated" /\ n # 1
    <2>1. PICK m \in Nat \ {0} : m + 1 = n /\ Len(stack) - 1 = m
      BY <1>4, <1>12
    <2>2. PICK g : g = [s[m] EXCEPT !.pc = "write"]
      OBVIOUS
    <2>3. IsList(stack) /\ Len(stack) # 1 /\ RingTypes'
      BY <1>1, <1>4, <1>12 DEF StackInv, FullInv
    <2>4. stack' = [SubSeq(stack, 1, Len(stack) - 1) EXCEPT ![Len(stack) - 1] = g]
      <3>1. SubSeq(stack, 1, Len(stack) - 1)[m] = stack[m]
        <4>1. PICK t : t = SubSeq(stack, 1, Len(stack) - 1)
          OBVIOUS
        <4>2. \A k \in 1 .. Len(stack) - 1 : t[k] = stack[k]
          BY <1>1, <2>3, <4>1, Pop
        <4> QED
          BY <2>1, <4>1, <4>2
      <3> QED
        BY <1>2, <1>7, <1>12, <2>1, <2>2, <3>1
    <2>5. UNCHANGED <<root, result>> /\ g = [stack[Len(stack) - 1] EXCEPT !.pc = "write"]
      BY <1>1, <1>2, <1>7, <1>12, <2>1, <2>2
    <2>6. /\ stack' # <<>> /\ Len(stack') = Len(stack) - 1 /\ stack'[Len(stack')] = g
          /\ \A k \in 1 .. Len(stack') - 1 : stack'[k] = stack[k]
      BY <1>1, <2>3, <2>4, <2>5, PopStep
    <2>7. Len(stack') = m /\ stack'[m] = g /\ \A j \in 1 .. m - 1 : stack'[j] = stack[j]
      BY <2>1, <2>6
    <2>8. Whole(s[m + 1], W[m + 1]).ok /\ s[m + 1].pc = "entry"
          /\ s[m + 1].next > Len(Entries(s[m + 1])) /\ m + 1 = Len(s)
      BY <1>3, <1>5, <1>6, <1>8, <1>12, <2>1
    <2>9. Tracked'
      BY <1>1, <1>2, <2>1, <2>2, <2>7, <2>8, ReturnTracked
    <2> QED
      BY <1>1, <2>6, <2>9, StaysFaithful
  <1> QED
    BY <1>10, <1>11, <1>12

-----------------------------------------------------------------------------

\* At its start the outermost call is where extraction begins.
LEMMA FidelityStart ==
    ASSUME Init, FullInv
    PROVE  FidelityInv
  <1>1. PICK f : f = Frame(NoHandle, root, FirstDepth, <<>>, IF extract THEN "open" ELSE "index")
    OBVIOUS
  <1>2. stack = <<f>> /\ written = <<>> /\ acquires = 0
    BY <1>1 DEF Init, Pool!PoolInit
  <1>3. /\ f.source = NoHandle /\ f.archive = root /\ f.depth = FirstDepth /\ f.dir = <<>>
        /\ f.next = 1 /\ f.handle = NoHandle /\ f.pc = (IF extract THEN "open" ELSE "index")
    BY <1>1 DEF Frame
  <1>4. PICK s : s = stack
    OBVIOUS
  <1>5. Len(s) = 1 /\ s[1] = f
    BY <1>2, <1>4
  <1>6. PICK W : W = [j \in {1} |-> Root]
    OBVIOUS
  <1>7. W[1] = Root /\ Root.from = 0 /\ Root.dir = <<>> /\ Root.at = <<>> /\ Root \in Where
    BY <1>6 DEF Root, Where
  <1>8. StackInv /\ Expected \in Result
    BY ExpectedType DEF FullInv
  <1>9. Whole(f, Root) = Expected
    BY <1>3, <1>7 DEF Whole, Expected, Level
  <1>10. PartOf(Expected, 0, Expected)
    <2>1. Len(Expected.files) \in Nat
      BY <1>8, ResultFacts
    <2>2. 0 + Len(Expected.files) <= Len(Expected.files)
      BY <2>1
    <2>3. \A i \in 1 .. Len(Expected.files) : 0 + i = i
      BY <2>1
    <2> QED
      BY <2>2, <2>3 DEF PartOf
  <1>11. ASSUME RootFits
         PROVE  FrameOn(f, Root)
    <2>1. Fits[Level(f)][f.archive]
      BY <1>3, <1>11 DEF RootFits, Level
    <2> QED
      BY <1>3, <1>7, <1>9, <1>10, <2>1 DEF FrameOn, InBody
  <1>12. BufferOn(f)
    BY <1>3 DEF BufferOn, InBody
  <1>13. TopOn(f, Root)
    <2>1. f.source.serial = 0 /\ Len(written) = 0
      BY <1>2, <1>3 DEF NoHandle
    <2> QED
      BY <1>2, <1>3, <1>7, <2>1 DEF TopOn
  <1>14. ASSUME RootFits
         PROVE  Tracks(s, W)
    <2>1. \A j \in 1 .. Len(s) : j = 1
      BY <1>5
    <2>2. \A j \in 1 .. Len(s) : FrameOn(s[j], W[j]) /\ BufferOn(s[j])
      BY <1>5, <1>7, <1>11, <1>12, <1>14, <2>1
    <2>3. \A j \in 1 .. Len(s) - 1 : LinkOn(s[j], W[j], s[j + 1], W[j + 1])
      BY <1>5
    <2>4. \A j \in 1 .. Len(s) :
          /\ Len(W[j].at) = j - 1
          /\ \A i \in 1 .. j - 1 : /\ W[j].at[i] = s[i].next
                                   /\ s[i].handle.serial <= s[j].source.serial
                                   /\ Ceiling(s[j]) <= Ceiling(s[i])
      BY <1>7, <2>1
    <2> QED
      BY <1>3, <1>5, <1>7, <1>13, <2>2, <2>3, <2>4 DEF Tracks
  <1>15. Agree(written, Expected.files)
    <2>1. Len(Expected.files) \in Nat
      BY <1>8, ResultFacts
    <2> QED
      BY <1>2, <2>1 DEF Agree
  <1>16. stack # <<>>
    BY <1>2
  <1> QED
    BY <1>2, <1>4, <1>14, <1>15, <1>16 DEF FidelityInv, Faithful, Tracked

\* Every step keeps it.
LEMMA FidelityStep ==
    ASSUME FullInv, FullInv', P!PoolInv, FidelityInv, [Next]_vars
    PROVE  FidelityInv'
  <1>1. (RootFits <=> RootFits') /\ (root' = root /\ entrypoint' = entrypoint)
    <2>1. root' = root /\ entrypoint' = entrypoint
      BY DEF Next, vars, Open, ParseIndex, ReadChunk, CopyChunk, Descend, WriteFile,
         ParseExtension, Finished
    <2> QED
      BY <2>1 DEF RootFits, FirstDepth, extract
  <1>2. CASE ~RootFits
    BY <1>1, <1>2 DEF FidelityInv
  <1>3. P!TypeInvariant
    BY DEF P!PoolInv
  <1>4. CASE RootFits /\ UNCHANGED vars
    <2>1. CASE stack = <<>>
      BY <1>1, <1>4, <2>1 DEF FidelityInv, FaithfulPrefix, SuccessExact, Expected, extract,
         FirstDepth, vars
    <2>2. CASE stack # <<>>
      <3>1. Faithful
        BY <1>4, <2>2 DEF FidelityInv
      <3>2. PICK s, W : s = stack /\ Tracks(s, W)
        BY <3>1 DEF Faithful, Tracked
      <3>3. PICK n : n = Len(s)
        OBVIOUS
      <3>4. StackInv
        BY DEF FullInv
      <3>5. n \in Nat \ {0} /\ n = Len(stack) /\ TopOn(s[n], W[n])
        BY <2>2, <3>2, <3>3, <3>4, TopTracked
      <3>6. UNCHANGED poolVars /\ UNCHANGED contents /\ UNCHANGED acquires
            /\ UNCHANGED <<root, entrypoint, written>> /\ stack' = stack
        BY <1>4 DEF vars, poolVars
      <3>7. ASSUME NEW j \in 1 .. n
            PROVE  FrameOn(s[j], W[j])' /\ BufferOn(s[j])'
        <4>1. FrameOn(s[j], W[j])
          BY <3>2, <3>3 DEF Tracks
        <4> QED
          BY <3>2, <3>3, <3>5, <3>6, <4>1, FrameStays, BuffersStay
      <3>8. TopOn(s[n], W[n])'
        BY <3>5, <3>6, TopStays
      <3>9. Tracks(s, W)'
        <4>1. FirstDepth' = FirstDepth /\ root' = root
          BY <3>6 DEF FirstDepth
        <4> QED
          BY <3>2, <3>3, <3>7, <3>8, <4>1 DEF Tracks
      <3>10. Tracked'
        BY <3>2, <3>6, <3>9 DEF Tracked
      <3> QED
        BY <2>2, <3>1, <3>6, <3>10, StaysFaithful
    <2> QED
      BY <2>1, <2>2
  <1>5. CASE RootFits /\ Finished
    <2>1. UNCHANGED vars
      BY <1>5 DEF Finished
    <2> QED
      BY <1>4, <1>5, <2>1
  <1>6. CASE RootFits /\ ~(UNCHANGED vars) /\ ~Finished
    <2>1. stack # <<>>
      BY <1>6 DEF Next, Open, ParseIndex, ReadChunk, CopyChunk, Descend, WriteFile,
         ParseExtension, At
    <2>2. Faithful
      BY <1>6, <2>1 DEF FidelityInv
    <2> QED
      BY <1>3, <1>6, <2>2, OpenFidelity, ParseIndexFidelity, ReadChunkFidelity,
         CopyChunkFidelity, DescendFidelity, WriteFileFidelity, ParseExtensionFidelity
         DEF Next
  <1> QED
    BY <1>2, <1>4, <1>5, <1>6

LEMMA FidelityInvariant == Spec => []FidelityInv
  <1>1. Init /\ FullInv => FidelityInv
    BY FidelityStart
  <1>2. FullInv /\ FullInv' /\ P!PoolInv /\ FidelityInv /\ [Next]_vars => FidelityInv'
    BY FidelityStep
  <1> QED
    BY <1>1, <1>2, FullInvariant, PoolFacts, PTL DEF Spec

\* At every moment the files written are those extraction should give, in order,
\* from the first on; only the last may be torn, and only after a failure.
THEOREM FaithfulTheorem == Spec => []FaithfulPrefix
  <1>1. FullInv /\ FidelityInv => FaithfulPrefix
    BY Running
  <1> QED
    BY <1>1, FullInvariant, FidelityInvariant, PTL

\* unpack reports success only for an archive that can be extracted, with all its
\* files written as far as it knows, and accepts every one it need not write.
THEOREM SuccessTheorem == Spec => []SuccessExact
  <1>1. FullInv /\ FidelityInv => SuccessExact
    BY Running
  <1> QED
    BY <1>1, FullInvariant, FidelityInvariant, PTL

=============================================================================
