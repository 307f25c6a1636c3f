--------------------------- MODULE DataInduction ---------------------------
(***************************************************************************)
(* Induction and recursion over the naturals, stated of sets and functions *)
(* rather than of operators, so that they can be cited for any one.        *)
(***************************************************************************)
EXTENDS Integers, WellFoundedInduction, TLAPS

Less == {pair \in Nat \X Nat : pair[1] < pair[2]}

LEMMA LessWellFounded == IsWellFoundedOn(Less, Nat)
  BY NatLessThanWellFounded DEF OpToRel, Less

\* Every set of numbers that is not empty has a least member.
LEMMA LeastMember ==
    ASSUME NEW T, T \subseteq Nat, T # {}
    PROVE  \E m \in T : \A k \in T : m <= k
<1>1. PICK m \in T : \A k \in T : ~(<<k, m>> \in Less)
  BY LessWellFounded, WFMin
<1>2. \A k \in T : ~(k < m)
  BY <1>1 DEF Less
<1> QED
  BY <1>2

\* Induction: a set that has 0, and with each number the next, has all.
LEMMA NumbersIn ==
    ASSUME NEW S, 0 \in S, \A n \in Nat : n \in S => n + 1 \in S
    PROVE  \A n \in Nat : n \in S
<1> DEFINE T == Nat \ S
<1> SUFFICES ASSUME T # {}
             PROVE  FALSE
  OBVIOUS
<1>1. PICK m \in T : \A k \in T : m <= k
  <2>1. T \subseteq Nat
    OBVIOUS
  <2> HIDE DEF T
  <2> QED
    BY <2>1, LeastMember
<1>2. m # 0 /\ m - 1 \in Nat /\ m - 1 \in S
  BY <1>1
<1> QED
  BY <1>1, <1>2

\* Course-of-values induction.
LEMMA NumbersInFromSmaller ==
    ASSUME NEW S, \A n \in Nat : (\A m \in 0 .. n - 1 : m \in S) => n \in S
    PROVE  \A n \in Nat : n \in S
<1> DEFINE T == Nat \ S
<1> SUFFICES ASSUME T # {}
             PROVE  FALSE
  OBVIOUS
<1>1. PICK m \in T : \A k \in T : m <= k
  <2>1. T \subseteq Nat
    OBVIOUS
  <2> HIDE DEF T
  <2> QED
    BY <2>1, LeastMember
<1>2. \A k \in 0 .. m - 1 : k \in S
  BY <1>1
<1> QED
  BY <1>1, <1>2

-----------------------------------------------------------------------------
(* Primitive recursion: what f[n \in Nat] == IF n = 0 THEN first           *)
(* ELSE step[n][f[n - 1]] chooses is there.                                *)

\* f follows the recursion up to n.
Follows(f, first, step, n) ==
    /\ f[0] = first
    /\ \A k \in 1 .. n : f[k] = step[k][f[k - 1]]

LEMMA FirstSteps ==
    ASSUME NEW V, NEW first \in V, NEW step \in [Nat -> [V -> V]], NEW n \in Nat
    PROVE  \E f \in [0 .. n -> V] : Follows(f, first, step, n)
<1> DEFINE S == {m \in Nat : \E f \in [0 .. m -> V] : Follows(f, first, step, m)}
<1>1. 0 \in S
  <2>1. [k \in 0 .. 0 |-> first] \in [0 .. 0 -> V]
    OBVIOUS
  <2>2. Follows([k \in 0 .. 0 |-> first], first, step, 0)
    BY DEF Follows
  <2> QED
    BY <2>1, <2>2
<1>2. ASSUME NEW m \in Nat, m \in S
      PROVE  m + 1 \in S
  <2>1. PICK f \in [0 .. m -> V] : Follows(f, first, step, m)
    BY <1>2
  <2> DEFINE g == [k \in 0 .. m + 1 |-> IF k = m + 1 THEN step[m + 1][f[m]] ELSE f[k]]
  <2>2. f[m] \in V /\ step[m + 1][f[m]] \in V
    BY <2>1
  <2>3. g \in [0 .. m + 1 -> V]
    BY <2>1, <2>2
  <2>4. Follows(g, first, step, m + 1)
    BY <2>1, <2>2 DEF Follows
  <2> QED
    BY <2>3, <2>4
<1> HIDE DEF S
<1>3. \A m \in Nat : m \in S
  BY <1>1, <1>2, NumbersIn
<1> QED
  BY <1>3 DEF S

LEMMA StepsAgree ==
    ASSUME NEW first, NEW step, NEW f, NEW g, NEW m \in Nat, NEW n \in Nat,
           Follows(f, first, step, m), Follows(g, first, step, n)
    PROVE  \A k \in Nat : k <= m /\ k <= n => f[k] = g[k]
<1> DEFINE S == {k \in Nat : k <= m /\ k <= n => f[k] = g[k]}
<1>1. 0 \in S
  BY DEF Follows
<1>2. ASSUME NEW k \in Nat, k \in S
      PROVE  k + 1 \in S
  BY <1>2 DEF Follows
<1> HIDE DEF S
<1>3. \A k \in Nat : k \in S
  BY <1>1, <1>2, NumbersIn
<1> QED
  BY <1>3 DEF S

\* And does so everywhere.
Recursive(f, first, step) ==
    /\ f[0] = first
    /\ \A n \in Nat \ {0} : f[n] = step[n][f[n - 1]]

LEMMA Recursion ==
    ASSUME NEW V, NEW first \in V, NEW step \in [Nat -> [V -> V]]
    PROVE  \E f \in [Nat -> V] : Recursive(f, first, step)
<1> DEFINE P(n) == CHOOSE f \in [0 .. n -> V] : Follows(f, first, step, n)
           F == [n \in Nat |-> P(n)[n]]
<1>1. \A n \in Nat : P(n) \in [0 .. n -> V] /\ Follows(P(n), first, step, n)
  BY FirstSteps
<1> HIDE DEF P
<1>2. F \in [Nat -> V]
  BY <1>1
<1>3. F[0] = first
  BY <1>1 DEF Follows
<1>4. ASSUME NEW n \in Nat \ {0}
      PROVE  F[n] = step[n][F[n - 1]]
  <2>1. n \in Nat /\ n - 1 \in Nat /\ n - 1 <= n
    OBVIOUS
  <2>2. Follows(P(n), first, step, n) /\ Follows(P(n - 1), first, step, n - 1)
    BY <1>1, <2>1
  <2>3. P(n)[n - 1] = P(n - 1)[n - 1]
    BY <2>1, <2>2, StepsAgree
  <2>4. P(n)[n] = step[n][P(n)[n - 1]]
    BY <2>2 DEF Follows
  <2> QED
    BY <2>1, <2>3, <2>4
<1>5. Recursive(F, first, step)
  BY <1>3, <1>4 DEF Recursive
<1> QED
  BY <1>2, <1>5

\* The same for a function on 0 .. n.
LEMMA RecursionUpTo ==
    ASSUME NEW V, NEW first \in V, NEW n \in Nat, NEW step \in [1 .. n -> [V -> V]]
    PROVE  \E f \in [0 .. n -> V] : Follows(f, first, step, n)
<1> DEFINE all == [k \in Nat |-> IF k \in 1 .. n THEN step[k] ELSE [v \in V |-> v]]
<1>1. all \in [Nat -> [V -> V]]
  OBVIOUS
<1>2. \A k \in 1 .. n : all[k] = step[k]
  OBVIOUS
<1> HIDE DEF all
<1>3. PICK f \in [0 .. n -> V] : Follows(f, first, all, n)
  BY <1>1, FirstSteps
<1>4. Follows(f, first, step, n)
  BY <1>2, <1>3 DEF Follows
<1> QED
  BY <1>4
=============================================================================
