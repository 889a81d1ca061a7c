----------------------------- MODULE Recursion -----------------------------
(***************************************************************************)
(* What the recursive functions of the models compute is proved by           *)
(* induction: over a finite run a set that holds 0 and, with k - 1, k holds  *)
(* every k (InductionUpTo), which needs no induction theorem but that < is   *)
(* well-founded; and such a function has a value at all because a run of any *)
(* step function exists (RunExists).                                         *)
(***************************************************************************)
EXTENDS Integers, Sequences, TLAPS, SequenceTheorems, WellFoundedInduction

LEMMA LessThanIsARelation == \A i, j \in Nat : i < j => <<i, j>> \in OpToRel(<, Nat)
BY DEF OpToRel

\* A set of numbers that holds 0 and every successor holds all.
LEMMA SetInduction ==
  ASSUME NEW S, 0 \in S, \A n \in Nat : n \in S => n + 1 \in S
  PROVE  Nat \subseteq S
<1> SUFFICES ASSUME Nat \ S # {} PROVE FALSE
  OBVIOUS
<1>1. IsWellFoundedOn(OpToRel(<, Nat), Nat)
  BY NatLessThanWellFounded
<1>2. PICK x \in Nat \ S : \A y \in Nat \ S : ~(<<y, x>> \in OpToRel(<, Nat))
  BY <1>1, WFMin
<1>3. x # 0 /\ x - 1 \in Nat /\ x - 1 < x /\ x = (x - 1) + 1
  BY SMT
<1>4. x - 1 \in S
  BY <1>2, <1>3, LessThanIsARelation
<1>5. QED BY <1>3, <1>4

LEMMA InductionUpTo ==
  ASSUME NEW n \in Nat, NEW S, 0 \in S, \A k \in 1..n : k - 1 \in S => k \in S
  PROVE  \A k \in 0..n : k \in S
<1> DEFINE N == {k \in Nat : k <= n => k \in S}
<1>1. 0 \in N
  OBVIOUS
<1>2. ASSUME NEW k \in Nat, k \in N PROVE k + 1 \in N
  <2>1. k + 1 <= n => k \in S /\ k + 1 \in 1..n /\ (k + 1) - 1 = k
    BY <1>2, SMT
  <2>2. k + 1 <= n => k + 1 \in S
    BY <2>1
  <2>3. QED BY <2>2, SMT
<1>3. Nat \subseteq N
  <2> HIDE DEF N
  <2>1. QED BY <1>1, <1>2, SetInduction
<1>4. \A k \in 0..n : k \in Nat /\ k <= n
  BY SMT
<1>5. QED BY <1>3, <1>4

LEMMA SameLength == ASSUME NEW a \in Nat, NEW b \in Nat, 1..a = 1..b PROVE a = b
<1>1. (a > 0 => a \in 1..b) /\ (b > 0 => b \in 1..a)
  BY SMT
<1>2. QED BY <1>1, SMT

\* f starts at s0 and goes on by a step for each element of es.
IsRun(f, step, s0, es) ==
  f[0] = s0 /\ \A k \in 1 .. Len(es) : f[k] = step[f[k-1]][es[k]]

LEMMA RunExists ==
  ASSUME NEW S, NEW E, NEW step \in [S -> [E -> S]], NEW s0 \in S, NEW es \in Seq(E)
  PROVE  \E f \in [0 .. Len(es) -> S] : IsRun(f, step, s0, es)
<1> DEFINE Run(f, n) == /\ f \in [0..n -> S]
                        /\ f[0] = s0
                        /\ \A k \in 1..n : f[k] = step[f[k-1]][es[k]]
           N == {n \in Nat : n <= Len(es) => \E f : Run(f, n)}
<1>1. Len(es) \in Nat /\ \A k \in 1 .. Len(es) : es[k] \in E
  BY LenProperties, ElementOfSeq
<1>2. 0 \in N
  <2>1. [k \in 0..0 |-> s0] \in [0..0 -> S] /\ [k \in 0..0 |-> s0][0] = s0
    <3>1. 0 \in 0..0
      BY SMT
    <3>2. QED BY <3>1
  <2>2. \A k \in 1..0 : FALSE
    BY SMT
  <2>3. QED BY <2>1, <2>2
<1>3. ASSUME NEW n \in Nat, n \in N PROVE n + 1 \in N
  <2> HIDE DEF Run
  <2> SUFFICES ASSUME n + 1 <= Len(es) PROVE \E f : Run(f, n + 1)
    BY SMT
  <2> USE DEF Run
  <2>1. n <= Len(es) /\ n + 1 \in 1 .. Len(es)
    BY <1>1, SMT
  <2>2. PICK f : Run(f, n)
    BY <1>3, <2>1
  <2> DEFINE next == step[f[n]][es[n+1]]
             g == [k \in 0 .. n + 1 |-> IF k <= n THEN f[k] ELSE next]
  <2>3. f[n] \in S /\ es[n+1] \in E
    BY <1>1, <2>1, <2>2, SMT
  <2>4. next \in S
    BY <2>3
  <2> HIDE DEF next
  <2>5. g \in [0 .. n + 1 -> S]
    BY <2>2, <2>4, SMT
  <2>6. g[0] = s0
    BY <2>2, SMT
  <2>7. ASSUME NEW k \in 1 .. n + 1 PROVE g[k] = step[g[k-1]][es[k]]
    <3>1. k - 1 \in 0..n /\ k \in 0 .. n + 1 /\ k - 1 \in 0 .. n + 1 /\ k - 1 <= n
      BY SMT
    <3>2. g[k-1] = f[k-1]
      BY <3>1
    <3>3. CASE k <= n
      <4>1. k \in 1..n
        BY <3>3, SMT
      <4>2. g[k] = f[k]
        BY <3>1, <3>3
      <4>3. QED BY <2>2, <3>2, <4>1, <4>2
    <3>4. CASE ~(k <= n)
      <4>1. k = n + 1 /\ k - 1 = n
        BY <3>4, SMT
      <4>2. g[k] = next
        BY <3>1, <3>4
      <4>3. QED BY <3>2, <4>1, <4>2 DEF next
    <3>5. QED BY <3>3, <3>4
  <2>8. QED BY <2>5, <2>6, <2>7
<1>4. Nat \subseteq N
  <2> HIDE DEF N
  <2>1. QED BY <1>2, <1>3, SetInduction
<1>5. PICK f : Run(f, Len(es))
  <2> HIDE DEF Run
  <2>1. Len(es) \in N
    BY <1>1, <1>4
  <2>2. Len(es) <= Len(es)
    BY <1>1, SMT
  <2>3. QED BY <2>1, <2>2
<1>6. QED BY <1>5 DEF IsRun
=============================================================================
