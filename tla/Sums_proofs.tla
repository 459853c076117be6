----------------------------- MODULE Sums_proofs -----------------------------
(***************************************************************************)
(* What SumOf computes.  A function defined by recursion over an interval  *)
(* exists because there is a longest beginning of the interval on which it *)
(* does; what is proved of its values is proved of the least place where   *)
(* it might fail.  Both go through sets of numbers, not through operators. *)
(***************************************************************************)
EXTENDS Sums, WellFoundedInduction, TLAPS

(* Induction on an interval: the least number that is missing from S would *)
(* have its predecessor in S.                                              *)
LEMMA IntervalInduction ==
    ASSUME NEW N \in Nat, NEW S, 0 \in S, \A n \in 1..N: n - 1 \in S => n \in S
    PROVE  0..N \subseteq S
<1> DEFINE missing == {n \in 0..N: n \notin S}
<1>1. SUFFICES ASSUME missing # {}
               PROVE  FALSE
  OBVIOUS
<1>2. missing \subseteq Nat
  OBVIOUS
<1>3. \E least \in missing: \A n \in missing: ~(n < least)
  <2>1. PICK least \in missing: \A n \in missing: ~(<<n, least>> \in OpToRel(<, Nat))
    <3> HIDE DEF missing
    <3>1. QED
      BY <1>1, <1>2, NatLessThanWellFounded, WFMin
  <2>2. \A n \in missing: ~(n < least)
    BY <1>2, <2>1 DEF OpToRel
  <2>3. QED
    BY <2>1, <2>2
<1>4. PICK least \in missing: \A n \in missing: ~(n < least)
  BY <1>3
<1>5. least \in 1..N /\ least - 1 \in 0..N /\ least - 1 < least
  BY <1>4
<1>6. least - 1 \in missing
  BY <1>4, <1>5
<1>7. QED
  BY <1>4, <1>5, <1>6

(* A recursion over an interval from first, and its step: a function of    *)
(* the place and of the value so far.                                      *)
Follows(f, N, first, next) ==
    f[0] = first /\ \A n \in 1..N: f[n] = next[<<n, f[n - 1]>>]

(* There is a function that follows a recursion.                           *)
LEMMA Recursion ==
    ASSUME NEW N \in Nat, NEW V, NEW first \in V, NEW next \in [(1..N) \X V -> V]
    PROVE  \E f \in [0..N -> V]: Follows(f, N, first, next)
<1> DEFINE Fits(f, m) == f[0] = first /\ \A n \in 1..m: f[n] = next[<<n, f[n - 1]>>]
           S == {m \in 0..N: \E f \in [0..N -> V]: Fits(f, m)}
<1>1. 0 \in S
  <2> DEFINE f == [n \in 0..N |-> first]
  <2>1. f \in [0..N -> V] /\ Fits(f, 0)
    OBVIOUS
  <2> HIDE DEF f
  <2>2. QED
    BY <2>1
<1>2. ASSUME NEW m \in 1..N, m - 1 \in S
      PROVE  m \in S
  <2>1. PICK f \in [0..N -> V]: Fits(f, m - 1)
    BY <1>2
  <2>2. /\ m \in 0..N /\ m - 1 \in 0..N /\ f[m - 1] \in V
        /\ next[<<m, f[m - 1]>>] \in V
    <3>1. m - 1 \in 0..N /\ m \in 0..N
      OBVIOUS
    <3>2. QED
      BY <3>1
  <2> DEFINE v == next[<<m, f[m - 1]>>]
             g == [f EXCEPT ![m] = v]
  <2>3. g \in [0..N -> V] /\ g[m] = v /\ \A n \in 0..(m - 1): g[n] = f[n]
    <3> HIDE DEF v
    <3>1. v \in V
      BY <2>2 DEF v
    <3>2. QED
      BY <2>2, <3>1
  <2>4. Fits(g, m)
    <3>1. g[0] = first
      BY <2>1, <2>3
    <3>2. ASSUME NEW n \in 1..m
          PROVE  g[n] = next[<<n, g[n - 1]>>]
      <4> HIDE DEF g
      <4>1. n - 1 \in 0..(m - 1)
        OBVIOUS
      <4>2. CASE n = m
        BY <2>3, <4>1, <4>2
      <4>3. CASE n # m
        <5>1. n \in 1..(m - 1) /\ n \in 0..(m - 1)
          BY <4>3
        <5>2. f[n] = next[<<n, f[n - 1]>>]
          BY <2>1, <5>1
        <5>3. QED
          BY <2>3, <4>1, <5>1, <5>2
      <4>4. QED
        BY <4>2, <4>3
    <3>3. QED
      BY <3>1, <3>2
  <2>5. QED
    BY <2>2, <2>3, <2>4
<1>3. N \in S
  <2> HIDE DEF S
  <2>1. 0..N \subseteq S
    BY <1>1, <1>2, IntervalInduction
  <2>2. QED
    BY <2>1
<1>4. QED
  BY <1>3 DEF Follows

(* The sum of a sequence is reached by its partial sums.                   *)
LEMMA PartialSums ==
    ASSUME NEW s \in Seq(Int)
    PROVE  \E f \in [0..Len(s) -> Int]:
               /\ f[0] = 0 /\ \A n \in 1..Len(s): f[n] = f[n - 1] + s[n]
               /\ SumOf(s) = f[Len(s)]
<1> DEFINE N == Len(s)
           Body(f) == [n \in 0..N |-> IF n = 0 THEN 0 ELSE f[n - 1] + s[n]]
           sum == CHOOSE f: f = Body(f)
           next == [x \in (1..N) \X Int |-> x[2] + s[x[1]]]
<1>1. N \in Nat /\ \A n \in 1..N: s[n] \in Int
  OBVIOUS
<1>2. next \in [(1..N) \X Int -> Int]
  BY <1>1
<1>3. \A n \in 1..N, v \in Int: next[<<n, v>>] = v + s[n]
  OBVIOUS
<1>4. \E f: f = Body(f)
  <2> HIDE DEF N, next
  <2>1. PICK f \in [0..N -> Int]: Follows(f, N, 0, next)
    <3>1. N \in Nat /\ 0 \in Int
      BY <1>1
    <3>2. QED
      BY <1>2, <3>1, Recursion, Zenon
  <2>2. ASSUME NEW n \in 0..N
        PROVE  f[n] = IF n = 0 THEN 0 ELSE f[n - 1] + s[n]
    <3>1. CASE n = 0
      BY <2>1, <3>1 DEF Follows
    <3>2. CASE n # 0
      <4>1. n \in 1..N /\ n - 1 \in 0..N /\ f[n - 1] \in Int
        BY <1>1, <3>2
      <4>2. QED
        BY <1>3, <2>1, <3>2, <4>1 DEF Follows
    <3>3. QED
      BY <3>1, <3>2
  <2>3. f = Body(f)
    BY <2>2
  <2>4. QED
    BY <2>3
<1>5. sum = Body(sum)
  <2> HIDE DEF Body
  <2>1. QED
    BY <1>4
<1>6. SumOf(s) = sum[N]
  BY DEF SumOf
<1> HIDE DEF sum, N
<1>7. sum[0] = 0 /\ \A n \in 1..N: sum[n] = sum[n - 1] + s[n]
  BY <1>1, <1>5
<1>8. 0..N \subseteq {n \in 0..N: sum[n] \in Int}
  <2> DEFINE S == {n \in 0..N: sum[n] \in Int}
  <2>1. 0 \in S
    BY <1>1, <1>7
  <2>2. ASSUME NEW n \in 1..N, n - 1 \in S
        PROVE  n \in S
    BY <1>1, <1>7, <2>2
  <2> HIDE DEF S
  <2>3. 0..N \subseteq S
    BY <1>1, <2>1, <2>2, IntervalInduction
  <2>4. QED
    BY <2>3 DEF S
<1>9. sum \in [0..N -> Int]
  <2>1. sum = [n \in 0..N |-> sum[n]]
    BY <1>5
  <2>2. QED
    BY <1>8, <2>1
<1>10. QED
  BY <1>6, <1>7, <1>9 DEF N

(* A sum of nothing.                                                       *)
LEMMA EmptySum == SumOf(<<>>) = 0
<1>1. <<>> \in Seq(Int) /\ Len(<<>>) = 0
  OBVIOUS
<1>2. QED
  BY <1>1, PartialSums

(* A sum is at least what its smallest term would give.                    *)
LEMMA SumAtLeast ==
    ASSUME NEW s \in Seq(Int), NEW b \in Nat, \A n \in 1..Len(s): s[n] >= b
    PROVE  SumOf(s) \in Int /\ SumOf(s) >= Len(s) * b
<1>1. PICK f \in [0..Len(s) -> Int]:
          /\ f[0] = 0 /\ \A n \in 1..Len(s): f[n] = f[n - 1] + s[n]
          /\ SumOf(s) = f[Len(s)]
  BY PartialSums
<1> DEFINE N == Len(s)
           S == {n \in 0..N: f[n] >= n * b}
<1>2. N \in Nat /\ \A n \in 1..N: s[n] \in Int /\ s[n] >= b
  OBVIOUS
<1>3. 0 \in S
  BY <1>1, <1>2
<1>4. ASSUME NEW n \in 1..N, n - 1 \in S
      PROVE  n \in S
  <2>1. n \in 0..N /\ n - 1 \in 0..N /\ f[n - 1] \in Int /\ f[n] = f[n - 1] + s[n]
    BY <1>1, <1>2
  <2> DEFINE k == (n - 1) * b
  <2>2. n * b = k + b /\ k \in Int
    BY <2>1
  <2>3. f[n - 1] >= k
    BY <1>4
  <2> HIDE DEF k
  <2>4. f[n - 1] + s[n] >= k + b
    BY <1>2, <2>1, <2>2, <2>3
  <2>5. f[n] >= n * b
    BY <2>1, <2>2, <2>4
  <2>6. QED
    BY <2>1, <2>5
<1> HIDE DEF S
<1>5. 0..N \subseteq S
  BY <1>2, <1>3, <1>4, IntervalInduction
<1>6. N \in S /\ N \in 0..N
  BY <1>2, <1>5
<1>7. QED
  BY <1>1, <1>6 DEF S
=============================================================================
