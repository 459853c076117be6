------------------------- MODULE Validation_proofs -------------------------
(***************************************************************************)
(* The rules and the form, for every invoice, every number a user may type *)
(* and every tolerance and precision.                                      *)
(*                                                                         *)
(* The rules: what is put in the cache or in a record is an invoice that   *)
(* went through validation, so it reports the rules it breaks, and one     *)
(* marked "high" breaks none.  The gaps of its lines then add up to one    *)
(* tolerance per line (an induction on the number of lines, by the least   *)
(* number that would not do), the subtotal adds one more, and the rate     *)
(* multiplies them before the last one.                                    *)
(*                                                                         *)
(* The form: the amounts and the lines pass unchanged through the body of  *)
(* the PUT and through validate_invoice, which only adds warnings, and a   *)
(* percentage the form accepts is below the limit at which a rate would be *)
(* taken for a percentage again, so that only its rounding remains.        *)
(***************************************************************************)
EXTENDS Validation, Sums_proofs, FiniteSetTheorems

(* An invoice with these fields, and a form.                               *)
InvoiceOf(lines, subtotal, rate, ttc, warnings, confidence) ==
    [lines |-> lines, subtotal |-> subtotal, rate |-> rate, ttc |-> ttc,
     warnings |-> warnings, confidence |-> confidence]

FormOf(lines, subtotal, percent, ttc) ==
    [lines |-> lines, subtotal |-> subtotal, percent |-> percent, ttc |-> ttc]

(* Gaps add up.                                                            *)
LEMMA GapsAdd ==
    ASSUME NEW a \in Int, NEW b \in Int, NEW c \in Int, NEW e \in Int,
           NEW k \in Int, NEW d \in Int, Gap(a, b) <= k, Gap(c, e) <= d
    PROVE  Gap(a + c, b + e) <= k + d
  BY DEF Gap

LEMMA GapsMeet ==
    ASSUME NEW a \in Int, NEW b \in Int, NEW c \in Int
    PROVE  Gap(a, b) \in Nat /\ Gap(a, c) <= Gap(a, b) + Gap(b, c)
  BY DEF Gap

(* The sums of two sequences whose terms are close are close: their gap    *)
(* grows by one tolerance per term at most.                                *)
LEMMA SumsClose ==
    ASSUME NEW s \in Seq(Int), NEW t \in Seq(Int), Len(s) = Len(t), NEW d \in Nat,
           \A n \in 1..Len(s): Gap(s[n], t[n]) <= d
    PROVE  /\ SumOf(s) \in Int /\ SumOf(t) \in Int
           /\ Gap(SumOf(s), SumOf(t)) <= Len(s) * d
<1>1. PICK f \in [0..Len(s) -> Int]:
          /\ f[0] = 0 /\ \A n \in 1..Len(s): f[n] = f[n - 1] + s[n]
          /\ SumOf(s) = f[Len(s)]
  BY PartialSums
<1>2. PICK g \in [0..Len(t) -> Int]:
          /\ g[0] = 0 /\ \A n \in 1..Len(t): g[n] = g[n - 1] + t[n]
          /\ SumOf(t) = g[Len(t)]
  BY PartialSums
<1> DEFINE N == Len(s)
           S == {n \in 0..N: Gap(f[n], g[n]) <= n * d}
<1>3. N \in Nat /\ Len(t) = N /\ \A n \in 1..N: s[n] \in Int /\ t[n] \in Int
  OBVIOUS
<1>4. f \in [0..N -> Int] /\ g \in [0..N -> Int]
  BY <1>3
<1> HIDE DEF N
<1>5. 0 \in S
  BY <1>1, <1>2, <1>3 DEF Gap
<1>6. ASSUME NEW n \in 1..N, n - 1 \in S
      PROVE  n \in S
  <2>1. /\ n \in 0..N /\ n - 1 \in 0..N
        /\ f[n - 1] \in Int /\ g[n - 1] \in Int /\ s[n] \in Int /\ t[n] \in Int
    BY <1>3, <1>4
  <2>2. f[n] = f[n - 1] + s[n] /\ g[n] = g[n - 1] + t[n] /\ Gap(s[n], t[n]) <= d
    BY <1>1, <1>2, <1>3 DEF N
  <2>3. Gap(f[n - 1], g[n - 1]) <= (n - 1) * d
    BY <1>6
  <2>4. n * d = (n - 1) * d + d /\ (n - 1) * d \in Int
    BY <2>1
  <2>5. Gap(f[n], g[n]) <= n * d
    <3> DEFINE k == (n - 1) * d
    <3> HIDE DEF k
    <3>1. k \in Int /\ n * d = k + d /\ Gap(f[n - 1], g[n - 1]) <= k
      BY <2>3, <2>4 DEF k
    <3>2. Gap(f[n - 1] + s[n], g[n - 1] + t[n]) <= k + d
      <4>1. d \in Int
        OBVIOUS
      <4>2. QED
        BY <2>1, <2>2, <3>1, <4>1, GapsAdd, Zenon
    <3>3. QED
      BY <2>2, <3>1, <3>2
  <2>6. QED
    BY <2>1, <2>5
<1>7. Gap(f[N], g[N]) <= N * d
  <2> HIDE DEF S
  <2>1. 0..N \subseteq S
    BY <1>3, <1>5, <1>6, IntervalInduction
  <2>2. N \in S
    BY <1>3, <2>1
  <2>3. QED
    BY <2>2 DEF S
<1>8. SumOf(s) = f[N] /\ SumOf(t) = g[N] /\ N \in 0..N
  BY <1>1, <1>2, <1>3 DEF N
<1>9. QED
  BY <1>4, <1>7, <1>8 DEF N

(* What is read from the editor is a sequence of its rows, none abandoned. *)
LEMMA EditorLines ==
    ASSUME NEW R, NEW rows \in Seq(R)
    PROVE  LinesFromEditor(rows) \in Seq(R \ {Abandoned})
<1> DEFINE N == Len(rows)
           V == Seq(R \ {Abandoned})
           Body(f) == [n \in 0..N |->
                          IF n = 0 THEN <<>>
                          ELSE IF rows[n] = Abandoned THEN f[n - 1]
                          ELSE Append(f[n - 1], rows[n])]
           kept == CHOOSE f: f = Body(f)
           next == [x \in (1..N) \X V |->
                       IF rows[x[1]] = Abandoned THEN x[2] ELSE Append(x[2], rows[x[1]])]
<1>1. N \in Nat /\ <<>> \in V /\ \A n \in 1..N: rows[n] \in R
  OBVIOUS
<1>2. ASSUME NEW n \in 1..N, NEW v \in V
      PROVE  (IF rows[n] = Abandoned THEN v ELSE Append(v, rows[n])) \in V
  BY <1>1
<1>3. /\ next \in [(1..N) \X V -> V]
      /\ \A n \in 1..N, v \in V:
             next[<<n, v>>] = IF rows[n] = Abandoned THEN v ELSE Append(v, rows[n])
  <2> HIDE DEF V, N
  <2>1. QED
    BY <1>2
<1> HIDE DEF N, V, next
<1>4. \E f: f = Body(f)
  <2>1. PICK f \in [0..N -> V]: Follows(f, N, <<>>, next)
    BY <1>1, <1>3, Recursion, Zenon
  <2>2. ASSUME NEW n \in 0..N
        PROVE  f[n] = IF n = 0 THEN <<>>
                      ELSE IF rows[n] = Abandoned THEN f[n - 1] ELSE Append(f[n - 1], rows[n])
    <3>1. CASE n = 0
      BY <2>1, <3>1 DEF Follows
    <3>2. CASE n # 0
      <4>1. n \in 1..N /\ n - 1 \in 0..N /\ f[n - 1] \in V
        BY <1>1, <3>2
      <4>2. f[n] = next[<<n, f[n - 1]>>]
        BY <2>1, <4>1 DEF Follows
      <4>3. QED
        BY <1>3, <3>2, <4>1, <4>2
    <3>3. QED
      BY <3>1, <3>2
  <2>3. f = Body(f)
    BY <2>2
  <2>4. QED
    BY <2>3
<1>5. kept = Body(kept)
  <2> HIDE DEF Body
  <2>1. QED
    BY <1>4
<1>6. LinesFromEditor(rows) = kept[N]
  BY DEF LinesFromEditor, N
<1> HIDE DEF kept
<1>7. /\ kept[0] = <<>>
      /\ \A n \in 1..N:
             kept[n] = IF rows[n] = Abandoned THEN kept[n - 1] ELSE Append(kept[n - 1], rows[n])
  <2>1. 0 \in 0..N /\ \A n \in 1..N: n \in 0..N /\ n # 0
    BY <1>1
  <2>2. \A n \in 0..N:
            kept[n] = IF n = 0 THEN <<>>
                      ELSE IF rows[n] = Abandoned THEN kept[n - 1]
                      ELSE Append(kept[n - 1], rows[n])
    BY <1>5, Zenon
  <2>3. QED
    BY <2>1, <2>2, Zenon
<1>8. kept[N] \in V
  <2> DEFINE S == {n \in 0..N: kept[n] \in V}
  <2>1. 0 \in S
    BY <1>1, <1>7
  <2>2. ASSUME NEW n \in 1..N, n - 1 \in S
        PROVE  n \in S
    <3>1. kept[n - 1] \in V /\ n \in 0..N
      BY <2>2
    <3>2. QED
      BY <1>2, <1>7, <3>1
  <2> HIDE DEF S
  <2>3. 0..N \subseteq S
    BY <1>1, <2>1, <2>2, IntervalInduction
  <2>4. N \in S
    BY <1>1, <2>3
  <2>5. QED
    BY <2>4 DEF S
<1>9. QED
  BY <1>6, <1>8 DEF V

(* What the rules allow: an amount that rounds to the tolerance at most.   *)
LEMMA CloseGap ==
    ASSUME NEW a \in Int, NEW b \in Int, Close(a, b)
    PROVE  Gap(a, b) <= Slack
<1> DEFINE gap == Gap(a, b)
           h == Cent \div 2
           q == (gap + h) \div Cent
<1>1. Cent \in Nat /\ Cent % 2 = 1 /\ Cent > 0 /\ Tolerance \in Nat
  BY ValidationAssumption
<1>2. h \in Nat /\ Cent = 2 * h + 1
  BY <1>1
<1>3. gap \in Nat
  BY DEF Gap
<1>4. q <= Tolerance
  BY DEF Close, Cents
<1> HIDE DEF gap, h
<1>5. q \in Int /\ gap + h < Cent * q + Cent
  BY <1>1, <1>2, <1>3, SMTT(30)
<1> HIDE DEF q
<1>6. Cent * q <= Cent * Tolerance
  BY <1>1, <1>4, <1>5
<1>7. gap <= Cent * Tolerance + h
  <2> DEFINE x == Cent * q
             y == Cent * Tolerance
  <2>1. x \in Int /\ y \in Int /\ x <= y /\ gap + h < x + Cent
    BY <1>1, <1>5, <1>6
  <2> HIDE DEF x, y
  <2>2. gap <= y + h
    BY <1>1, <1>2, <1>3, <2>1
  <2>3. QED
    BY <2>2 DEF y
<1>8. QED
  BY <1>7 DEF gap, h, Slack

(* The constants of the rules.                                             *)
LEMMA Units == One \in Nat /\ One > 0 /\ Slack \in Nat /\ None \notin Int
<1>1. Cent \in Nat /\ Tolerance \in Nat /\ Percent \in Nat \ {0} /\ None \notin Int
  BY ValidationAssumption
<1>2. One \in Nat /\ One > 0
  BY <1>1 DEF One
<1>3. Cent * Tolerance \in Nat /\ Cent \div 2 \in Nat
  BY <1>1
<1>4. QED
  BY <1>1, <1>2, <1>3 DEF Slack

(* An invoice with nothing to report breaks no rule.                       *)
LEMMA NothingToReport ==
    ASSUME NEW i \in Invoice
    PROVE  /\ NewWarnings(i) \in Nat
           /\ NewWarnings(i) = 0 =>
                  BrokenLines(i) = {} /\ ~SubtotalBroken(i) /\ ~TtcBroken(i)
<1>1. i.lines \in Seq(Line)
  BY DEF Invoice
<1>2. IsFiniteSet(BrokenLines(i))
  <2>1. BrokenLines(i) \subseteq 1..Len(i.lines)
    BY <1>1 DEF BrokenLines
  <2>2. IsFiniteSet(1..Len(i.lines))
    BY <1>1, FS_Interval
  <2>3. QED
    BY <2>1, <2>2, FS_Subset
<1>3. Cardinality(BrokenLines(i)) \in Nat
  BY <1>2, FS_CardinalityType
<1>4. Cardinality(BrokenLines(i)) = 0 => BrokenLines(i) = {}
  BY <1>2, FS_EmptySet
<1> DEFINE c == Cardinality(BrokenLines(i))
           a == IF SubtotalBroken(i) THEN 1 ELSE 0
           b == IF TtcBroken(i) THEN 1 ELSE 0
<1>5. a \in 0..1 /\ b \in 0..1 /\ c \in Nat /\ NewWarnings(i) = c + a + b
  BY <1>3 DEF NewWarnings
<1>6. (a = 0 => ~SubtotalBroken(i)) /\ (b = 0 => ~TtcBroken(i)) /\ (c = 0 => BrokenLines(i) = {})
  BY <1>4
<1> HIDE DEF a, b, c
<1>7. NewWarnings(i) \in Nat /\ (NewWarnings(i) = 0 => a = 0 /\ b = 0 /\ c = 0)
  BY <1>5
<1>8. QED
  BY <1>6, <1>7

(* Rounding down after multiplying by a rate keeps two amounts as close.   *)
LEMMA TaxKeepsClose ==
    ASSUME NEW x \in Int, NEW y \in Int, NEW r \in Nat, NEW d \in Nat, Gap(x, y) <= d
    PROVE  /\ WithTax(x, r) \in Int /\ WithTax(y, r) \in Int
           /\ One * Gap(WithTax(x, r), WithTax(y, r)) <= d * (One + r) + One
<1> DEFINE m == One + r
           p == x * m
           q == y * m
           v == WithTax(x, r)
           w == WithTax(y, r)
<1>1. One \in Nat /\ One > 0 /\ m \in Nat /\ p \in Int /\ q \in Int /\ d * m \in Int
  BY Units
<1>2. /\ v \in Int /\ One * v \in Int /\ One * v <= p /\ p < One * v + One
      /\ w \in Int /\ One * w \in Int /\ One * w <= q /\ q < One * w + One
  <2>1. v = p \div One /\ w = q \div One
    BY DEF WithTax
  <2> HIDE DEF p, q
  <2>2. QED
    BY <1>1, <2>1, SMTT(30)
<1>3. p - q <= d * m /\ q - p <= d * m
  <2>1. x - y <= d /\ y - x <= d
    BY DEF Gap
  <2>2. (x - y) * m <= d * m /\ (y - x) * m <= d * m
    <3> HIDE DEF m
    <3>1. QED
      BY <1>1, <2>1
  <2>3. (x - y) * m = p - q /\ (y - x) * m = q - p
    BY <1>1
  <2>4. QED
    BY <2>2, <2>3
<1> HIDE DEF p, q, v, w
<1>4. One * v - One * w <= d * m + One /\ One * w - One * v <= d * m + One
  <2> DEFINE a == One * v
             b == One * w
             e == d * m
  <2>1. /\ a \in Int /\ b \in Int /\ e \in Int
        /\ a <= p /\ p < a + One /\ b <= q /\ q < b + One /\ p - q <= e /\ q - p <= e
    BY <1>1, <1>2, <1>3
  <2> HIDE DEF a, b, e, m
  <2>2. a - b <= e + One /\ b - a <= e + One
    BY <1>1, <2>1
  <2>3. QED
    BY <2>2 DEF a, b, e
<1>5. One * Gap(v, w) <= d * m + One
  <2> HIDE DEF m
  <2>1. CASE v > w
    <3>1. Gap(v, w) = v - w /\ One * (v - w) = One * v - One * w
      BY <1>1, <1>2, <2>1 DEF Gap
    <3>2. QED
      BY <1>4, <3>1
  <2>2. CASE ~(v > w)
    <3>1. Gap(v, w) = w - v /\ One * (w - v) = One * w - One * v
      BY <1>1, <1>2, <2>2 DEF Gap
    <3>2. QED
      BY <1>4, <3>1
  <2>3. QED
    BY <2>1, <2>2
<1>6. QED
  BY <1>2, <1>5 DEF v, w

(* HighMeansConsistent, of one invoice without a warning to report.        *)
LEMMA NoWarningConsistent ==
    ASSUME NEW i \in Invoice, NewWarnings(i) = 0, i.lines # <<>>, i.subtotal # None
    PROVE  LET drift == (Len(i.lines) + 1) * Slack
           IN /\ Gap(ComputedTotal(i), i.subtotal) <= drift
              /\ (None \notin {i.rate, i.ttc}) =>
                     One * Gap(WithTax(ComputedTotal(i), i.rate), i.ttc)
                         <= drift * (One + i.rate) + One * (Slack + 1)
<1> DEFINE s == [n \in DOMAIN i.lines |-> i.lines[n].computed]
           t == [n \in DOMAIN i.lines |-> i.lines[n].total]
           N == Len(i.lines)
           c == SumOf(s)
           u == SumOf(t)
           drift == (N + 1) * Slack
<1>1. i.lines \in Seq(Line) /\ i.subtotal \in Int /\ N \in Nat /\ DOMAIN i.lines = 1..N
  BY DEF Invoice
<1>2. BrokenLines(i) = {} /\ ~SubtotalBroken(i) /\ ~TtcBroken(i)
  BY NothingToReport
<1>3. s \in Seq(Int) /\ t \in Seq(Int) /\ Len(s) = N /\ Len(t) = N
  <2>1. \A n \in 1..N: i.lines[n] \in Line
    BY <1>1
  <2>2. \A l \in Line: l.computed \in Int /\ l.total \in Int
    BY DEF Line
  <2>3. \A n \in 1..N: i.lines[n].computed \in Int /\ i.lines[n].total \in Int
    BY <2>1, <2>2, Zenon
  <2>4. QED
    BY <1>1, <2>3
<1>4. \A n \in 1..N: Gap(s[n], t[n]) <= Slack
  <2> TAKE n \in 1..N
  <2>1. s[n] \in Int /\ t[n] \in Int /\ s[n] = i.lines[n].computed /\ t[n] = i.lines[n].total
    BY <1>1, <1>3
  <2>2. Close(i.lines[n].computed, i.lines[n].total)
    BY <1>1, <1>2 DEF BrokenLines
  <2>3. Gap(i.lines[n].computed, i.lines[n].total) <= Slack
    BY <2>1, <2>2, CloseGap
  <2>4. QED
    BY <1>1, <2>3
<1>5. c \in Int /\ u \in Int /\ Gap(c, u) <= N * Slack
  <2> HIDE DEF s, t, N
  <2>1. QED
    BY <1>3, <1>4, Units, SumsClose
<1>6. Gap(u, i.subtotal) <= Slack
  <2>1. u = LinesTotal(i.lines)
    BY DEF LinesTotal
  <2>2. Close(u, i.subtotal)
    BY <1>2, <2>1 DEF SubtotalBroken
  <2>3. QED
    BY <1>1, <1>5, <2>2, CloseGap
<1>7. c = ComputedTotal(i)
  BY DEF ComputedTotal
<1> HIDE DEF c, u
<1>8. drift \in Nat /\ Slack \in Nat /\ drift = N * Slack + Slack /\ N * Slack \in Nat
  BY <1>1, Units
<1> HIDE DEF drift
<1>9. Gap(c, i.subtotal) <= drift
  <2> HIDE DEF N
  <2> DEFINE k == N * Slack
             a == Gap(c, i.subtotal)
             b == Gap(c, u)
             d == Gap(u, i.subtotal)
  <2>1. k \in Nat /\ drift = k + Slack /\ b <= k /\ d <= Slack
    BY <1>5, <1>6, <1>8
  <2>2. a \in Nat /\ b \in Nat /\ d \in Nat /\ a <= b + d
    BY <1>1, <1>5, GapsMeet
  <2> HIDE DEF k, a, b, d
  <2>3. a <= drift
    BY <1>8, <2>1, <2>2
  <2>4. QED
    BY <2>3 DEF a
<1>10. ASSUME None \notin {i.rate, i.ttc}
       PROVE  One * Gap(WithTax(c, i.rate), i.ttc) <= drift * (One + i.rate) + One * (Slack + 1)
  <2> DEFINE v == WithTax(c, i.rate)
             w == WithTax(i.subtotal, i.rate)
  <2>1. i.rate \in Nat /\ i.ttc \in Int
    BY <1>10 DEF Invoice
  <2>2. /\ v \in Int /\ w \in Int
        /\ One * Gap(v, w) <= drift * (One + i.rate) + One
    BY <1>1, <1>5, <1>8, <1>9, <2>1, TaxKeepsClose
  <2>3. Gap(w, i.ttc) <= Slack
    <3>1. Close(w, i.ttc)
      BY <1>2, <1>10 DEF TtcBroken
    <3>2. QED
      BY <2>1, <2>2, <3>1, CloseGap
  <2> HIDE DEF v, w
  <2>4. Gap(v, i.ttc) <= Gap(v, w) + Slack /\ Gap(v, w) \in Int /\ Gap(v, i.ttc) \in Int
    <3> DEFINE a == Gap(v, i.ttc)
               b == Gap(v, w)
               d == Gap(w, i.ttc)
    <3>1. a \in Nat /\ b \in Nat /\ d \in Nat /\ a <= b + d /\ d <= Slack
      BY <2>1, <2>2, <2>3, GapsMeet
    <3> HIDE DEF a, b, d
    <3>2. a <= b + Slack /\ a \in Int /\ b \in Int
      BY <1>8, <3>1
    <3>3. QED
      BY <3>2 DEF a, b
  <2>5. One * Gap(v, i.ttc) <= One * Gap(v, w) + One * Slack
    <3> DEFINE a == Gap(v, i.ttc)
               b == Gap(v, w)
    <3>1. a \in Int /\ b \in Int /\ a <= b + Slack
      BY <2>4
    <3> HIDE DEF a, b
    <3>2. One * a <= One * (b + Slack) /\ One * (b + Slack) = One * b + One * Slack
      BY <1>8, <3>1, Units
    <3>3. QED
      BY <3>1, <3>2, Units DEF a, b
  <2>6. One * (Slack + 1) = One * Slack + One
    BY <1>8, Units
  <2>7. QED
    <3> DEFINE a == One * Gap(v, i.ttc)
               b == One * Gap(v, w)
               e == One * Slack
               f == drift * (One + i.rate)
    <3>1. a \in Int /\ b \in Int /\ e \in Int /\ f \in Int /\ One \in Int
      <4>1. /\ One \in Int /\ Gap(v, i.ttc) \in Int /\ Gap(v, w) \in Int /\ Slack \in Int
            /\ drift \in Int /\ One + i.rate \in Int
        BY <1>8, <2>1, <2>4, Units
      <4>2. \A x \in Int, y \in Int: x * y \in Int
        OBVIOUS
      <4>3. QED
        BY <4>1, <4>2
    <3>2. a <= b + e /\ b <= f + One
      BY <2>2, <2>5
    <3> HIDE DEF a, b, e, f
    <3>3. a <= f + (e + One)
      BY <3>1, <3>2
    <3>4. QED
      BY <2>6, <3>3 DEF a, e, f, v
<1>11. QED
  BY <1>7, <1>9, <1>10 DEF drift, N

-----------------------------------------------------------------------------
(* What validation reports is there, in a well-formed copy.                *)
Reports(i) == NewWarnings(i) > 0 => i.confidence = "low" /\ i.warnings >= NewWarnings(i)

LEMMA ValidatedReports ==
    ASSUME NEW i \in Invoice
    PROVE  Validated(i) \in Invoice /\ Reports(Validated(i))
<1>1. NewWarnings(i) \in Nat /\ i.warnings \in Nat
  BY NothingToReport DEF Invoice
<1>2. CASE NewWarnings(i) = 0
  BY <1>2 DEF Validated, Reports
<1>3. CASE NewWarnings(i) # 0
  <2> DEFINE new == NewWarnings(i)
             v == Validated(i)
  <2>1. v = [i EXCEPT !.confidence = "low", !.warnings = @ + new]
    BY <1>3 DEF Validated
  <2> HIDE DEF new, v
  <2>2. /\ v.lines = i.lines /\ v.subtotal = i.subtotal /\ v.rate = i.rate /\ v.ttc = i.ttc
        /\ v.confidence = "low" /\ v.warnings = i.warnings + new /\ v \in Invoice
    <3> DEFINE w == i.warnings + new
    <3>1. w \in Nat /\ new \in Nat
      BY <1>1 DEF new
    <3> HIDE DEF w
    <3>2. v = [i EXCEPT !.confidence = "low", !.warnings = w]
      BY <2>1 DEF w
    <3>3. v = [lines |-> i.lines, subtotal |-> i.subtotal, rate |-> i.rate, ttc |-> i.ttc,
               warnings |-> w, confidence |-> "low"]
      BY <3>2 DEF Invoice
    <3>4. v \in Invoice
      BY <3>1, <3>3 DEF Invoice
    <3>5. QED
      BY <3>3, <3>4 DEF w
  <2>3. NewWarnings(v) = new
    BY <2>2 DEF NewWarnings, BrokenLines, SubtotalBroken, TtcBroken, new
  <2>4. QED
    BY <1>1, <2>2, <2>3 DEF Reports, new, v
<1>4. QED
  BY <1>2, <1>3

(* The form that validate_and_build accepts makes a well-formed PUT: the   *)
(* abandoned rows are gone, the half-filled ones are refused.              *)
LEMMA FormBuilds ==
    ASSUME NEW i \in Invoice, NEW edited \in Edited(Form(i))
    PROVE  LET values == [edited EXCEPT !.lines = LinesFromEditor(@)]
           IN FormAccepts(values) => Payload(values) \in Invoice
<1> DEFINE values == [edited EXCEPT !.lines = LinesFromEditor(@)]
           R == Line \cup {Abandoned, HalfFilled}
           f == Form(i)
<1>1. SUFFICES ASSUME FormAccepts(values)
               PROVE  Payload(values) \in Invoice
  OBVIOUS
<1>2. /\ i.lines \in Seq(Line) /\ i.subtotal \in Int \cup {None} /\ i.ttc \in Int \cup {None}
      /\ i.lines \in Seq(R)
  <2>1. i.lines \in Seq(Line) /\ i.subtotal \in Int \cup {None} /\ i.ttc \in Int \cup {None}
    BY DEF Invoice
  <2>2. i.lines \in Seq(R)
    <3> HIDE DEF R
    <3>1. Line \subseteq R
      BY DEF R
    <3>2. QED
      BY <2>1, <3>1
  <2>3. QED
    BY <2>1, <2>2
<1>3. f = [lines |-> i.lines, subtotal |-> i.subtotal, percent |-> ToPercent(i.rate), ttc |-> i.ttc]
  BY DEF Form
<1>4. \/ edited = f
      \/ \E p: edited = [f EXCEPT !.percent = p]
      \/ edited = [f EXCEPT !.ttc = None]
      \/ \E new \in {Abandoned, HalfFilled}: edited = [f EXCEPT !.lines = Append(@, new)]
      \/ \E n \in {1} \cap DOMAIN f.lines: edited = [f EXCEPT !.lines = Tail(@)]
  BY DEF Edited
<1>5. /\ edited = [lines |-> edited.lines, subtotal |-> edited.subtotal,
                   percent |-> edited.percent, ttc |-> edited.ttc]
      /\ edited.subtotal \in Int \cup {None} /\ edited.ttc \in Int \cup {None}
      /\ \/ edited.lines = i.lines
         \/ \E new \in R: edited.lines = Append(i.lines, new)
         \/ i.lines # <<>> /\ edited.lines = Tail(i.lines)
  <2> HIDE DEF f
  <2> USE <1>2, <1>3
  <2>1. CASE edited = f
    BY <2>1
  <2>2. CASE \E p: edited = [f EXCEPT !.percent = p]
    BY <2>2
  <2>3. CASE edited = [f EXCEPT !.ttc = None]
    BY <2>3
  <2>4. CASE \E new \in {Abandoned, HalfFilled}: edited = [f EXCEPT !.lines = Append(@, new)]
    BY <2>4
  <2>5. CASE \E n \in {1} \cap DOMAIN f.lines: edited = [f EXCEPT !.lines = Tail(@)]
    <3>1. i.lines # <<>> /\ edited = [f EXCEPT !.lines = Tail(i.lines)]
      BY <2>5
    <3>2. QED
      BY <3>1
  <2>6. QED
    BY <1>4, <2>1, <2>2, <2>3, <2>4, <2>5
<1>6. edited.lines \in Seq(R)
  <2> HIDE DEF R
  <2>1. ASSUME NEW new \in R, edited.lines = Append(i.lines, new)
        PROVE  edited.lines \in Seq(R)
    BY <1>2, <2>1
  <2>2. CASE i.lines # <<>> /\ edited.lines = Tail(i.lines)
    BY <1>2, <2>2
  <2>3. QED
    BY <1>2, <1>5, <2>1, <2>2
<1> DEFINE l == LinesFromEditor(edited.lines)
           p == edited.percent
<1>7. l \in Seq(R \ {Abandoned})
  <2> HIDE DEF R
  <2>1. QED
    BY <1>6, EditorLines
<1>8. values = [lines |-> l, subtotal |-> edited.subtotal, percent |-> p, ttc |-> edited.ttc]
  <2> HIDE DEF l
  <2>1. values = [edited EXCEPT !.lines = l]
    BY DEF l
  <2>2. QED
    BY <1>5, <2>1
<1> HIDE DEF l, p, values
<1>9. l \in Seq(Line)
  <2>1. Len(l) \in Nat /\ DOMAIN l = 1..Len(l)
    BY <1>7
  <2>2. ASSUME NEW n \in 1..Len(l)
        PROVE  l[n] \in Line
    <3>1. l[n] \in R
      <4> HIDE DEF R
      <4>1. QED
        BY <1>7
    <3>2. l[n].computed # None
      BY <1>1, <1>8, <2>1 DEF FormAccepts
    <3>3. Abandoned.computed = None /\ HalfFilled.computed = None
      BY DEF Abandoned, HalfFilled
    <3>4. QED
      BY <3>1, <3>2, <3>3
  <2>3. l = [n \in 1..Len(l) |-> l[n]]
    BY <1>7, <2>1
  <2>4. QED
    BY <2>1, <2>2, <2>3
<1>10. p \in Nat \cup {None}
  <2>1. p # None => p \in 0..One
    BY <1>1, <1>8 DEF FormAccepts
  <2>2. QED
    BY <2>1, Units
<1>11. Payload(values) = [lines |-> l, subtotal |-> edited.subtotal, rate |-> p,
                          ttc |-> edited.ttc, warnings |-> 0, confidence |-> "high"]
  BY <1>8 DEF Payload
<1>12. QED
  BY <1>5, <1>9, <1>10, <1>11 DEF Invoice

-----------------------------------------------------------------------------
(* Every invoice the system holds, the one in hand included, is well      *)
(* formed and reports the rules it breaks: the invariant that the steps    *)
(* preserve.  The invoices kept would not do, for what is cached or put in *)
(* a record is the one in hand before.                                     *)
Sound(i) == i \in Invoice /\ Reports(i)

IInv ==
    /\ stage \in {"idle", "store", "insert"} /\ (stage = "idle") = (invoice = None)
    /\ invoice # None => Sound(invoice)
    /\ cache # None => Sound(cache)
    /\ row # None => row \in [status: {"high", "low"}, invoice: Invoice] /\ Sound(row.invoice)

(* A correction, whoever sends it, puts a validated invoice in the record. *)
LEMMA PutReports ==
    ASSUME NEW i \in Invoice, Put(i)
    PROVE  row' \in [status: {"high", "low"}, invoice: Invoice] /\ Sound(row'.invoice)
<1> DEFINE j == [i EXCEPT !.warnings = 0, !.confidence = "high"]
           v == Validated(j)
<1>1. j \in Invoice
  <2>1. i = InvoiceOf(i.lines, i.subtotal, i.rate, i.ttc, i.warnings, i.confidence)
    BY DEF Invoice, InvoiceOf
  <2>2. j = InvoiceOf(i.lines, i.subtotal, i.rate, i.ttc, 0, "high")
    <3> DEFINE k == [i EXCEPT !.warnings = 0]
    <3>1. k = InvoiceOf(i.lines, i.subtotal, i.rate, i.ttc, 0, i.confidence)
      BY <2>1 DEF InvoiceOf
    <3>2. j = [k EXCEPT !.confidence = "high"]
      OBVIOUS
    <3> HIDE DEF k, j
    <3>3. QED
      BY <3>1, <3>2 DEF InvoiceOf
  <2>3. QED
    BY <2>2 DEF Invoice, InvoiceOf
<1>2. row' = [status |-> v.confidence, invoice |-> v]
  BY DEF Put
<1> HIDE DEF j
<1>3. Sound(v)
  BY <1>1, ValidatedReports DEF Sound
<1> HIDE DEF v
<1>4. v.confidence \in {"high", "low"} /\ v \in Invoice
  BY <1>3 DEF Invoice, Sound
<1>5. QED
  BY <1>2, <1>3, <1>4

LEMMA Preserved == IInv /\ [Next]_vars => IInv'
<1> SUFFICES ASSUME IInv, [Next]_vars
             PROVE  IInv'
  OBVIOUS
<1>1. /\ Extracted \subseteq Invoice /\ Corrections \subseteq Invoice /\ None \notin Invoice
  BY InputAssumption
<1>2. ASSUME NEW i \in Extracted, Extract(i)
      PROVE  IInv'
  <2>1. Sound(Validated(i)) /\ Validated(i) # None
    BY <1>1, ValidatedReports DEF Sound
  <2>2. QED
    BY <1>2, <2>1 DEF IInv, Extract
<1>3. CASE Hit
  BY <1>3 DEF IInv, Hit, Readable
<1>4. CASE StoreCache
  BY <1>4 DEF IInv, StoreCache
<1>5. CASE Insert
  <2>1. Sound(invoice) /\ invoice.confidence \in {"high", "low"}
    BY <1>5 DEF IInv, Insert, Sound, Invoice
  <2>2. /\ row' \in [status: {"high", "low"}, invoice: Invoice]
        /\ row'.invoice = invoice
    BY <1>5, <2>1 DEF Insert, Sound
  <2>3. QED
    BY <1>5, <2>1, <2>2 DEF IInv, Insert
<1>6. CASE InsertFails
  BY <1>6 DEF IInv, InsertFails
<1>7. ASSUME NEW i \in Corrections, Update(i)
      PROVE  IInv'
  BY <1>1, <1>7, PutReports DEF IInv, Update
<1>8. ASSUME row # None, NEW edited \in Edited(Form(row.invoice)), SaveForm(edited)
      PROVE  IInv'
  <2> DEFINE values == [edited EXCEPT !.lines = LinesFromEditor(@)]
  <2>1. FormAccepts(values) /\ Put(Payload(values)) /\ UNCHANGED <<stage, invoice, cache>>
    BY <1>8 DEF SaveForm
  <2>2. row.invoice \in Invoice
    BY <1>8 DEF IInv, Sound
  <2>3. Payload(values) \in Invoice
    BY <1>8, <2>1, <2>2, FormBuilds
  <2> HIDE DEF values
  <2>4. QED
    BY <2>1, <2>3, PutReports DEF IInv
<1>9. CASE Delete
  BY <1>9 DEF IInv, Delete
<1>10. CASE ExpireEntry
  BY <1>10 DEF IInv, ExpireEntry
<1>11. CASE UNCHANGED vars
  BY <1>11 DEF IInv, vars
<1>12. QED
  BY <1>2, <1>3, <1>4, <1>5, <1>6, <1>7, <1>8, <1>9, <1>10, <1>11 DEF Next

LEMMA Invariance == Spec => []IInv
<1>1. Init => IInv
  BY DEF Init, IInv
<1>2. QED
  BY <1>1, Preserved, PTL DEF Spec

-----------------------------------------------------------------------------
(* What validation, the cache, the form and the database pass on to each   *)
(* other is always a well-formed invoice.                                  *)
THEOREM ValidationTypeCorrect == Spec => []TypeOK
<1>1. IInv => TypeOK
  BY DEF IInv, TypeOK, Sound
<1>2. QED
  BY <1>1, Invariance, PTL

(* No path, through the cache or a correction, keeps an invoice that       *)
(* breaks a rule and does not say so.                                      *)
THEOREM BrokenRulesReported == Spec => []EveryBrokenRuleIsReported
<1>1. IInv => EveryBrokenRuleIsReported
  BY DEF IInv, EveryBrokenRuleIsReported, Kept, Sound, Reports
<1>2. QED
  BY <1>1, Invariance, PTL

(* In an invoice marked "high" the amounts are as consistent as its number *)
(* of lines allows, for every number of lines, tolerance and rate.         *)
THEOREM HighIsConsistent == Spec => []HighMeansConsistent
<1>1. ASSUME NEW i, Sound(i), i.confidence = "high"
      PROVE  NewWarnings(i) = 0
  <2>1. NewWarnings(i) \in Nat
    BY <1>1, NothingToReport DEF Sound
  <2>2. ~(NewWarnings(i) > 0)
    BY <1>1 DEF Sound, Reports
  <2>3. QED
    BY <2>1, <2>2
<1>2. IInv => \A i \in Kept: Sound(i)
  BY DEF IInv, Kept
<1>3. IInv => HighMeansConsistent
  <2> SUFFICES ASSUME IInv, NEW i \in Kept,
                      i.confidence = "high", i.lines # <<>>, i.subtotal # None
               PROVE  LET drift == (Len(i.lines) + 1) * Slack
                      IN /\ Gap(ComputedTotal(i), i.subtotal) <= drift
                         /\ (None \notin {i.rate, i.ttc}) =>
                                One * Gap(WithTax(ComputedTotal(i), i.rate), i.ttc)
                                    <= drift * (One + i.rate) + One * (Slack + 1)
    BY DEF HighMeansConsistent
  <2>1. i \in Invoice /\ NewWarnings(i) = 0
    BY <1>1, <1>2 DEF Sound
  <2>2. QED
    BY <2>1, NoWarningConsistent
<1>4. QED
  BY <1>3, Invariance, PTL

-----------------------------------------------------------------------------
(* The form.                                                               *)

(* Rounding to a multiple of Step moves a number by half a Step at most.   *)
LEMMA Rounding ==
    ASSUME NEW p \in Nat
    PROVE  /\ ((p + Step \div 2) \div Step) * Step \in Int
           /\ Gap(((p + Step \div 2) \div Step) * Step, p) <= Step \div 2
<1> DEFINE h == Step \div 2
           q == (p + h) \div Step
<1>1. Step \in Nat /\ Step > 0 /\ Step % 2 = 1
  BY ValidationAssumption
<1>2. h \in Nat /\ Step = 2 * h + 1
  BY <1>1
<1> HIDE DEF h
<1>3. q \in Nat /\ q * Step \in Int /\ q * Step <= p + h /\ p + h < q * Step + Step
  BY <1>1, <1>2, SMTT(30)
<1> HIDE DEF q
<1>4. q * Step - p <= h /\ p - q * Step <= h
  BY <1>1, <1>2, <1>3
<1>5. Gap(q * Step, p) <= h
  BY <1>3, <1>4 DEF Gap
<1>6. QED
  BY <1>3, <1>5 DEF h, q

(* A percentage the form accepts comes back to the precision of the form.  *)
LEMMA PercentComesBack ==
    ASSUME NEW p, p # None => p \in 0..One
    PROVE  IF p = None THEN ToPercent(p) = None
           ELSE Gap(ToPercent(p), p) <= Step \div 2
<1>1. CASE p = None
  BY <1>1 DEF ToPercent
<1>2. CASE p # None
  <2>1. p \in Nat /\ p <= One /\ Meant(p) = p
    <3>1. One \in Nat
      BY ValidationAssumption DEF One
    <3>2. QED
      BY <1>2, <3>1 DEF Meant
  <2>2. ToPercent(p) = ((p + Step \div 2) \div Step) * Step
    BY <1>2, <2>1 DEF ToPercent
  <2>3. QED
    BY <1>2, <2>1, <2>2, Rounding
<1>3. QED
  BY <1>1, <1>2

(* Validation adds warnings and doubt, and touches nothing else.           *)
LEMMA ValidationKeeps ==
    ASSUME NEW l, NEW s, NEW r, NEW t, NEW w, NEW c
    PROVE  \E w2, c2: Validated(InvoiceOf(l, s, r, t, w, c)) = InvoiceOf(l, s, r, t, w2, c2)
<1> DEFINE i == InvoiceOf(l, s, r, t, w, c)
<1>1. CASE NewWarnings(i) = 0
  BY <1>1 DEF Validated
<1>2. CASE NewWarnings(i) # 0
  <2> DEFINE w2 == i.warnings + NewWarnings(i)
  <2>1. Validated(i) = [i EXCEPT !.confidence = "low", !.warnings = w2]
    BY <1>2 DEF Validated
  <2> HIDE DEF w2
  <2>2. /\ [i EXCEPT !.confidence = "low"] = InvoiceOf(l, s, r, t, w, "low")
        /\ [InvoiceOf(l, s, r, t, w, "low") EXCEPT !.warnings = w2]
              = InvoiceOf(l, s, r, t, w2, "low")
    BY DEF InvoiceOf
  <2>3. Validated(i) = InvoiceOf(l, s, r, t, w2, "low")
    BY <2>1, <2>2
  <2>4. QED
    BY <2>3
<1>3. QED
  BY <1>1, <1>2

(* Whatever the user makes of a form is a form.                            *)
LEMMA EditedIsForm ==
    ASSUME NEW i, NEW edited \in Edited(Form(i))
    PROVE  edited = FormOf(edited.lines, edited.subtotal, edited.percent, edited.ttc)
<1> DEFINE f == Form(i)
<1>1. f = FormOf(i.lines, i.subtotal, ToPercent(i.rate), i.ttc)
  BY DEF Form, FormOf
<1>2. \/ edited = f
      \/ \E p \in Typed: edited = [f EXCEPT !.percent = p]
      \/ edited = [f EXCEPT !.ttc = None]
      \/ \E new: edited = [f EXCEPT !.lines = Append(@, new)]
      \/ edited = [f EXCEPT !.lines = Tail(@)]
  BY DEF Edited
<1> HIDE DEF f
<1>3. QED
  BY <1>1, <1>2 DEF FormOf

-----------------------------------------------------------------------------
(* What a user saves is what the page shows next.                          *)
LEMMA SaveShows ==
    ASSUME NEW edited \in Edited(Form(row.invoice)), SaveForm(edited)
    PROVE  Shows(Form(row'.invoice), edited)
<1> DEFINE l == LinesFromEditor(edited.lines)
           values == [edited EXCEPT !.lines = LinesFromEditor(@)]
           s == edited.subtotal
           p == edited.percent
           t == edited.ttc
<1>1. values = FormOf(l, s, p, t)
  BY EditedIsForm DEF FormOf
<1>2. FormAccepts(values) /\ Put(Payload(values))
  BY DEF SaveForm
<1>3. p # None => p \in 0..One
  BY <1>1, <1>2 DEF FormAccepts, FormOf
<1>4. [Payload(values) EXCEPT !.warnings = 0, !.confidence = "high"]
        = InvoiceOf(l, s, p, t, 0, "high")
  <2>1. Payload(values) = InvoiceOf(l, s, p, t, 0, "high")
    BY <1>1 DEF Payload, FormOf, InvoiceOf
  <2> HIDE DEF values, l, s, p, t
  <2> DEFINE x == InvoiceOf(l, s, p, t, 0, "high")
  <2>2. [x EXCEPT !.warnings = 0] = x /\ [x EXCEPT !.confidence = "high"] = x
    BY DEF InvoiceOf
  <2>3. QED
    BY <2>1, <2>2
<1>5. PICK w, c: Validated(InvoiceOf(l, s, p, t, 0, "high")) = InvoiceOf(l, s, p, t, w, c)
  BY ValidationKeeps
<1>6. row'.invoice = InvoiceOf(l, s, p, t, w, c)
  BY <1>2, <1>4, <1>5 DEF Put
<1> HIDE DEF values, l, s, p, t
<1>7. Form(row'.invoice) = FormOf(l, s, ToPercent(p), t)
  BY <1>6 DEF Form, FormOf, InvoiceOf
<1>8. QED
  BY <1>3, <1>7, PercentComesBack DEF Shows, FormOf, l, s, p, t

(* SavedIsShown, of every step of every behaviour.                         *)
THEOREM FormIsFaithful == Spec => SavedIsShown
<1>1. [Next]_vars =>
        [\A values \in IF row = None THEN {} ELSE Edited(Form(row.invoice)):
             SaveForm(values) => Shows(Form(row'.invoice), values)]_vars
  BY SaveShows
<1>2. QED
  BY <1>1, PTL DEF Spec, SavedIsShown

(* The column the list filters on says what the sealed invoice says.       *)
THEOREM StatusAgrees == Spec => []StatusColumnAgrees
<1>1. Init => StatusColumnAgrees
  BY DEF Init, StatusColumnAgrees
<1>2. ASSUME StatusColumnAgrees, [Next]_vars
      PROVE  StatusColumnAgrees'
  <2>1. ASSUME NEW i, Put(i)
        PROVE  StatusColumnAgrees'
    BY <2>1 DEF Put, StatusColumnAgrees
  <2>2. ASSUME NEW i, Extract(i) \/ Update(i)
        PROVE  StatusColumnAgrees'
    BY <1>2, <2>1, <2>2 DEF Extract, Update, StatusColumnAgrees
  <2>3. ASSUME NEW values, SaveForm(values)
        PROVE  StatusColumnAgrees'
    BY <2>1, <2>3 DEF SaveForm
  <2>4. CASE Hit \/ StoreCache \/ Insert \/ InsertFails \/ Delete \/ ExpireEntry
             \/ UNCHANGED vars
    BY <1>2, <2>4
    DEF Hit, StoreCache, Insert, InsertFails, Delete, ExpireEntry, vars, StatusColumnAgrees
  <2>5. QED
    BY <1>2, <2>2, <2>3, <2>4 DEF Next
<1>3. QED
  BY <1>1, <1>2, PTL DEF Spec
=============================================================================
