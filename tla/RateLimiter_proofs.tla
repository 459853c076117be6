------------------------- MODULE RateLimiter_proofs -------------------------
(***************************************************************************)
(* The quota of RateLimiter, for every number of clients, quota, window    *)
(* and size of the table.  The argument is about one deque q and the       *)
(* history g of its client: q is the end of g, and what is missing from q  *)
(* has left the window.  Popping, forgetting and appending all keep that,  *)
(* and appending to a deque with room keeps the history spaced.            *)
(* The memory: the table is the finite set of clients with an event, and a *)
(* sweep or the room test stands before each new one.  The promise: what   *)
(* Retry-After announces reaches the end of the window of the upload that  *)
(* stands in the way, and nothing granted since can replace it.            *)
(***************************************************************************)
EXTENDS RateLimiter, FiniteSetTheorems, WellFoundedInduction, TLAPS

(* Forgetting a client loses nothing that still counts: its last event has *)
(* left the window, and so have all the earlier ones.                      *)
LEMMA ForgetStale ==
    ASSUME NEW q \in Seq(Nat), NEW g \in Seq(Nat), now \in Nat,
           InOrder(g), EndsHistory(q, g), Stale(q)
    PROVE  EndsHistory(<<>>, g)
<1> USE LimiterAssumption
<1>1. CASE q = <<>>
  BY <1>1
<1>2. CASE q # <<>> /\ now - q[Len(q)] >= Window
  <2>1. Len(q) \in Nat /\ Len(q) > 0 /\ Len(g) \in Nat /\ Len(q) <= Len(g)
    BY <1>2 DEF EndsHistory
  <2>2. q[Len(q)] = g[Len(g)]
    BY <2>1 DEF EndsHistory
  <2>3. ASSUME NEW i \in 1..Len(g)
        PROVE  now - g[i] >= Window
    <3>1. g[i] \in Nat /\ g[Len(g)] \in Nat /\ g[i] <= g[Len(g)]
      BY <2>1 DEF InOrder
    <3>2. QED
      BY <1>2, <2>2, <3>1
  <2>4. QED
    BY <2>1, <2>3 DEF EndsHistory
<1>3. QED
  BY <1>1, <1>2 DEF Stale

(* Popping the events that left the window.                                *)
LEMMA PopOld ==
    ASSUME NEW q \in Seq(Nat), NEW g \in Seq(Nat), now \in Nat,
           EndsHistory(q, g), NEW n \in 0..Len(q), Popped(q, n)
    PROVE  /\ SubSeq(q, n + 1, Len(q)) \in Seq(Nat)
           /\ Len(SubSeq(q, n + 1, Len(q))) = Len(q) - n
           /\ EndsHistory(SubSeq(q, n + 1, Len(q)), g)
<1> USE LimiterAssumption
<1> DEFINE r == SubSeq(q, n + 1, Len(q))
<1>1. r \in Seq(Nat) /\ Len(r) = Len(q) - n
  OBVIOUS
<1>2. Len(q) \in Nat /\ Len(g) \in Nat /\ n \in Nat /\ n <= Len(q)
  OBVIOUS
<1>3. \A i \in 1..Len(r): r[i] = q[n + i]
  BY <1>1, <1>2
<1>4. Len(r) <= Len(g) /\ Len(r) <= MaxEvents
  BY <1>1, <1>2 DEF EndsHistory
<1>5. ASSUME NEW i \in 1..Len(r)
      PROVE  r[i] = g[Len(g) - Len(r) + i]
  <2>1. n + i \in 1..Len(q)
    BY <1>1, <1>2
  <2>2. q[n + i] = g[Len(g) - Len(q) + (n + i)]
    BY <2>1 DEF EndsHistory
  <2>3. Len(g) - Len(q) + (n + i) = Len(g) - Len(r) + i
    BY <1>1, <1>2
  <2>4. QED
    BY <1>3, <2>2, <2>3
<1>6. ASSUME NEW i \in 1..(Len(g) - Len(r))
      PROVE  now - g[i] >= Window
  <2>1. CASE i <= Len(g) - Len(q)
    BY <1>2, <2>1 DEF EndsHistory
  <2>2. CASE i > Len(g) - Len(q)
    <3>1. i - (Len(g) - Len(q)) \in 1..n
      BY <1>1, <1>2, <2>2
    <3>2. q[i - (Len(g) - Len(q))] = g[i]
      BY <1>2, <3>1 DEF EndsHistory
    <3>3. QED
      BY <3>1, <3>2 DEF Popped
  <2>3. QED
    BY <1>2, <2>1, <2>2
<1> HIDE DEF r
<1>7. EndsHistory(r, g)
  BY <1>4, <1>5, <1>6 DEF EndsHistory
<1>8. QED
  BY <1>1, <1>7 DEF r

(* Letting a client in: its deque had room, so the event MaxEvents earlier *)
(* in its history had already left the window.                             *)
LEMMA AppendNow ==
    ASSUME NEW q \in Seq(Nat), NEW g \in Seq(Nat), now \in Nat,
           InOrder(g), EndsHistory(q, g), Spaced(g), Len(q) < MaxEvents
    PROVE  /\ InOrder(Append(g, now))
           /\ EndsHistory(Append(q, now), Append(g, now))
           /\ Spaced(Append(g, now))
<1> USE LimiterAssumption
<1>1. /\ Len(q) \in Nat /\ Len(g) \in Nat /\ MaxEvents \in Nat
      /\ Len(Append(g, now)) = Len(g) + 1 /\ Len(Append(q, now)) = Len(q) + 1
  OBVIOUS
<1>2. /\ \A i \in 1..Len(g): Append(g, now)[i] = g[i]
      /\ Append(g, now)[Len(g) + 1] = now
      /\ \A i \in 1..Len(q): Append(q, now)[i] = q[i]
      /\ Append(q, now)[Len(q) + 1] = now
  OBVIOUS
<1>3. InOrder(Append(g, now))
  BY <1>1, <1>2 DEF InOrder
<1>4. EndsHistory(Append(q, now), Append(g, now))
  <2>1. ASSUME NEW i \in 1..(Len(q) + 1)
        PROVE  Append(q, now)[i] = Append(g, now)[(Len(g) + 1) - (Len(q) + 1) + i]
    <3>1. CASE i = Len(q) + 1
      BY <1>1, <1>2, <3>1
    <3>2. CASE i \in 1..Len(q)
      <4>1. Len(g) - Len(q) + i \in 1..Len(g)
        BY <1>1, <3>2 DEF EndsHistory
      <4>2. q[i] = g[Len(g) - Len(q) + i]
        BY <3>2 DEF EndsHistory
      <4>3. (Len(g) + 1) - (Len(q) + 1) + i = Len(g) - Len(q) + i
        BY <1>1
      <4>4. QED
        BY <1>2, <3>2, <4>1, <4>2, <4>3
    <3>3. i = Len(q) + 1 \/ i \in 1..Len(q)
      BY <1>1
    <3>4. QED
      BY <3>1, <3>2, <3>3
  <2>2. ASSUME NEW i \in 1..((Len(g) + 1) - (Len(q) + 1))
        PROVE  now - Append(g, now)[i] >= Window
    BY <1>1, <1>2 DEF EndsHistory
  <2>3. Len(q) + 1 <= Len(g) + 1 /\ Len(q) + 1 <= MaxEvents
    BY <1>1 DEF EndsHistory
  <2>4. QED
    <3> HIDE LimiterAssumption
    <3> DEFINE p == Append(q, now)
               h == Append(g, now)
    <3>1. Len(p) = Len(q) + 1 /\ Len(h) = Len(g) + 1
      BY <1>1
    <3>2. \A i \in 1..Len(p): p[i] = h[Len(h) - Len(p) + i]
      BY <2>1, <3>1
    <3>3. \A i \in 1..(Len(h) - Len(p)): now - h[i] >= Window
      BY <2>2, <3>1
    <3> HIDE DEF p, h
    <3>4. EndsHistory(p, h)
      BY <2>3, <3>1, <3>2, <3>3 DEF EndsHistory
    <3>5. QED
      BY <3>4 DEF p, h
<1>5. Spaced(Append(g, now))
  <2>1. ASSUME NEW i \in 1..(Len(g) + 1 - MaxEvents)
        PROVE  Append(g, now)[i + MaxEvents] - Append(g, now)[i] >= Window
    <3>1. CASE i + MaxEvents <= Len(g)
      BY <1>1, <1>2, <3>1 DEF Spaced
    <3>2. CASE i + MaxEvents = Len(g) + 1
      <4>1. i \in 1..(Len(g) - Len(q)) /\ i \in 1..Len(g)
        BY <1>1, <3>2
      <4>2. QED
        BY <1>2, <3>2, <4>1 DEF EndsHistory
    <3>3. i + MaxEvents <= Len(g) \/ i + MaxEvents = Len(g) + 1
      BY <1>1
    <3>4. QED
      BY <3>1, <3>2, <3>3
  <2>2. QED
    <3> HIDE LimiterAssumption
    <3> DEFINE h == Append(g, now)
    <3>1. Len(h) = Len(g) + 1
      BY <1>1
    <3>2. \A i \in 1..(Len(h) - MaxEvents): h[i + MaxEvents] - h[i] >= Window
      <4> HIDE DEF h
      <4>1. \A i \in 1..(Len(g) + 1 - MaxEvents): h[i + MaxEvents] - h[i] >= Window
        BY <2>1, Zenon DEF h
      <4>2. QED
        BY <1>1, <3>1, <4>1
    <3> HIDE DEF h
    <3>3. Spaced(h)
      BY <3>2 DEF Spaced
    <3>4. QED
      BY <3>3 DEF h
<1>6. QED
  BY <1>3, <1>4, <1>5
(* Multiplying keeps the order.                                            *)
LEMMA TimesUnit ==
    ASSUME NEW a \in Int, NEW b \in Int, a > b
    PROVE  Unit * a >= Unit * b + Unit
<1>1. Unit \in Int /\ Unit > 0 /\ a >= b + 1
  BY LimiterAssumption
<1>2. \A u \in Int, x \in Int: (u > 0 /\ x >= 0) => u * x >= 0
  BY SMTT(30)
<1>3. Unit * (a - (b + 1)) >= 0
  BY <1>1, <1>2
<1>4. Unit * (a - (b + 1)) = Unit * a - Unit * b - Unit
  BY <1>1, SMTT(30)
<1>5. QED
  BY <1>1, <1>3, <1>4, SMTT(30)

(* Ceil rounds to a whole number of seconds, and grows with its argument.  *)
LEMMA CeilBounds ==
    ASSUME NEW t \in 1..Window
    PROVE  Ceil(t) \in Nat /\ Ceil(t) <= Ceil(Window) /\ Ceil(Window) \in Nat \ {0}
<1> USE LimiterAssumption
<1>1. \A x \in Nat \ {0}: /\ Ceil(x) \in Int
                          /\ Unit * Ceil(x) <= x + Unit - 1
                          /\ x + Unit - 1 < Unit * Ceil(x) + Unit
  BY SMTT(30) DEF Ceil
<1>2. t \in Nat \ {0} /\ Window \in Nat \ {0} /\ Ceil(t) \in Int /\ Ceil(Window) \in Int
  BY <1>1
<1> DEFINE low == Unit * Ceil(t)
           high == Unit * Ceil(Window)
<1>3. /\ low \in Int /\ low <= t + Unit - 1 /\ t + Unit - 1 < low + Unit
      /\ high \in Int /\ high <= Window + Unit - 1 /\ Window + Unit - 1 < high + Unit
  BY <1>1, <1>2
<1>4. 0 > Ceil(t) => 0 >= low + Unit
  BY <1>2, TimesUnit
<1>5. 1 > Ceil(Window) => Unit * 1 >= high + Unit
  BY <1>2, TimesUnit
<1>6. Ceil(t) > Ceil(Window) => low >= high + Unit
  BY <1>2, TimesUnit
<1> HIDE DEF low, high
<1>7. ~(0 > Ceil(t)) /\ ~(1 > Ceil(Window)) /\ ~(Ceil(t) > Ceil(Window))
  BY <1>2, <1>3, <1>4, <1>5, <1>6
<1>8. QED
  BY <1>2, <1>7
-----------------------------------------------------------------------------
(* The table.                                                              *)

InTable(table, j) == IF j \in DOMAIN table THEN table[j] ELSE <<>>

(* Sweeping the table to make room keeps every deque the end of its        *)
(* client's history.                                                       *)
LEMMA SweepKeeps ==
    ASSUME LimiterInv, NEW k \in Keys
    PROVE  /\ DOMAIN Table(k) \subseteq Keys
           /\ Table(k) \in [DOMAIN Table(k) -> Seq(Nat)]
           /\ \A j \in Keys: EndsHistory(InTable(Table(k), j), grants[j])
<1> DEFINE kept == {j \in DOMAIN events: ~Stale(events[j])}
           swept == [j \in kept |-> events[j]]
<1>1. /\ now \in Nat /\ DOMAIN events \subseteq Keys
      /\ \A j \in DOMAIN events: events[j] \in Seq(Nat)
      /\ events = [j \in DOMAIN events |-> events[j]]
      /\ \A j \in Keys: grants[j] \in Seq(Nat)
  BY LimiterAssumption DEF LimiterInv, TypeOK
<1>2. \A j \in Keys: InOrder(grants[j]) /\ EndsHistory(InTable(events, j), grants[j])
  BY DEF LimiterInv, DequesEndTheHistory, Remembered, InTable
<1>3. CASE Table(k) = events
  BY <1>1, <1>2, <1>3
<1>4. CASE Table(k) = swept
  <2>1. DOMAIN swept = kept /\ kept \subseteq DOMAIN events
    OBVIOUS
  <2>2. swept \in [kept -> Seq(Nat)]
    BY <1>1
  <2>3. ASSUME NEW j \in Keys
        PROVE  EndsHistory(InTable(swept, j), grants[j])
    <3>1. CASE j \in kept
      <4>1. InTable(swept, j) = InTable(events, j)
        BY <3>1 DEF InTable
      <4>2. QED
        BY <1>2, <4>1
    <3>2. CASE j \notin DOMAIN events
      <4>1. InTable(swept, j) = InTable(events, j)
        BY <3>2 DEF InTable
      <4>2. QED
        BY <1>2, <4>1
    <3>3. CASE j \in DOMAIN events /\ Stale(events[j])
      <4>1. InTable(swept, j) = <<>> /\ InTable(events, j) = events[j]
        BY <3>3 DEF InTable
      <4>2. EndsHistory(<<>>, grants[j])
        BY <1>1, <1>2, <3>3, <4>1, ForgetStale
      <4>3. QED
        BY <4>1, <4>2
    <3>4. QED
      BY <3>1, <3>2, <3>3
  <2>4. QED
    BY <1>1, <1>4, <2>1, <2>2, <2>3
<1>5. QED
  BY <1>3, <1>4 DEF Table

(* Storing a deque for one client leaves the others alone.                 *)
LEMMA StoreKeeps ==
    ASSUME LimiterInv, NEW k \in Keys, NEW q \in Seq(Nat)
    PROVE  /\ DOMAIN Store(k, q) \subseteq Keys
           /\ Store(k, q) \in [DOMAIN Store(k, q) -> Seq(Nat)]
           /\ InTable(Store(k, q), k) = q
           /\ \A j \in Keys \ {k}: InTable(Store(k, q), j) = InTable(Table(k), j)
<1>1. /\ DOMAIN Table(k) \subseteq Keys
      /\ \A j \in DOMAIN Table(k): Table(k)[j] \in Seq(Nat)
  BY SweepKeeps
<1> DEFINE t == Table(k)
<1>2. Store(k, q) = [j \in DOMAIN t \cup {k} |-> IF j = k THEN q ELSE t[j]]
  BY DEF Store
<1> HIDE DEF t
<1>3. DOMAIN Store(k, q) = DOMAIN t \cup {k}
  BY <1>2
<1>4. \A j \in DOMAIN t \cup {k}: Store(k, q)[j] \in Seq(Nat)
  BY <1>1, <1>2 DEF t
<1>5. InTable(Store(k, q), k) = q
  BY <1>2, <1>3 DEF InTable
<1>6. ASSUME NEW j \in Keys \ {k}
      PROVE  InTable(Store(k, q), j) = InTable(t, j)
  BY <1>2, <1>3 DEF InTable
<1>7. QED
  BY <1>1, <1>2, <1>3, <1>4, <1>5, <1>6 DEF t

-----------------------------------------------------------------------------
(* The invariant, action by action.                                        *)

(* The empty limiter.                                                      *)
LEMMA InitInv == Init => LimiterInv
<1> SUFFICES ASSUME Init PROVE LimiterInv
  OBVIOUS
<1>1. TypeOK
  BY LimiterAssumption DEF Init, TypeOK
<1>2. \A k \in Keys: grants[k] = <<>> /\ Remembered(k) = <<>>
  BY DEF Init, Remembered
<1>3. InOrder(<<>>) /\ EndsHistory(<<>>, <<>>) /\ Spaced(<<>>)
  BY LimiterAssumption DEF InOrder, EndsHistory, Spaced
<1>4. QED
  BY <1>1, <1>2, <1>3 DEF LimiterInv, DequesEndTheHistory, QuotaPerWindow

(* A call refused because the table is full.                               *)
LEMMA RefuseFullKeeps ==
    ASSUME LimiterInv, NEW k \in Keys, RefuseFull(k)
    PROVE  LimiterInv'
<1>1. events' = Table(k) /\ now' = now /\ grants' = grants /\ promise' = promise
  BY DEF RefuseFull
<1>2. TypeOK'
  BY <1>1, SweepKeeps DEF LimiterInv, TypeOK
<1>3. \A j \in Keys: Remembered(j)' = InTable(Table(k), j)
  BY <1>1 DEF Remembered, InTable
<1>4. \A j \in Keys: InOrder(grants[j])' /\ Spaced(grants[j])'
  BY <1>1 DEF LimiterInv, DequesEndTheHistory, QuotaPerWindow, InOrder, Spaced
<1>5. ASSUME NEW j \in Keys
      PROVE  EndsHistory(Remembered(j), grants[j])'
  <2> DEFINE q == InTable(Table(k), j)
  <2>1. EndsHistory(q, grants[j])
    BY SweepKeeps
  <2>2. Remembered(j)' = q
    BY <1>3
  <2> HIDE DEF q
  <2>3. QED
    BY <1>1, <2>1, <2>2 DEF EndsHistory
<1>6. QED
  BY <1>2, <1>4, <1>5 DEF LimiterInv, DequesEndTheHistory, QuotaPerWindow

(* A call refused because the client has used its quota: only what left    *)
(* the window is popped, and the promise is within the window.             *)
LEMMA RefuseQuotaKeeps ==
    ASSUME LimiterInv, NEW k \in Keys, RefuseQuota(k)
    PROVE  LimiterInv'
<1> DEFINE q == InTable(Table(k), k)
           g == grants[k]
<1>1. Deque(k) = q
  BY DEF Deque, InTable
<1>2. q \in Seq(Nat) /\ g \in Seq(Nat) /\ now \in Nat /\ InOrder(g) /\ EndsHistory(q, g)
  BY SweepKeeps, LimiterAssumption
  DEF LimiterInv, TypeOK, DequesEndTheHistory, InTable
<1> HIDE DEF q, g
<1>3. PICK n \in 0..Len(q):
        /\ Popped(q, n)
        /\ Len(q) - n >= MaxEvents
        /\ events' = Store(k, SubSeq(q, n + 1, Len(q)))
        /\ promise' = [promise EXCEPT ![k] = now + Unit * Wait(q[n + 1])]
  BY <1>1 DEF RefuseQuota
<1>4. now' = now /\ grants' = grants
  BY DEF RefuseQuota
<1> DEFINE r == SubSeq(q, n + 1, Len(q))
<1>5. r \in Seq(Nat) /\ EndsHistory(r, g)
  BY <1>2, <1>3, PopOld
<1>6. now + Unit * Wait(q[n + 1]) \in 0..(MaxNow + Unit * Ceil(Window))
  <2>1. n \in Nat /\ n + 1 \in 1..Len(q) /\ n < Len(q)
    BY <1>2, <1>3, LimiterAssumption
  <2>2. now - q[n + 1] < Window
    BY <1>3, <2>1 DEF Popped
  <2>3. q[n + 1] \in Nat /\ q[n + 1] <= now
    <3>1. Len(g) \in Nat /\ Len(q) \in Nat /\ Len(q) <= Len(g)
      BY <1>2 DEF EndsHistory
    <3> DEFINE i == Len(g) - Len(q) + (n + 1)
    <3>2. i \in 1..Len(g)
      BY <2>1, <3>1, SMTT(30)
    <3>3. q[n + 1] = g[i]
      BY <1>2, <2>1 DEF EndsHistory
    <3> HIDE DEF i
    <3>4. g[i] \in Nat /\ g[i] <= now
      BY <1>2, <3>2 DEF InOrder
    <3>5. QED
      BY <3>3, <3>4
  <2>4. Window - (now - q[n + 1]) \in 1..Window
    <3>1. now \in Nat
      BY <1>2
    <3>2. QED
      BY <2>2, <2>3, <3>1, LimiterAssumption
  <2>5. Wait(q[n + 1]) \in Nat /\ Wait(q[n + 1]) <= Ceil(Window) /\ Ceil(Window) \in Nat
    BY <2>4, CeilBounds DEF Wait
  <2> DEFINE w == Wait(q[n + 1])
             c == Ceil(Window)
  <2> HIDE DEF w, c
  <2>6. w \in Nat /\ c \in Nat /\ w <= c
    BY <2>5 DEF w, c
  <2>7. Unit * w \in Nat /\ Unit * c \in Nat /\ Unit * w <= Unit * c
    <3>1. w = c \/ Unit * c >= Unit * w + Unit
      BY <2>6, TimesUnit
    <3>2. \A u, x \in Nat: u * x \in Nat
      BY SMTT(30)
    <3>3. Unit * w \in Nat /\ Unit * c \in Nat
      BY <2>6, <3>2, LimiterAssumption
    <3>4. QED
      BY <3>1, <3>3, LimiterAssumption
  <2>8. now \in 0..MaxNow
    BY DEF LimiterInv, TypeOK
  <2>9. now + Unit * w \in 0..(MaxNow + Unit * c)
    BY <2>7, <2>8, LimiterAssumption
  <2>10. QED
    BY <2>9 DEF w, c
<1> HIDE DEF r
<1>7. events' = Store(k, r)
  BY <1>3 DEF r
<1>8. TypeOK'
  <2>1. promise' \in [Keys -> 0..(MaxNow + Unit * Ceil(Window)) \cup {None}]
    BY <1>3, <1>6 DEF LimiterInv, TypeOK
  <2>2. QED
    BY <1>4, <1>5, <1>7, <2>1, StoreKeeps DEF LimiterInv, TypeOK
<1>9. \A j \in Keys: InOrder(grants[j])' /\ Spaced(grants[j])'
  BY <1>4 DEF LimiterInv, DequesEndTheHistory, QuotaPerWindow, InOrder, Spaced
<1>10. ASSUME NEW j \in Keys
       PROVE  EndsHistory(Remembered(j), grants[j])'
  <2> DEFINE p == InTable(Store(k, r), j)
  <2>1. EndsHistory(p, grants[j])
    <3>1. CASE j = k
      BY <1>5, <3>1, StoreKeeps DEF g
    <3>2. CASE j # k
      BY <1>5, <3>2, StoreKeeps, SweepKeeps
    <3>3. QED
      BY <3>1, <3>2
  <2>2. Remembered(j)' = p
    BY <1>7 DEF Remembered, InTable
  <2> HIDE DEF p
  <2>3. QED
    BY <1>4, <2>1, <2>2 DEF EndsHistory
<1>11. QED
  BY <1>8, <1>9, <1>10 DEF LimiterInv, DequesEndTheHistory, QuotaPerWindow

(* A call that lets the client in.                                         *)
LEMMA GrantKeeps ==
    ASSUME LimiterInv, NEW k \in Keys, Grant(k)
    PROVE  LimiterInv'
<1> DEFINE q == InTable(Table(k), k)
           g == grants[k]
<1>1. Deque(k) = q
  BY DEF Deque, InTable
<1>2. /\ q \in Seq(Nat) /\ g \in Seq(Nat) /\ now \in Nat
      /\ InOrder(g) /\ EndsHistory(q, g) /\ Spaced(g)
  BY SweepKeeps, LimiterAssumption
  DEF LimiterInv, TypeOK, DequesEndTheHistory, QuotaPerWindow, InTable
<1> HIDE DEF q
<1>3. PICK n \in 0..Len(q):
        /\ Popped(q, n)
        /\ Len(q) - n < MaxEvents
        /\ events' = Store(k, Append(SubSeq(q, n + 1, Len(q)), now))
  BY <1>1 DEF Grant
<1>4. /\ now' = now
      /\ grants' = [grants EXCEPT ![k] = Append(g, now)]
      /\ promise' = [promise EXCEPT ![k] = None]
  BY DEF Grant
<1> DEFINE r == SubSeq(q, n + 1, Len(q))
<1>5. r \in Seq(Nat) /\ Len(r) < MaxEvents /\ EndsHistory(r, g)
  BY <1>2, <1>3, PopOld
<1> HIDE DEF r, g
<1> DEFINE s == Append(r, now)
           h == Append(g, now)
<1>6. InOrder(h) /\ EndsHistory(s, h) /\ Spaced(h)
  BY <1>2, <1>5, AppendNow
<1>7. s \in Seq(Nat) /\ h \in Seq(Nat)
  BY <1>2, <1>5
<1>8. events' = Store(k, s)
  BY <1>3 DEF r
<1>9. \A j \in Keys: grants'[j] = IF j = k THEN h ELSE grants[j]
  BY <1>4 DEF LimiterInv, TypeOK
<1>10. TypeOK'
  <2>1. grants' \in [Keys -> Seq(Nat)]
    BY <1>4, <1>7 DEF LimiterInv, TypeOK
  <2>2. promise' \in [Keys -> 0..(MaxNow + Unit * Ceil(Window)) \cup {None}]
    BY <1>4 DEF LimiterInv, TypeOK
  <2> HIDE DEF s, h
  <2>3. QED
    BY <1>4, <1>7, <1>8, <2>1, <2>2, StoreKeeps DEF LimiterInv, TypeOK
<1> HIDE DEF s, h
<1>11. ASSUME NEW j \in Keys
       PROVE  InOrder(grants[j])' /\ Spaced(grants[j])'
  <2>1. CASE j = k
    BY <1>4, <1>6, <1>9, <2>1 DEF InOrder, Spaced
  <2>2. CASE j # k
    BY <1>4, <1>9, <2>2
    DEF LimiterInv, DequesEndTheHistory, QuotaPerWindow, InOrder, Spaced
  <2>3. QED
    BY <2>1, <2>2
<1>12. ASSUME NEW j \in Keys
       PROVE  EndsHistory(Remembered(j), grants[j])'
  <2> DEFINE p == InTable(Store(k, s), j)
             f == IF j = k THEN h ELSE grants[j]
  <2>1. EndsHistory(p, f)
    <3>1. CASE j = k
      BY <1>6, <1>7, <3>1, StoreKeeps
    <3>2. CASE j # k
      BY <1>7, <3>2, StoreKeeps, SweepKeeps
    <3>3. QED
      BY <3>1, <3>2
  <2>2. Remembered(j)' = p
    BY <1>8 DEF Remembered, InTable
  <2>3. grants'[j] = f
    BY <1>9
  <2> HIDE DEF p, f
  <2>4. QED
    BY <1>4, <2>1, <2>2, <2>3 DEF EndsHistory
<1>13. QED
  BY <1>10, <1>11, <1>12 DEF LimiterInv, DequesEndTheHistory, QuotaPerWindow

(* Time passes: what had left the window stays outside.                    *)
LEMMA TickKeeps ==
    ASSUME LimiterInv, Tick
    PROVE  LimiterInv'
<1> USE LimiterAssumption
<1>1. /\ now \in Nat /\ now' = now + 1 /\ now' \in 0..MaxNow
      /\ events' = events /\ grants' = grants /\ promise' = promise
  BY DEF Tick, LimiterInv, TypeOK
<1>2. TypeOK'
  BY <1>1 DEF LimiterInv, TypeOK
<1>3. ASSUME NEW j \in Keys
      PROVE  (InOrder(grants[j]) /\ Spaced(grants[j]) /\ EndsHistory(Remembered(j), grants[j]))'
  <2> DEFINE g == grants[j]
             q == Remembered(j)
  <2>1. g \in Seq(Nat) /\ q \in Seq(Nat)
    BY DEF LimiterInv, TypeOK, Remembered
  <2>2. InOrder(g) /\ Spaced(g) /\ EndsHistory(q, g)
    BY DEF LimiterInv, DequesEndTheHistory, QuotaPerWindow
  <2>3. grants'[j] = g /\ Remembered(j)' = q
    BY <1>1 DEF Remembered
  <2> HIDE DEF g, q
  <2>4. ASSUME NEW i \in 1..Len(g)
        PROVE  /\ g[i] <= now'
               /\ i \in 1..(Len(g) - Len(q)) => now' - g[i] >= Window
    <3>1. g[i] \in Nat /\ g[i] <= now
      BY <2>1, <2>2 DEF InOrder
    <3>2. i \in 1..(Len(g) - Len(q)) => now - g[i] >= Window
      BY <2>2 DEF EndsHistory
    <3>3. QED
      BY <1>1, <3>1, <3>2
  <2>5. \A i \in 1..(Len(g) - Len(q)): i \in 1..Len(g)
    BY <2>1
  <2>6. QED
    BY <2>2, <2>3, <2>4, <2>5 DEF InOrder, EndsHistory, Spaced
<1>4. QED
  BY <1>2, <1>3 DEF LimiterInv, DequesEndTheHistory, QuotaPerWindow

-----------------------------------------------------------------------------
(* The theorems.                                                           *)

(* Every reachable state of the limiter satisfies the invariant.           *)
THEOREM LimiterInvHolds == Spec => []LimiterInv
<1>1. LimiterInv /\ [Next]_vars => LimiterInv'
  <2> SUFFICES ASSUME LimiterInv, [Next]_vars PROVE LimiterInv'
    OBVIOUS
  <2>1. CASE UNCHANGED vars
    BY <2>1 DEF vars, LimiterInv, TypeOK, DequesEndTheHistory, QuotaPerWindow,
       InOrder, EndsHistory, Spaced, Remembered
  <2>2. QED
    BY <2>1, TickKeeps, RefuseFullKeeps, RefuseQuotaKeeps, GrantKeeps DEF Next
<1>2. QED
  BY InitInv, <1>1, PTL DEF Spec

(* The quota of max_events per window and per client is kept, although the *)
(* table forgets clients.                                                  *)
THEOREM QuotaCorrect == Spec => []QuotaPerWindow
<1>1. LimiterInv => QuotaPerWindow
  BY DEF LimiterInv
<1>2. QED
  BY LimiterInvHolds, <1>1, PTL

(* The types, and the bound on what a refusal may promise.                 *)
THEOREM LimiterTypeCorrect == Spec => []TypeOK
<1>1. LimiterInv => TypeOK
  BY DEF LimiterInv
<1>2. QED
  BY LimiterInvHolds, <1>1, PTL

-----------------------------------------------------------------------------
(* The size of the table.                                                  *)

TableBounded == IsFiniteSet(DOMAIN events) /\ Cardinality(DOMAIN events) <= MaxKeys

(* Sweeping only removes clients.                                          *)
LEMMA SweptIsSmaller ==
    ASSUME LimiterInv, TableBounded, NEW k \in Keys
    PROVE  /\ DOMAIN Table(k) \subseteq DOMAIN events
           /\ IsFiniteSet(DOMAIN Table(k))
           /\ Cardinality(DOMAIN Table(k)) \in Nat
           /\ Cardinality(DOMAIN Table(k)) <= MaxKeys
<1>1. DOMAIN Table(k) \subseteq DOMAIN events
  BY DEF Table
<1>2. /\ IsFiniteSet(DOMAIN Table(k))
      /\ Cardinality(DOMAIN Table(k)) <= Cardinality(DOMAIN events)
  BY <1>1, FS_Subset DEF TableBounded
<1>3. Cardinality(DOMAIN Table(k)) \in Nat /\ Cardinality(DOMAIN events) \in Nat
  BY <1>2, FS_CardinalityType DEF TableBounded
<1>4. QED
  BY <1>1, <1>2, <1>3, LimiterAssumption DEF TableBounded

(* A client is stored only where there is room for it.                     *)
LEMMA StoreFits ==
    ASSUME LimiterInv, TableBounded, NEW k \in Keys, ~NoRoom(k), NEW q,
           events' = Store(k, q)
    PROVE  TableBounded'
<1> DEFINE D == DOMAIN Table(k)
<1>1. IsFiniteSet(D) /\ Cardinality(D) \in Nat /\ Cardinality(D) <= MaxKeys
  BY SweptIsSmaller
<1>2. DOMAIN events' = D \cup {k}
  BY DEF Store
<1>3. k \in D \/ Cardinality(D) < MaxKeys
  BY <1>1, LimiterAssumption DEF NoRoom, Full
<1> HIDE DEF D
<1>4. CASE k \in D
  <2>1. D \cup {k} = D
    BY <1>4
  <2>2. QED
    BY <1>1, <1>2, <2>1 DEF TableBounded
<1>5. CASE k \notin D
  <2>1. IsFiniteSet(D \cup {k}) /\ Cardinality(D \cup {k}) = Cardinality(D) + 1
    BY <1>1, <1>5, FS_AddElement
  <2>2. Cardinality(D \cup {k}) <= MaxKeys
    BY <1>1, <1>3, <1>5, <2>1, LimiterAssumption
  <2>3. QED
    BY <1>2, <2>1, <2>2 DEF TableBounded
<1>6. QED
  BY <1>4, <1>5

(* The table stays within its bound, whichever way a call ends.            *)
LEMMA TableStep ==
    ASSUME LimiterInv, TableBounded, [Next]_vars
    PROVE  TableBounded'
<1>1. CASE Tick \/ UNCHANGED vars
  BY <1>1 DEF Tick, vars, TableBounded
<1>2. ASSUME NEW k \in Keys, RefuseFull(k)
      PROVE  TableBounded'
  BY <1>2, SweptIsSmaller DEF RefuseFull, TableBounded
<1>3. ASSUME NEW k \in Keys, RefuseQuota(k)
      PROVE  TableBounded'
  BY <1>3, StoreFits DEF RefuseQuota
<1>4. ASSUME NEW k \in Keys, Grant(k)
      PROVE  TableBounded'
  BY <1>4, StoreFits DEF Grant
<1>5. QED
  BY <1>1, <1>2, <1>3, <1>4 DEF Next

-----------------------------------------------------------------------------
(* The promise of a refusal.                                               *)

(* The promise reaches to the end of the window of the event that stands   *)
(* in the way: the MaxEvents-th last upload.                               *)
PromiseReaches ==
    \A k \in Keys: promise[k] # None =>
        /\ Len(grants[k]) >= MaxEvents
        /\ promise[k] >= grants[k][Len(grants[k]) - MaxEvents + 1] + Window

(* The seconds announced are not fewer than the ticks to wait.             *)
LEMMA WaitCovers ==
    ASSUME now \in Nat, NEW oldest \in Nat, oldest <= now, now - oldest < Window
    PROVE  /\ Unit * Wait(oldest) \in Int
           /\ now + Unit * Wait(oldest) >= oldest + Window
<1> DEFINE t == Window - (now - oldest)
<1>1. t \in 1..Window
  BY LimiterAssumption
<1>2. /\ Ceil(t) \in Nat /\ Unit * Ceil(t) \in Int /\ Unit * Ceil(t) >= t
      /\ Unit * 1 = Unit
  <2> HIDE DEF t
  <2>1. /\ Unit * Ceil(t) \in Int /\ t + Unit - 1 < Unit * Ceil(t) + Unit
    BY <1>1, LimiterAssumption, SMTT(30) DEF Ceil
  <2>2. Unit * Ceil(t) >= t
    BY <1>1, <2>1, LimiterAssumption
  <2>3. QED
    BY <1>1, <2>1, <2>2, CeilBounds, LimiterAssumption
<1>3. Ceil(t) >= 1
  <2> HIDE DEF t
  <2>1. Ceil(t) = 0 => Unit * Ceil(t) = 0
    BY LimiterAssumption
  <2>2. QED
    BY <1>1, <1>2, <2>1
<1>4. Wait(oldest) = Ceil(t)
  BY <1>2, <1>3 DEF Wait
<1>5. oldest + Window = now + t
  BY LimiterAssumption
<1> HIDE DEF t
<1>6. QED
  BY <1>1, <1>2, <1>4, <1>5

(* Only a refusal promises, and a grant ends the promise.                  *)
LEMMA PromiseStep ==
    ASSUME LimiterInv, PromiseReaches, [Next]_vars
    PROVE  PromiseReaches'
<1>1. CASE Tick \/ (\E k \in Keys: RefuseFull(k)) \/ UNCHANGED vars
  BY <1>1 DEF Tick, RefuseFull, vars, PromiseReaches
<1>2. ASSUME NEW k \in Keys, Grant(k)
      PROVE  PromiseReaches'
  <2>1. /\ \A j \in Keys: j # k => grants'[j] = grants[j] /\ promise'[j] = promise[j]
        /\ promise'[k] = None
    BY <1>2 DEF Grant, LimiterInv, TypeOK
  <2>2. QED
    BY <2>1 DEF PromiseReaches
<1>3. ASSUME NEW k \in Keys, RefuseQuota(k)
      PROVE  PromiseReaches'
  <2> DEFINE q == Deque(k)
             g == grants[k]
  <2>1. /\ q \in Seq(Nat) /\ g \in Seq(Nat) /\ now \in Nat
        /\ InOrder(g) /\ EndsHistory(q, g)
    BY SweepKeeps, LimiterAssumption
    DEF LimiterInv, TypeOK, DequesEndTheHistory, InTable, Deque
  <2>2. PICK n \in 0..Len(q):
          /\ Popped(q, n)
          /\ Len(q) - n >= MaxEvents
          /\ promise' = [promise EXCEPT ![k] = now + Unit * Wait(q[n + 1])]
    BY <1>3 DEF RefuseQuota
  <2>3. grants' = grants
    BY <1>3 DEF RefuseQuota
  <2> HIDE DEF q, g
  <2>4. /\ n = 0 /\ Len(q) = MaxEvents /\ Len(g) >= MaxEvents /\ Len(g) \in Nat
        /\ Len(g) - MaxEvents + 1 \in 1..Len(g)
    BY <2>1, <2>2, LimiterAssumption DEF EndsHistory
  <2>5. q[1] = g[Len(g) - MaxEvents + 1]
    BY <2>1, <2>4, LimiterAssumption DEF EndsHistory
  <2>6. q[1] \in Nat /\ q[1] <= now
    BY <2>1, <2>4, <2>5 DEF InOrder
  <2>7. now - q[1] < Window
    BY <2>2, <2>4, LimiterAssumption DEF Popped
  <2>8. now + Unit * Wait(q[1]) >= q[1] + Window
    BY <2>1, <2>6, <2>7, WaitCovers
  <2>9. /\ promise'[k] = now + Unit * Wait(q[1])
        /\ \A j \in Keys: j # k => promise'[j] = promise[j]
    BY <2>2, <2>4 DEF LimiterInv, TypeOK
  <2>10. QED
    BY <2>3, <2>4, <2>5, <2>8, <2>9 DEF PromiseReaches, g
<1>4. QED
  BY <1>1, <1>2, <1>3 DEF Next

(* The while loop stops: there is a first event inside the window, or      *)
(* none.                                                                   *)
LEMMA LoopStops ==
    ASSUME now \in Nat, NEW q \in Seq(Nat)
    PROVE  \E n \in 0..Len(q): Popped(q, n)
<1> DEFINE Stops == {m \in 0..Len(q): m < Len(q) => now - q[m + 1] < Window}
<1>1. Len(q) \in Nat /\ Len(q) \in Stops /\ Stops \subseteq Nat
  OBVIOUS
<1>2. PICK n \in Stops: \A m \in Stops: ~(<<m, n>> \in OpToRel(<, Nat))
  <2> HIDE DEF Stops
  <2>1. Stops # {} /\ Stops \subseteq Nat
    BY <1>1
  <2>2. QED
    BY <2>1, NatLessThanWellFounded, WFMin
<1>3. \A m \in Stops: ~(m < n)
  BY <1>1, <1>2 DEF OpToRel
<1>4. ASSUME NEW i \in 1..n
      PROVE  now - q[i] >= Window
  <2>1. i - 1 \in 0..Len(q) /\ i - 1 < n /\ i - 1 < Len(q) /\ (i - 1) + 1 = i
    BY <1>1
  <2>2. i - 1 \notin Stops
    BY <1>3, <2>1
  <2>3. ~(now - q[i] < Window)
    BY <2>1, <2>2
  <2>4. q[i] \in Nat
    BY <2>1
  <2>5. QED
    BY <2>3, <2>4, LimiterAssumption
<1>5. QED
  BY <1>4 DEF Popped

-----------------------------------------------------------------------------
(* More theorems.                                                          *)

(* A deque is the end of its client's history, in order.                   *)
THEOREM DequesCorrect == Spec => []DequesEndTheHistory
<1>1. LimiterInv => DequesEndTheHistory
  BY DEF LimiterInv
<1>2. QED
  BY LimiterInvHolds, <1>1, PTL

(* The memory is bounded by max_keys times max_events, whoever calls.      *)
THEOREM MemoryCorrect == Spec => []MemoryBounded
<1>1. Init => TableBounded
  BY FS_EmptySet, LimiterAssumption DEF Init, TableBounded
<1>2. LimiterInv /\ TableBounded /\ [Next]_vars => TableBounded'
  BY TableStep
<1>3. LimiterInv /\ TableBounded => MemoryBounded
  BY DEF LimiterInv, TypeOK, DequesEndTheHistory, Remembered, EndsHistory,
     TableBounded, MemoryBounded
<1>4. QED
  BY LimiterInvHolds, <1>1, <1>2, <1>3, PTL DEF Spec

(* The clients let in within the window are those the sweep keeps.         *)
LEMMA BusyIsKept ==
    ASSUME LimiterInv, NEW j \in Keys
    PROVE  Busy(j) <=> j \in DOMAIN events /\ ~Stale(events[j])
<1> DEFINE q == Remembered(j)
           g == grants[j]
<1>1. q \in Seq(Nat) /\ g \in Seq(Nat) /\ now \in Nat /\ InOrder(g) /\ EndsHistory(q, g)
  BY DEF LimiterInv, TypeOK, DequesEndTheHistory, Remembered
<1>2. j \in DOMAIN events => q = events[j]
  BY DEF Remembered
<1>3. j \notin DOMAIN events => q = <<>>
  BY DEF Remembered
<1>4. Busy(j) <=> \E i \in 1..Len(g): now - g[i] < Window
  BY DEF Busy
<1> HIDE DEF q, g
<1>5. CASE Stale(q)
  <2>1. EndsHistory(<<>>, g)
    BY <1>1, <1>5, ForgetStale
  <2>2. \A i \in 1..Len(g): now - g[i] >= Window
    BY <1>1, <2>1 DEF EndsHistory
  <2>3. ~Busy(j)
    <3>1. \A i \in 1..Len(g): g[i] \in Nat
      BY <1>1
    <3>2. QED
      BY <1>1, <1>4, <2>2, <3>1, LimiterAssumption
  <2>4. QED
    BY <1>2, <1>5, <2>3
<1>6. CASE ~Stale(q)
  <2>1. q # <<>> /\ ~(now - q[Len(q)] >= Window)
    BY <1>6 DEF Stale
  <2>2. Len(q) \in 1..Len(q) /\ Len(g) \in 1..Len(g) /\ q[Len(q)] = g[Len(g)]
    BY <1>1, <2>1 DEF EndsHistory
  <2>3. g[Len(g)] \in Nat
    BY <1>1, <2>2
  <2>4. Busy(j)
    <3>1. now - g[Len(g)] < Window
      BY <1>1, <2>1, <2>2, <2>3, LimiterAssumption
    <3>2. QED
      BY <1>4, <2>2, <3>1
  <2>5. QED
    BY <1>2, <1>3, <1>6, <2>1, <2>4
<1>7. QED
  BY <1>5, <1>6

(* Nobody is refused for want of room but while the table is full of       *)
(* others, nor for its quota but while it is used up.                      *)
THEOREM NoRefusalWithoutCause == Spec => []RefusedForACause
<1>1. Init => TableBounded
  BY FS_EmptySet, LimiterAssumption DEF Init, TableBounded
<1>2. LimiterInv /\ TableBounded /\ [Next]_vars => TableBounded'
  BY TableStep
<1>3. ASSUME LimiterInv, TableBounded, NEW k \in Keys, NoRoom(k)
      PROVE  ~Busy(k) /\ Cardinality({j \in Keys: Busy(j)}) = MaxKeys
  <2>1. k \notin DOMAIN events /\ Full(events)
    BY <1>3 DEF NoRoom, Table
  <2>2. DOMAIN Table(k) = {j \in DOMAIN events: ~Stale(events[j])}
    BY <2>1 DEF Table
  <2>3. DOMAIN events \subseteq Keys
    BY <1>3 DEF LimiterInv, TypeOK
  <2>4. DOMAIN Table(k) = {j \in Keys: Busy(j)}
    BY <1>3, <2>2, <2>3, BusyIsKept
  <2>5. Cardinality(DOMAIN Table(k)) >= MaxKeys
    BY <1>3 DEF NoRoom, Full
  <2>6. Cardinality(DOMAIN Table(k)) \in Nat /\ Cardinality(DOMAIN Table(k)) <= MaxKeys
    BY <1>3, SweptIsSmaller
  <2>7. Cardinality(DOMAIN Table(k)) = MaxKeys
    BY <2>5, <2>6, LimiterAssumption
  <2>8. QED
    BY <1>3, <2>1, <2>4, <2>7, BusyIsKept
<1>4. ASSUME LimiterInv, NEW k \in Keys, ~NoRoom(k), OverQuota(k)
      PROVE  /\ Len(grants[k]) >= MaxEvents
             /\ now - grants[k][Len(grants[k]) - MaxEvents + 1] < Window
  <2> DEFINE q == Deque(k)
             g == grants[k]
  <2>1. q \in Seq(Nat) /\ g \in Seq(Nat) /\ now \in Nat /\ EndsHistory(q, g)
    <3>1. q = InTable(Table(k), k)
      BY DEF Deque, InTable
    <3>2. /\ \A j \in DOMAIN Table(k): Table(k)[j] \in Seq(Nat)
          /\ EndsHistory(InTable(Table(k), k), g)
      BY <1>4, SweepKeeps
    <3>3. q \in Seq(Nat)
      BY <3>1, <3>2 DEF InTable
    <3>4. g \in Seq(Nat) /\ now \in Nat
      BY <1>4, LimiterAssumption DEF LimiterInv, TypeOK
    <3>5. QED
      BY <3>1, <3>2, <3>3, <3>4
  <2>2. PICK n \in 0..Len(q): Popped(q, n) /\ Len(q) - n >= MaxEvents
    BY <1>4 DEF OverQuota
  <2> HIDE DEF q, g
  <2>3. Len(q) = MaxEvents /\ n = 0 /\ Len(g) >= MaxEvents
    BY <2>1, <2>2, LimiterAssumption DEF EndsHistory
  <2>4. now - q[1] < Window
    BY <2>2, <2>3, LimiterAssumption DEF Popped
  <2>5. q[1] = g[Len(g) - MaxEvents + 1]
    BY <2>1, <2>3, LimiterAssumption DEF EndsHistory
  <2>6. QED
    BY <2>3, <2>4, <2>5 DEF g
<1>5. LimiterInv /\ TableBounded => RefusedForACause
  BY <1>3, <1>4 DEF RefusedForACause
<1>6. QED
  BY LimiterInvHolds, <1>1, <1>2, <1>5, PTL DEF Spec

(* A client that waits as long as it was told finds its quota free again.  *)
THEOREM RetryAfterTrue == Spec => []RetryAfterIsEnough
<1>1. Init => PromiseReaches
  BY DEF Init, PromiseReaches
<1>2. LimiterInv /\ PromiseReaches /\ [Next]_vars => PromiseReaches'
  BY PromiseStep
<1>3. ASSUME LimiterInv, PromiseReaches, NEW k \in DOMAIN events,
             promise[k] # None, now >= promise[k]
      PROVE  \E n \in 0..Len(events[k]):
                 Popped(events[k], n) /\ Len(events[k]) - n < MaxEvents
  <2> DEFINE q == events[k]
             g == grants[k]
  <2>1. /\ k \in Keys /\ q \in Seq(Nat) /\ g \in Seq(Nat) /\ now \in Nat
        /\ EndsHistory(q, g) /\ promise[k] \in Nat
    BY <1>3, LimiterAssumption DEF LimiterInv, TypeOK, DequesEndTheHistory, Remembered
  <2>2. Len(g) >= MaxEvents /\ promise[k] >= g[Len(g) - MaxEvents + 1] + Window
    BY <1>3, <2>1 DEF PromiseReaches
  <2> HIDE DEF q, g
  <2>3. PICK n \in 0..Len(q): Popped(q, n)
    BY <2>1, LoopStops
  <2>4. CASE Len(q) < MaxEvents
    BY <2>1, <2>3, <2>4, LimiterAssumption DEF q
  <2>5. CASE Len(q) = MaxEvents
    <3>1. q[1] = g[Len(g) - MaxEvents + 1] /\ q[1] \in Nat
      BY <2>1, <2>2, <2>5, LimiterAssumption DEF EndsHistory
    <3>2. promise[k] >= q[1] + Window
      BY <2>2, <3>1
    <3>3. now - q[1] >= Window
      BY <1>3, <2>1, <3>1, <3>2, LimiterAssumption
    <3>4. n # 0
      BY <2>1, <2>3, <2>5, <3>1, <3>3, LimiterAssumption DEF Popped
    <3>5. QED
      BY <2>1, <2>3, <2>5, <3>4, LimiterAssumption DEF q
  <2>6. Len(q) \in Nat /\ Len(q) <= MaxEvents /\ MaxEvents \in Nat
    BY <2>1, LimiterAssumption DEF EndsHistory
  <2>7. Len(q) < MaxEvents \/ Len(q) = MaxEvents
    BY <2>6
  <2>8. QED
    BY <2>4, <2>5, <2>7
<1>4. LimiterInv /\ PromiseReaches => RetryAfterIsEnough
  BY <1>3 DEF RetryAfterIsEnough
<1>5. QED
  BY LimiterInvHolds, <1>1, <1>2, <1>4, PTL DEF Spec
=============================================================================
