---------------------------- MODULE RateLimiter ----------------------------
(***************************************************************************)
(* SlidingWindowRateLimiter: at most MaxEvents uploads per Window and per  *)
(* client, in a table of at most MaxKeys clients.  check() runs on the     *)
(* event loop, without yielding: one call is one step.  Time is counted in *)
(* ticks of 1/Unit second, because Retry-After is a whole number of        *)
(* seconds and the window is not measured in whole seconds.                *)
(***************************************************************************)
EXTENDS Integers, Sequences, FiniteSets

CONSTANTS
    Keys,           \* client addresses
    None,           \* no promise made
    MaxEvents,      \* max_events
    Window,         \* window_seconds, in ticks
    Unit,           \* ticks per second
    MaxKeys,        \* max_keys
    MaxNow          \* bound of the model: the last instant

ASSUME LimiterAssumption ==
    /\ {MaxEvents, Window, Unit, MaxKeys} \subseteq Nat \ {0}
    /\ MaxNow \in Nat
    /\ None \notin Nat

VARIABLES
    now,            \* the monotonic clock
    events,         \* _events: the deque of every client in the table
    grants,         \* history: the instants at which each client was let in
    promise         \* promise[k]: when the last refusal told k to come back

vars == <<now, events, grants, promise>>

Ceil(t) == (t + Unit - 1) \div Unit

TypeOK ==
    /\ now \in 0..MaxNow
    /\ DOMAIN events \subseteq Keys
    /\ events \in [DOMAIN events -> Seq(Nat)]
    /\ grants \in [Keys -> Seq(Nat)]
    /\ promise \in [Keys -> 0..(MaxNow + Unit * Ceil(Window)) \cup {None}]

Init ==
    /\ now = 0
    /\ events = [k \in {} |-> <<>>]
    /\ grants = [k \in Keys |-> <<>>]
    /\ promise = [k \in Keys |-> None]

-----------------------------------------------------------------------------
(* Plausible bugs.  No action uses these definitions.                      *)

(* A client is dropped once its FIRST event is old.                        *)
StaleByFirst(q) == q = <<>> \/ now - q[1] >= Window

(* Only clients that never got in are dropped.                             *)
StaleWhenEmpty(q) == q = <<>>

FullOffByOne(table) == Cardinality(DOMAIN table) > MaxKeys

(* int() instead of ceil(): the client comes back too early.               *)
WaitTruncated(oldest) ==
    LET seconds == (Window - (now - oldest)) \div Unit
    IN IF seconds < 1 THEN 1 ELSE seconds

(* int() + 1 instead of ceil().                                            *)
WaitRoundedUp(oldest) == (Window - (now - oldest)) \div Unit + 1

-----------------------------------------------------------------------------
(* What _drop_expired removes: a client with no event, or whose last event *)
(* has left the window.                                                    *)
Stale(q) == q = <<>> \/ now - q[Len(q)] >= Window

Full(table) == Cardinality(DOMAIN table) >= MaxKeys

(* The while loop pops n events: the oldest ones, up to the first that is  *)
(* still inside the window.                                                *)
Popped(q, n) ==
    /\ n \in 0..Len(q)
    /\ \A i \in 1..n: now - q[i] >= Window
    /\ n < Len(q) => now - q[n + 1] < Window

(* The seconds a client over its quota is told to wait, from its oldest    *)
(* event in the window: max(1, ceil(...)).                                 *)
Wait(oldest) ==
    LET seconds == Ceil(Window - (now - oldest))
    IN IF seconds < 1 THEN 1 ELSE seconds

-----------------------------------------------------------------------------
(* The table in which k is looked up: swept first when k is new and there  *)
(* is no room for it.                                                      *)
Table(k) ==
    IF k \notin DOMAIN events /\ Full(events)
    THEN [j \in {j \in DOMAIN events: ~Stale(events[j])} |-> events[j]]
    ELSE events

Deque(k) == IF k \in DOMAIN Table(k) THEN Table(k)[k] ELSE <<>>

Store(k, q) ==
    [j \in DOMAIN Table(k) \cup {k} |-> IF j = k THEN q ELSE Table(k)[j]]

NoRoom(k) == k \notin DOMAIN Table(k) /\ Full(Table(k))

(* "Rate limiter is full": refused for a window, although k has used       *)
(* nothing.                                                                *)
RefuseFull(k) ==
    /\ NoRoom(k)
    /\ events' = Table(k)
    /\ UNCHANGED <<now, grants, promise>>

(* "Too many uploads".  What was popped is gone, the refusal is not        *)
(* recorded as an event.                                                   *)
RefuseQuota(k) ==
    /\ ~NoRoom(k)
    /\ \E n \in 0..Len(Deque(k)):
        /\ Popped(Deque(k), n)
        /\ Len(Deque(k)) - n >= MaxEvents
        /\ events' = Store(k, SubSeq(Deque(k), n + 1, Len(Deque(k))))
        /\ promise' = [promise EXCEPT ![k] = now + Unit * Wait(Deque(k)[n + 1])]
    /\ UNCHANGED <<now, grants>>

Grant(k) ==
    /\ ~NoRoom(k)
    /\ \E n \in 0..Len(Deque(k)):
        /\ Popped(Deque(k), n)
        /\ Len(Deque(k)) - n < MaxEvents
        /\ events' = Store(k, Append(SubSeq(Deque(k), n + 1, Len(Deque(k))), now))
    /\ grants' = [grants EXCEPT ![k] = Append(@, now)]
    /\ promise' = [promise EXCEPT ![k] = None]
    /\ UNCHANGED now

Tick ==
    /\ now < MaxNow
    /\ now' = now + 1
    /\ UNCHANGED <<events, grants, promise>>

Next == Tick \/ \E k \in Keys: RefuseFull(k) \/ RefuseQuota(k) \/ Grant(k)

Spec == Init /\ [][Next]_vars

-----------------------------------------------------------------------------
(* The quota, stated on the history and not on the table: any MaxEvents+1  *)
(* uploads in a row of one client span at least one window, although the   *)
(* table forgets clients to make room for others.                          *)
Spaced(g) ==
    \A i \in 1..(Len(g) - MaxEvents): g[i + MaxEvents] - g[i] >= Window

QuotaPerWindow == \A k \in Keys: Spaced(grants[k])

(* Retry-After tells the truth: a client that waits as long as its last    *)
(* refusal said finds its quota free again, however often it or others     *)
(* were refused meanwhile.                                                 *)
RetryAfterIsEnough ==
    \A k \in Keys: (promise[k] # None /\ now >= promise[k] /\ k \in DOMAIN events) =>
        \E n \in 0..Len(events[k]): Popped(events[k], n) /\ Len(events[k]) - n < MaxEvents

(* A flood of clients cannot grow the memory: the table and every deque in *)
(* it stay within their caps.                                              *)
MemoryBounded ==
    /\ Cardinality(DOMAIN events) <= MaxKeys
    /\ \A k \in DOMAIN events: Len(events[k]) <= MaxEvents

(* Nobody is refused without a cause, stated on the history too: for its   *)
(* quota a client is refused only while its MaxEvents last uploads are all *)
(* in the window; for want of room, only while as many others as the table *)
(* holds were let in within the window.  So failing closed is temporary.   *)
Busy(k) == \E i \in 1..Len(grants[k]): now - grants[k][i] < Window

OverQuota(k) ==
    \E n \in 0..Len(Deque(k)): Popped(Deque(k), n) /\ Len(Deque(k)) - n >= MaxEvents

RefusedForACause ==
    \A k \in Keys:
        /\ NoRoom(k) => ~Busy(k) /\ Cardinality({j \in Keys: Busy(j)}) = MaxKeys
        /\ (~NoRoom(k) /\ OverQuota(k)) =>
               /\ Len(grants[k]) >= MaxEvents
               /\ now - grants[k][Len(grants[k]) - MaxEvents + 1] < Window

(* Why the quota holds: a deque is the end of its client's history, in     *)
(* order, and what it lost (the whole of it, for a client not in the       *)
(* table) has left the window.                                             *)
Remembered(k) == IF k \in DOMAIN events THEN events[k] ELSE <<>>

InOrder(g) ==
    /\ \A i \in 1..Len(g): g[i] <= now
    /\ \A i, j \in 1..Len(g): i <= j => g[i] <= g[j]

EndsHistory(q, g) ==
    /\ Len(q) <= Len(g) /\ Len(q) <= MaxEvents
    /\ \A i \in 1..Len(q): q[i] = g[Len(g) - Len(q) + i]
    /\ \A i \in 1..(Len(g) - Len(q)): now - g[i] >= Window

DequesEndTheHistory ==
    \A k \in Keys: InOrder(grants[k]) /\ EndsHistory(Remembered(k), grants[k])

LimiterInv == TypeOK /\ DequesEndTheHistory /\ QuotaPerWindow
=============================================================================
