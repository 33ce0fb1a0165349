------------------------- MODULE RateLimiterProofs -------------------------
(* The rate limiter's table, for any number of keys and requests: its types, *)
(* its capacity, the promise of a denial and what any stretch of time lets   *)
(* through.                                                                  *)
EXTENDS RateLimiter, FiniteSetTheorems, SequenceTheorems, TLAPS

USE LimiterAssumption

\* The entry Allow works on is well typed, and counts nothing past the limit.
LEMMA CurrentType ==
  ASSUME TypeOK, NEW k \in Keys, NEW now \in 0..MaxClock
  PROVE  Current(k, now) \in Entry
<1>1. CASE k \in Fresh(now) /\ now - entries[k].windowStart < Window
  <2>1. entries[k] \in Entry
    BY <1>1 DEF Fresh, TypeOK
  <2> QED BY <1>1, <2>1 DEF Current, Entry
<1>2. CASE ~(k \in Fresh(now) /\ now - entries[k].windowStart < Window)
  BY <1>2 DEF Current, Entry
<1> QED BY <1>1, <1>2

\* Putting an entry keeps the table well typed.
LEMMA PutType ==
  ASSUME TypeOK, NEW k \in Keys, NEW e \in Entry, NEW now
  PROVE  /\ DOMAIN Put(k, e, now) = Fresh(now) \cup {k}
         /\ DOMAIN Put(k, e, now) \subseteq Keys
         /\ \A x \in DOMAIN Put(k, e, now) : Put(k, e, now)[x] \in Entry
BY DEF Put, Fresh, TypeOK

\* A busy request has a key and a reading.
LEMMA PendingType ==
  ASSUME TypeOK, NEW r \in Requests, pending[r] # Idle
  PROVE  pending[r].key \in Keys /\ pending[r].now \in 0..MaxClock
BY DEF TypeOK

\* Retry-After is at least one second, and reaches the end of the window.
LEMMA RetryType ==
  ASSUME NEW left \in Int
  PROVE  /\ Max({MinRetry, left}) \in Nat
         /\ Max({MinRetry, left}) >= MinRetry /\ Max({MinRetry, left}) >= left
<1>1. CASE MinRetry >= left
  <2>1. \E x \in {MinRetry, left} : \A y \in {MinRetry, left} : x >= y
    BY <1>1
  <2> QED BY <2>1 DEF Max
<1>2. CASE ~(MinRetry >= left)
  <2>1. left >= MinRetry
    BY <1>2
  <2>2. \E x \in {MinRetry, left} : \A y \in {MinRetry, left} : x >= y
    BY <2>1
  <2> QED BY <2>2 DEF Max
<1> QED BY <1>1, <1>2

\* A request let through is counted once more, within the limit.
LEMMA GrantType ==
  ASSUME TypeOK, NEW r \in Requests, Grant(r)
  PROVE  LET c == Current(pending[r].key, pending[r].now)
         IN  /\ [c EXCEPT !.count = @ + 1] \in Entry
             /\ [at |-> pending[r].now, window |-> c.windowStart] \in Pass
<1> DEFINE c == Current(pending[r].key, pending[r].now)
           now == pending[r].now
<1>1. c \in Entry /\ c.count < Limit /\ now \in 0..MaxClock
  BY PendingType, CurrentType DEF Grant, Spare
<1> HIDE DEF c, now
<1>2. c.count + 1 \in 0..Limit /\ c = [windowStart |-> c.windowStart, lastSeen |-> c.lastSeen, count |-> c.count]
  BY <1>1 DEF Entry
<1>3. [c EXCEPT !.count = @ + 1] = [windowStart |-> c.windowStart, lastSeen |-> c.lastSeen, count |-> c.count + 1]
  BY <1>2
<1>4. [c EXCEPT !.count = @ + 1] \in Entry
  BY <1>1, <1>2, <1>3 DEF Entry
<1>5. [at |-> now, window |-> c.windowStart] \in Pass
  BY <1>1 DEF Entry, Pass
<1> QED BY <1>4, <1>5 DEF c, now

\* The limiter starts well typed.
LEMMA TypeInit == Init => TypeOK
<1> SUFFICES ASSUME Init PROVE TypeOK
  OBVIOUS
<1>1. <<>> \in Seq(Pass)
  BY EmptySeq
<1> QED BY <1>1 DEF Init, TypeOK

\* Every step of the limiter keeps its types.
LEMMA TypeStep == TypeOK /\ [Next]_vars => TypeOK'
<1> SUFFICES ASSUME TypeOK, [Next]_vars PROVE TypeOK'
  OBVIOUS
<1>1. CASE Tick
  <2>1. clock' \in 0..MaxClock
    BY <1>1 DEF Tick, TypeOK
  <2> QED BY <1>1, <2>1 DEF Tick, TypeOK
<1>2. ASSUME NEW r \in Requests, NEW k \in Keys, Arrive(r, k) PROVE TypeOK'
  BY <1>2 DEF Arrive, TypeOK
<1>3. ASSUME NEW r \in Requests, DenyFull(r) PROVE TypeOK'
  BY <1>3 DEF DenyFull, TypeOK, Fresh
<1>4. ASSUME NEW r \in Requests, DenyLimit(r) PROVE TypeOK'
  <2> DEFINE k == pending[r].key
             now == pending[r].now
             e == Current(k, now)
             retry == Max({MinRetry, Window - (now - e.windowStart)})
  <2>1. k \in Keys /\ now \in 0..MaxClock
    BY <1>4, PendingType DEF DenyLimit
  <2>2. e \in Entry
    BY <2>1, CurrentType
  <2>3. now + retry \in Nat
    <3>1. Window - (now - e.windowStart) \in Int
      BY <2>1, <2>2 DEF Entry
    <3>2. retry \in Nat
      BY <3>1, RetryType
    <3> HIDE DEF retry, now
    <3> QED BY <3>2, <2>1
  <2>4. entries' = Put(k, e, now) /\ promise' = [promise EXCEPT ![k] = now + retry]
        /\ pending' = [pending EXCEPT ![r] = Idle] /\ UNCHANGED <<clock, granted>>
    BY <1>4 DEF DenyLimit
  <2>5. DOMAIN entries' \subseteq Keys /\ \A x \in DOMAIN entries' : entries'[x] \in Entry
    BY <2>1, <2>2, <2>4, PutType
  <2> HIDE DEF k, now, e, retry
  <2> QED BY <2>1, <2>3, <2>4, <2>5 DEF TypeOK
<1>5. ASSUME NEW r \in Requests, Grant(r) PROVE TypeOK'
  <2> DEFINE k == pending[r].key
             now == pending[r].now
             e == [Current(k, now) EXCEPT !.count = @ + 1]
             pass == [at |-> now, window |-> Current(k, now).windowStart]
  <2>1. k \in Keys /\ now \in 0..MaxClock
    BY <1>5, PendingType DEF Grant
  <2>2. e \in Entry /\ pass \in Pass
    BY <1>5, GrantType
  <2>3. entries' = Put(k, e, now) /\ granted' = [granted EXCEPT ![k] = Append(@, pass)]
        /\ promise' = [promise EXCEPT ![k] = 0]
        /\ pending' = [pending EXCEPT ![r] = Idle] /\ UNCHANGED clock
    BY <1>5 DEF Grant
  <2>4. DOMAIN entries' \subseteq Keys /\ \A x \in DOMAIN entries' : entries'[x] \in Entry
    BY <2>1, <2>2, <2>3, PutType
  <2> HIDE DEF k, now, e, pass
  <2>5. granted' \in [Keys -> Seq(Pass)]
    BY <2>1, <2>2, <2>3 DEF TypeOK
  <2> QED BY <2>1, <2>3, <2>4, <2>5 DEF TypeOK
<1>6. CASE UNCHANGED vars
  BY <1>6 DEF TypeOK, vars
<1> QED BY <1>1, <1>2, <1>3, <1>4, <1>5, <1>6 DEF Next, Answer

\* The variables always have their types, whatever the keys, the limits and
\* the number of requests in flight.
THEOREM LimiterTypeCorrect == Spec => []TypeOK
<1> QED BY TypeInit, TypeStep, PTL DEF Spec

\* The limiter's table is a finite set of keys, and so is the part that stays.
LEMMA TableFinite ==
  ASSUME TypeOK, NEW now
  PROVE  /\ IsFiniteSet(DOMAIN entries)
         /\ IsFiniteSet(Fresh(now)) /\ Cardinality(Fresh(now)) \in Nat
         /\ Cardinality(Fresh(now)) <= Cardinality(DOMAIN entries)
<1>1. IsFiniteSet(DOMAIN entries)
  BY FS_Subset DEF TypeOK
<1>2. Fresh(now) \subseteq DOMAIN entries
  BY DEF Fresh
<1> QED BY <1>1, <1>2, FS_Subset, FS_CardinalityType

\* A request that does not find the table full leaves it within its capacity:
\* its key has an entry, or there is room for one more.
LEMMA PutWithinCapacity ==
  ASSUME TypeOK, CapacityBounded, NEW k \in Keys, NEW e \in Entry, NEW now,
         ~Full(k, now)
  PROVE  Cardinality(DOMAIN Put(k, e, now)) <= Capacity
<1>1. DOMAIN Put(k, e, now) = Fresh(now) \cup {k}
  BY PutType
<1>2. IsFiniteSet(Fresh(now)) /\ Cardinality(Fresh(now)) \in Nat
      /\ Cardinality(Fresh(now)) <= Capacity
  <2>1. Cardinality(DOMAIN entries) \in Nat
    BY TableFinite, FS_CardinalityType
  <2> QED BY <2>1, TableFinite DEF CapacityBounded
<1>3. CASE k \in Fresh(now)
  <2>1. Fresh(now) \cup {k} = Fresh(now)
    BY <1>3
  <2> QED BY <1>1, <1>2, <2>1
<1>4. CASE k \notin Fresh(now)
  <2>1. Cardinality(Fresh(now) \cup {k}) = Cardinality(Fresh(now)) + 1
    BY <1>2, <1>4, FS_AddElement
  <2>2. Cardinality(Fresh(now)) < Capacity
    BY <1>2, <1>4 DEF Full
  <2> QED BY <1>1, <1>2, <2>1, <2>2
<1> QED BY <1>3, <1>4

\* Every step of the limiter keeps the table within its capacity.
LEMMA CapacityStep == TypeOK /\ CapacityBounded /\ [Next]_vars => CapacityBounded'
<1> SUFFICES ASSUME TypeOK, CapacityBounded, [Next]_vars PROVE CapacityBounded'
  OBVIOUS
<1>1. CASE UNCHANGED entries
  BY <1>1 DEF CapacityBounded
<1>2. ASSUME NEW r \in Requests, DenyFull(r) PROVE CapacityBounded'
  <2>1. DOMAIN entries' = Fresh(pending[r].now)
    BY <1>2 DEF DenyFull
  <2>2. Cardinality(DOMAIN entries) \in Nat
    BY TableFinite, FS_CardinalityType
  <2> QED BY <2>1, <2>2, TableFinite DEF CapacityBounded
<1>3. ASSUME NEW r \in Requests, DenyLimit(r) PROVE CapacityBounded'
  <2> DEFINE k == pending[r].key
             now == pending[r].now
             e == Current(k, now)
  <2>1. k \in Keys /\ e \in Entry /\ ~Full(k, now) /\ entries' = Put(k, e, now)
    BY <1>3, PendingType, CurrentType DEF DenyLimit
  <2> QED BY <2>1, PutWithinCapacity DEF CapacityBounded
<1>4. ASSUME NEW r \in Requests, Grant(r) PROVE CapacityBounded'
  <2> DEFINE k == pending[r].key
             now == pending[r].now
             e == [Current(k, now) EXCEPT !.count = @ + 1]
  <2>1. k \in Keys /\ now \in 0..MaxClock
    BY <1>4, PendingType DEF Grant
  <2>2. e \in Entry
    BY <1>4, GrantType
  <2>3. ~Full(k, now) /\ entries' = Put(k, e, now)
    BY <1>4 DEF Grant
  <2> QED BY <2>1, <2>2, <2>3, PutWithinCapacity DEF CapacityBounded
<1> QED BY <1>1, <1>2, <1>3, <1>4 DEF Next, Answer, Tick, Arrive, vars

\* The table never holds more entries than its capacity, whatever keys the
\* callers send and however late their readings are.
THEOREM LimiterCapacityBounded == Spec => []CapacityBounded
<1>1. Init => CapacityBounded
  BY FS_EmptySet DEF Init, CapacityBounded
<1> QED BY <1>1, TypeInit, TypeStep, CapacityStep, PTL DEF Spec

\* A key that was denied was told to come back when its window is over, or later.
PromiseInv ==
    \A k \in DOMAIN entries :
        promise[k] # 0 => promise[k] >= entries[k].windowStart + Window

\* A window that is over is replaced by one with room in it.
LEMMA OverMeansSpare ==
  ASSUME TypeOK, PromiseInv, NEW k \in Keys, NEW now \in 0..MaxClock,
         promise[k] # 0, now >= promise[k]
  PROVE  Spare(Current(k, now))
<1>1. ASSUME k \in Fresh(now) PROVE ~(now - entries[k].windowStart < Window)
  <2>1. k \in DOMAIN entries /\ entries[k].windowStart \in Nat
    BY <1>1 DEF Fresh, TypeOK, Entry
  <2>2. promise[k] >= entries[k].windowStart + Window /\ promise[k] \in Nat
    BY <2>1 DEF PromiseInv, TypeOK
  <2> QED BY <2>1, <2>2 DEF LimiterAssumption
<1>2. Current(k, now).count = 0
  BY <1>1 DEF Current
<1> QED BY <1>2 DEF Spare, LimiterAssumption

\* Entries that are not the key's own are kept as they are or deleted.
LEMMA PromiseOthers ==
  ASSUME TypeOK, PromiseInv, NEW k \in Keys, NEW e \in Entry, NEW now, NEW p,
         p # 0 => p >= e.windowStart + Window,
         entries' = Put(k, e, now), promise' = [promise EXCEPT ![k] = p]
  PROVE  PromiseInv'
<1> SUFFICES ASSUME NEW x \in DOMAIN entries', promise'[x] # 0
             PROVE  promise'[x] >= entries'[x].windowStart + Window
  BY DEF PromiseInv
<1>1. x \in Fresh(now) \cup {k} /\ x \in Keys
  BY PutType
<1>2. CASE x = k
  <2>1. entries'[x] = e /\ promise'[x] = p
    BY <1>1, <1>2 DEF Put, TypeOK
  <2> QED BY <2>1
<1>3. CASE x # k
  <2>1. x \in DOMAIN entries /\ entries'[x] = entries[x] /\ promise'[x] = promise[x]
    BY <1>1, <1>3 DEF Put, Fresh, TypeOK
  <2> QED BY <2>1 DEF PromiseInv
<1> QED BY <1>2, <1>3

\* Every step keeps the promises made.
LEMMA PromiseStep == TypeOK /\ PromiseInv /\ [Next]_vars => PromiseInv'
<1> SUFFICES ASSUME TypeOK, PromiseInv, [Next]_vars PROVE PromiseInv'
  OBVIOUS
<1>1. CASE UNCHANGED <<entries, promise>>
  BY <1>1 DEF PromiseInv
<1>2. ASSUME NEW r \in Requests, DenyFull(r) PROVE PromiseInv'
  <2>1. /\ entries' = [x \in Fresh(pending[r].now) |-> entries[x]] /\ promise' = promise
        /\ Fresh(pending[r].now) \subseteq DOMAIN entries
    BY <1>2 DEF DenyFull, Fresh
  <2> QED BY <2>1 DEF PromiseInv
<1>3. ASSUME NEW r \in Requests, DenyLimit(r) PROVE PromiseInv'
  <2> DEFINE k == pending[r].key
             now == pending[r].now
             e == Current(k, now)
             left == Window - (now - e.windowStart)
             p == now + Max({MinRetry, left})
  <2>1. /\ k \in Keys /\ now \in 0..MaxClock /\ e \in Entry
        /\ entries' = Put(k, e, now) /\ promise' = [promise EXCEPT ![k] = p]
    BY <1>3, PendingType, CurrentType DEF DenyLimit
  <2>2. e.windowStart \in Nat /\ left \in Int
    BY <2>1 DEF Entry, LimiterAssumption
  <2>3. Max({MinRetry, left}) \in Nat /\ Max({MinRetry, left}) >= left
    BY <2>2, RetryType
  <2>4. p >= e.windowStart + Window
    <3> HIDE DEF e, now
    <3>1. Window \in Nat
      BY DEF LimiterAssumption
    <3> QED BY <2>1, <2>2, <2>3, <3>1
  <2> HIDE DEF p, e, k, now
  <2> QED BY <2>1, <2>4, PromiseOthers
<1>4. ASSUME NEW r \in Requests, Grant(r) PROVE PromiseInv'
  <2> DEFINE k == pending[r].key
             now == pending[r].now
             e == [Current(k, now) EXCEPT !.count = @ + 1]
  <2>1. k \in Keys /\ now \in 0..MaxClock
    BY <1>4, PendingType DEF Grant
  <2>2. e \in Entry
    BY <1>4, GrantType
  <2>3. entries' = Put(k, e, now) /\ promise' = [promise EXCEPT ![k] = 0]
    BY <1>4 DEF Grant
  <2> HIDE DEF e, k, now
  <2> QED BY <2>1, <2>2, <2>3, PromiseOthers
<1> QED BY <1>1, <1>2, <1>3, <1>4 DEF Next, Answer, Tick, Arrive, vars

\* A key that comes back when Retry-After is over, and finds room in the
\* table, is let through: denied requests do not push its window ahead.
THEOREM LimiterRetryHonoured == Spec => RetryHonoured
<1> DEFINE Honours ==
        \A r \in Requests :
          (pending[r] # Idle /\ pending'[r] = Idle) =>
             LET k == pending[r].key  now == pending[r].now IN
             (promise[k] # 0 /\ now >= promise[k] /\ ~Full(k, now)) => promise'[k] = 0
<1>1. Init => PromiseInv
  BY DEF Init, PromiseInv
<1>2. TypeOK /\ PromiseInv /\ [Next]_vars => [Honours]_vars
  <2> SUFFICES ASSUME TypeOK, PromiseInv, Next, NEW r \in Requests,
                      pending[r] # Idle, pending'[r] = Idle,
                      promise[pending[r].key] # 0, pending[r].now >= promise[pending[r].key],
                      ~Full(pending[r].key, pending[r].now)
               PROVE  promise'[pending[r].key] = 0
    OBVIOUS
  <2>1. pending[r].key \in Keys /\ pending[r].now \in 0..MaxClock
    BY PendingType
  <2>2. Spare(Current(pending[r].key, pending[r].now))
    BY <2>1, OverMeansSpare
  <2>3. ~Tick /\ \A q \in Requests, k \in Keys : ~Arrive(q, k)
    <3>1. ASSUME NEW q \in Requests, NEW k \in Keys, Arrive(q, k) PROVE FALSE
      <4>1. pending' = [pending EXCEPT ![q] = [busy |-> TRUE, key |-> k, now |-> clock]]
            /\ pending[q] = Idle
        BY <3>1 DEF Arrive
      <4>2. q # r /\ pending'[r] = pending[r]
        BY <4>1 DEF TypeOK
      <4> QED BY <4>2
    <3> QED BY <3>1 DEF Tick
  <2>4. PICK q \in Requests : Answer(q)
    BY <2>3 DEF Next
  <2>5. q = r
    <3>1. pending' = [pending EXCEPT ![q] = Idle]
      BY <2>4 DEF Answer, DenyFull, DenyLimit, Grant
    <3> QED BY <3>1 DEF TypeOK
  <2>6. Grant(r)
    BY <2>2, <2>4, <2>5 DEF Answer, DenyFull, DenyLimit
  <2> QED BY <2>1, <2>6 DEF Grant, TypeOK
<1>3. Spec => [][Honours]_vars
  <2> HIDE DEF Honours
  <2> QED BY TypeInit, TypeStep, PromiseStep, <1>1, <1>2, PTL DEF Spec
<1> QED BY <1>3 DEF RetryHonoured
-----------------------------------------------------------------------------
(* What the windows a key's requests were counted in have to do with each other, *)
(* and what that leaves of them in any stretch of time.                          *)

Places(g, w) == {i \in DOMAIN g : g[i].window = w}

\* Readings reach back from the start of their window by MaxLag; two windows are a
\* window apart; the first request of each opened it, with its own reading; and none
\* counts past the limit.
Windows(g) ==
    /\ \A i \in DOMAIN g : g[i].window - MaxLag <= g[i].at /\ g[i].at < g[i].window + Window
    /\ \A i, j \in DOMAIN g : g[i].window < g[j].window => g[i].window + Window <= g[j].window
    /\ \A i \in DOMAIN g : \E j \in DOMAIN g : g[j].window = g[i].window /\ g[j].at = g[i].window
    /\ \A w \in 0..MaxClock : Cardinality(Places(g, w)) <= Limit

\* The requests of a key are finitely many, and of naturals.
LEMMA PassTypes ==
  ASSUME NEW g \in Seq(Pass), NEW S \in SUBSET DOMAIN g
  PROVE  /\ IsFiniteSet(S) /\ Cardinality(S) \in Nat
         /\ \A i \in DOMAIN g : /\ g[i].at \in 0..MaxClock /\ g[i].window \in 0..MaxClock
                               /\ g[i].at \in Nat /\ g[i].window \in Nat
<1>1. DOMAIN g = 1..Len(g) /\ Len(g) \in Nat
  OBVIOUS
<1>2. IsFiniteSet(S)
  <2>1. IsFiniteSet(1..Len(g))
    BY <1>1, FS_Interval
  <2> QED BY <1>1, <2>1, FS_Subset
<1>3. \A i \in DOMAIN g : g[i] \in Pass
  OBVIOUS
<1> QED BY <1>2, <1>3, FS_CardinalityType DEF Pass

\* Requests whose windows start within the length of one are of one window: at most the
\* limit, and less when the one that opened it is not among them.
LEMMA OneWindow ==
  ASSUME NEW g \in Seq(Pass), Windows(g), NEW S \in SUBSET DOMAIN g, NEW low \in Int,
         \A i \in S : low <= g[i].window /\ g[i].window < low + Window
  PROVE  /\ Cardinality(S) \in Nat /\ Cardinality(S) <= Limit
         /\ (\A i \in S : g[i].at # g[i].window) => Cardinality(S) <= Limit - 1
<1>1. CASE S = {}
  BY <1>1, FS_EmptySet
<1>2. CASE S # {}
  <2>1. PICK i \in S : TRUE
    BY <1>2
  <2> DEFINE w == g[i].window
             all == Places(g, w)
  <2>2. w \in 0..MaxClock
    BY PassTypes
  <2>3. all \in SUBSET DOMAIN g
    BY DEF Places
  <2>4. IsFiniteSet(all) /\ Cardinality(all) \in Nat /\ Cardinality(all) <= Limit
    BY <2>2, <2>3, PassTypes DEF Windows
  <2>5. S \subseteq all
    <3> SUFFICES ASSUME NEW j \in S PROVE g[j].window = w
      BY DEF Places
    <3> DEFINE v == g[j].window
    <3>1. v \in Nat /\ w \in Nat
      BY PassTypes
    <3>2. (v < w => v + Window <= w) /\ (w < v => w + Window <= v)
      BY DEF Windows
    <3>3. low <= v /\ v < low + Window /\ low <= w /\ w < low + Window
      OBVIOUS
    <3> HIDE DEF v, w
    <3>4. v = w
      BY <3>1, <3>2, <3>3
    <3> QED BY <3>4 DEF v
  <2>6. Cardinality(S) \in Nat /\ Cardinality(S) <= Cardinality(all)
    BY <2>4, <2>5, FS_Subset, FS_CardinalityType
  <2>7. ASSUME \A k \in S : g[k].at # g[k].window
        PROVE  Cardinality(S) <= Limit - 1
    <3>1. PICK j \in DOMAIN g : g[j].window = w /\ g[j].at = w
      BY DEF Windows
    <3>2. j \in all /\ j \notin S
      BY <2>7, <3>1 DEF Places
    <3>3. S # all
      BY <3>2
    <3>4. Cardinality(S) < Cardinality(all)
      <4> HIDE DEF all
      <4>1. Cardinality(S) = Cardinality(all) => S = all
        BY <2>4, <2>5, FS_Subset
      <4> QED BY <2>4, <2>6, <3>3, <4>1
    <3> HIDE DEF all
    <3> QED BY <2>4, <2>6, <3>4
  <2> QED BY <2>4, <2>6, <2>7
<1> QED BY <1>1, <1>2

\* A union has at most as many elements as its parts.
LEMMA AtMostBoth ==
  ASSUME NEW S, NEW T, IsFiniteSet(S), IsFiniteSet(T)
  PROVE  /\ IsFiniteSet(S \cup T) /\ Cardinality(S \cup T) \in Nat
         /\ Cardinality(S \cup T) <= Cardinality(S) + Cardinality(T)
<1>1. Cardinality(S \cup T) = Cardinality(S) + Cardinality(T) - Cardinality(S \cap T)
  BY FS_Union
<1>2. IsFiniteSet(S \cup T) /\ IsFiniteSet(S \cap T)
  BY FS_Union, FS_Intersection
<1>3. /\ Cardinality(S) \in Nat /\ Cardinality(T) \in Nat
      /\ Cardinality(S \cap T) \in Nat /\ Cardinality(S \cup T) \in Nat
  BY <1>2, FS_CardinalityType
<1> QED BY <1>1, <1>2, <1>3

\* In a stretch as long as a window: of the windows that start in it, of the one before
\* and of the one after, which a late reading may be of.
LEMMA BurstOfWindows ==
  ASSUME NEW g \in Seq(Pass), Windows(g), NEW t \in 0..MaxClock
  PROVE  Cardinality({i \in DOMAIN g : g[i].at \in t..(t + Window - 1)})
           <= IF MaxLag = 0 THEN 2 * Limit - 1 ELSE 3 * Limit - 2
<1> DEFINE B == {i \in DOMAIN g : g[i].at \in t..(t + Window - 1)}
           before == {i \in B : g[i].window < t}
           within == {i \in B : g[i].window >= t /\ g[i].window < t + Window}
           after == {i \in B : g[i].window >= t + Window}
<1>1. \A i \in DOMAIN g : /\ g[i].at \in Nat /\ g[i].window \in Nat
                         /\ g[i].window - MaxLag <= g[i].at /\ g[i].at < g[i].window + Window
  BY PassTypes DEF Windows
<1>2. /\ B \in SUBSET DOMAIN g /\ before \in SUBSET DOMAIN g
      /\ within \in SUBSET DOMAIN g /\ after \in SUBSET DOMAIN g
  OBVIOUS
<1>3. \A i \in B : t <= g[i].at /\ g[i].at < t + Window
  BY <1>1
<1>4. Cardinality(before) \in Nat /\ Cardinality(before) <= Limit - 1
  <2> DEFINE low == t - Window + 1
  <2>1. \A i \in before : /\ low <= g[i].window /\ g[i].window < low + Window
                          /\ g[i].at # g[i].window
    <3> SUFFICES ASSUME NEW i \in before
                 PROVE  /\ low <= g[i].window /\ g[i].window < low + Window
                        /\ g[i].at # g[i].window
      OBVIOUS
    <3> DEFINE w == g[i].window
               at == g[i].at
    <3>1. w \in Nat /\ at \in Nat /\ at < w + Window /\ t <= at /\ w < t
      BY <1>1, <1>3
    <3> HIDE DEF w, at
    <3>2. low <= w /\ w < low + Window /\ at # w
      BY <3>1
    <3> QED BY <3>2 DEF w, at
  <2>2. low \in Int
    OBVIOUS
  <2> HIDE DEF before, low
  <2> QED BY <1>2, <2>1, <2>2, OneWindow
<1>5. Cardinality(within) \in Nat /\ Cardinality(within) <= Limit
  <2>1. t \in Int /\ \A i \in within : t <= g[i].window /\ g[i].window < t + Window
    BY <1>1
  <2> HIDE DEF within
  <2> QED BY <1>2, <2>1, OneWindow
<1>6. /\ Cardinality(after) \in Nat
      /\ Cardinality(after) <= IF MaxLag = 0 THEN 0 ELSE Limit - 1
  <2> DEFINE low == t + Window
  <2>1. \A i \in after : /\ low <= g[i].window /\ g[i].window < low + Window
                         /\ g[i].at # g[i].window /\ MaxLag # 0
    <3> SUFFICES ASSUME NEW i \in after
                 PROVE  /\ low <= g[i].window /\ g[i].window < low + Window
                        /\ g[i].at # g[i].window /\ MaxLag # 0
      OBVIOUS
    <3> DEFINE w == g[i].window
               at == g[i].at
    <3>1. w \in Nat /\ at \in Nat /\ w - MaxLag <= at /\ at < t + Window /\ t + Window <= w
      BY <1>1, <1>3
    <3> HIDE DEF w, at
    <3>2. low <= w /\ w < low + Window /\ at # w /\ MaxLag # 0
      BY <3>1
    <3> QED BY <3>2 DEF w, at
  <2>2. low \in Int
    OBVIOUS
  <2> HIDE DEF after, low
  <2>3. Cardinality(after) \in Nat /\ Cardinality(after) <= Limit - 1
    BY <1>2, <2>1, <2>2, OneWindow
  <2>4. MaxLag = 0 => after = {}
    BY <2>1
  <2>5. after = {} => Cardinality(after) = 0
    BY FS_EmptySet
  <2> QED BY <2>3, <2>4, <2>5
<1>7. B = (before \cup within) \cup after
  BY <1>1
<1> HIDE DEF B, before, within, after
<1>8. Cardinality(before \cup within) \in Nat
      /\ Cardinality(before \cup within) <= Cardinality(before) + Cardinality(within)
      /\ IsFiniteSet(before \cup within)
  BY <1>2, AtMostBoth, PassTypes
<1>9. Cardinality(B) \in Nat
      /\ Cardinality(B) <= Cardinality(before \cup within) + Cardinality(after)
  BY <1>2, <1>7, <1>8, AtMostBoth, PassTypes
<1>10. Cardinality(B) <= IF MaxLag = 0 THEN 2 * Limit - 1 ELSE 3 * Limit - 2
  BY <1>4, <1>5, <1>6, <1>8, <1>9
<1> QED BY <1>10 DEF B
\* One more request keeps the windows apart when it is of the last window, which has room,
\* or opens one of its own after the others are over.
LEMMA JoinWindow ==
  ASSUME NEW g \in Seq(Pass), Windows(g), NEW x \in Pass,
         x.window - MaxLag <= x.at, x.at < x.window + Window,
         \/ Cardinality(Places(g, x.window)) \in 1..(Limit - 1)
         \/ x.at = x.window /\ \A i \in DOMAIN g : g[i].window + Window <= x.window
  PROVE  /\ Windows(Append(g, x))
         /\ Cardinality(Places(Append(g, x), x.window)) = Cardinality(Places(g, x.window)) + 1
         /\ \A i \in DOMAIN Append(g, x) : \/ Append(g, x)[i] = x
                                         \/ \E j \in DOMAIN g : Append(g, x)[i] = g[j]
<1> DEFINE h == Append(g, x)
           n == Len(g)
           w == x.window
<1>1. /\ n \in Nat /\ DOMAIN g = 1..n /\ DOMAIN h = (DOMAIN g) \cup {n + 1}
      /\ n + 1 \notin DOMAIN g /\ h[n + 1] = x
      /\ \A i \in DOMAIN g : h[i] = g[i]
  OBVIOUS
<1>2. x.at \in Nat /\ w \in Nat /\ w \in 0..MaxClock
  BY DEF Pass
<1>3. \A i \in DOMAIN g : g[i].at \in Nat /\ g[i].window \in Nat /\ g[i].window \in 0..MaxClock
  BY PassTypes
<1>4. /\ \A i \in DOMAIN g : g[i].window - MaxLag <= g[i].at /\ g[i].at < g[i].window + Window
      /\ \A i, j \in DOMAIN g : g[i].window < g[j].window => g[i].window + Window <= g[j].window
      /\ \A i \in DOMAIN g :
            \E j \in DOMAIN g : g[j].window = g[i].window /\ g[j].at = g[i].window
      /\ \A v \in 0..MaxClock : Cardinality(Places(g, v)) <= Limit
  BY DEF Windows
<1>5. \A v \in 0..MaxClock : IsFiniteSet(Places(g, v)) /\ Cardinality(Places(g, v)) \in Nat
  <2>1. \A v : Places(g, v) \in SUBSET DOMAIN g
    BY DEF Places
  <2> QED BY <2>1, PassTypes
<1> HIDE DEF h, n, w
<1>6. Places(h, w) = Places(g, w) \cup {n + 1} /\ n + 1 \notin Places(g, w)
  BY <1>1 DEF Places, w
<1>7. Cardinality(Places(h, w)) = Cardinality(Places(g, w)) + 1
  BY <1>2, <1>5, <1>6, FS_AddElement
<1>8. \A v \in 0..MaxClock : v # w => Places(h, v) = Places(g, v)
  BY <1>1 DEF Places, w
<1>9. \/ Cardinality(Places(g, w)) \in 1..(Limit - 1) /\ \E i \in DOMAIN g : g[i].window = w
      \/ /\ x.at = w /\ Cardinality(Places(g, w)) = 0
         /\ \A i \in DOMAIN g : g[i].window + Window <= w
  <2>1. CASE Cardinality(Places(g, w)) \in 1..(Limit - 1)
    <3>1. Places(g, w) # {}
      <4>1. Places(g, w) = {} => Cardinality(Places(g, w)) = 0
        BY FS_EmptySet
      <4> QED BY <2>1, <4>1
    <3> QED BY <2>1, <3>1 DEF Places
  <2>2. CASE x.at = x.window /\ \A i \in DOMAIN g : g[i].window + Window <= x.window
    <3>1. Places(g, w) = {}
      BY <1>2, <1>3, <2>2 DEF Places, w
    <3>2. Cardinality(Places(g, w)) = 0
      BY <3>1, FS_EmptySet
    <3> QED BY <2>2, <3>2 DEF w
  <2> QED BY <2>1, <2>2 DEF w
<1>10. \A i \in DOMAIN h : h[i].window - MaxLag <= h[i].at /\ h[i].at < h[i].window + Window
  BY <1>1, <1>4 DEF w
<1>11. \A i, j \in DOMAIN h : h[i].window < h[j].window => h[i].window + Window <= h[j].window
  <2> SUFFICES ASSUME NEW i \in DOMAIN h, NEW j \in DOMAIN h, h[i].window < h[j].window
               PROVE  h[i].window + Window <= h[j].window
    OBVIOUS
  <2>1. h[n + 1].window = w
    BY <1>1 DEF w
  <2>2. CASE i \in DOMAIN g /\ j \in DOMAIN g
    BY <1>1, <1>4, <2>2
  <2>3. CASE i \in DOMAIN g /\ j = n + 1
    <3>1. h[i] = g[i] /\ g[i].window < w
      BY <1>1, <2>1, <2>3
    <3> QED BY <1>4, <1>9, <2>1, <2>3, <3>1
  <2>4. CASE i = n + 1 /\ j \in DOMAIN g
    <3>1. h[j] = g[j] /\ w < g[j].window /\ g[j].window \in Nat
      BY <1>1, <1>3, <2>1, <2>4
    <3>2. ~(g[j].window + Window <= w)
      BY <1>2, <3>1
    <3> QED BY <1>4, <1>9, <2>1, <2>4, <3>1, <3>2
  <2>5. CASE i = n + 1 /\ j = n + 1
    BY <1>2, <2>1, <2>5
  <2> QED BY <1>1, <2>2, <2>3, <2>4, <2>5
<1>12. \A i \in DOMAIN h : \E j \in DOMAIN h : h[j].window = h[i].window /\ h[j].at = h[i].window
  <2> SUFFICES ASSUME NEW i \in DOMAIN h
               PROVE  \E j \in DOMAIN h : h[j].window = h[i].window /\ h[j].at = h[i].window
    OBVIOUS
  <2>1. CASE i \in DOMAIN g
    <3>1. PICK j \in DOMAIN g : g[j].window = g[i].window /\ g[j].at = g[i].window
      BY <1>4, <2>1
    <3>2. j \in DOMAIN h /\ h[j] = g[j] /\ h[i] = g[i]
      BY <1>1, <2>1
    <3> QED BY <3>1, <3>2
  <2>2. CASE i = n + 1
    <3>1. h[i] = x /\ x.window = w
      BY <1>1, <2>2 DEF w
    <3>2. CASE \E k \in DOMAIN g : g[k].window = w
      <4>1. PICK j \in DOMAIN g : g[j].window = w /\ g[j].at = w
        BY <1>4, <3>2
      <4> QED BY <1>1, <3>1, <4>1
    <3>3. CASE x.at = w
      BY <1>1, <2>2, <3>1, <3>3
    <3> QED BY <1>9, <3>2, <3>3
  <2> QED BY <1>1, <2>1, <2>2
<1>13. \A v \in 0..MaxClock : Cardinality(Places(h, v)) <= Limit
  <2> SUFFICES ASSUME NEW v \in 0..MaxClock PROVE Cardinality(Places(h, v)) <= Limit
    OBVIOUS
  <2>1. CASE v = w
    BY <1>7, <1>9, <2>1
  <2>2. CASE v # w
    BY <1>4, <1>8, <2>2
  <2> QED BY <2>1, <2>2
<1>14. Windows(h)
  BY <1>10, <1>11, <1>12, <1>13 DEF Windows
<1>15. \A i \in DOMAIN h : h[i] = x \/ \E j \in DOMAIN g : h[i] = g[j]
  BY <1>1
<1> QED BY <1>7, <1>14, <1>15 DEF h, w

\* A key with an entry has its last window open or over; one without has every window
\* over for any reading still to come.
KeyHolds(k) ==
    /\ Windows(granted[k])
    /\ \A i \in DOMAIN granted[k] : granted[k][i].window <= clock
    /\ k \in DOMAIN entries =>
          /\ entries[k].count >= 1
          /\ Cardinality(Places(granted[k], entries[k].windowStart)) = entries[k].count
          /\ \A i \in DOMAIN granted[k] : granted[k][i].window <= entries[k].windowStart
          /\ entries[k].windowStart <= clock
          /\ entries[k].windowStart - MaxLag <= entries[k].lastSeen
    /\ k \notin DOMAIN entries =>
          \A i \in DOMAIN granted[k] : granted[k][i].window + Window + MaxLag <= clock

\* A reading is not from the future and at most MaxLag old.
ReadingsHold ==
    \A r \in Requests : pending[r] # Idle =>
        pending[r].now <= clock /\ clock - MaxLag <= pending[r].now

BurstInv == ReadingsHold /\ \A k \in Keys : KeyHolds(k)

\* What is deleted is over, for late readings too.
LEMMA DeletedIsOver ==
  ASSUME TypeOK, NEW k \in Keys, KeyHolds(k), k \in DOMAIN entries,
         NEW now \in Nat, now <= clock, k \notin Fresh(now)
  PROVE  \A i \in DOMAIN granted[k] : granted[k][i].window + Window + MaxLag <= clock
<1> DEFINE start == entries[k].windowStart
           seen == entries[k].lastSeen
<1>1. start \in Nat /\ seen \in Nat /\ clock \in Nat
  BY DEF TypeOK, Entry
<1>2. now - seen >= TTL
  BY <1>1 DEF Fresh
<1>3. start - MaxLag <= seen /\ \A i \in DOMAIN granted[k] : granted[k][i].window <= start
  BY DEF KeyHolds
<1>4. \A i \in DOMAIN granted[k] : granted[k][i].window \in Nat
  BY PassTypes DEF TypeOK
<1> HIDE DEF start, seen
<1>5. start + Window + MaxLag <= clock
  BY <1>1, <1>2, <1>3
<1> QED BY <1>1, <1>3, <1>4, <1>5

\* A key that is not asked for keeps its entry or loses it.
LEMMA OtherKey ==
  ASSUME TypeOK, NEW k \in Keys, KeyHolds(k), NEW now \in Nat, now <= clock,
         clock' = clock, granted'[k] = granted[k],
         k \in DOMAIN entries' <=> k \in Fresh(now),
         k \in Fresh(now) => entries'[k] = entries[k]
  PROVE  KeyHolds(k)'
<1>1. CASE k \in Fresh(now)
  <2>1. k \in DOMAIN entries /\ k \in DOMAIN entries' /\ entries'[k] = entries[k]
    BY <1>1 DEF Fresh
  <2> QED BY <2>1 DEF KeyHolds
<1>2. CASE k \notin Fresh(now)
  <2>1. \A i \in DOMAIN granted[k] : granted[k][i].window + Window + MaxLag <= clock
    BY <1>2, DeletedIsOver DEF KeyHolds
  <2> QED BY <1>2, <2>1 DEF KeyHolds
<1> QED BY <1>1, <1>2
\* A request under way has a reading of the last MaxLag ticks.
LEMMA ReadingsStep == TypeOK /\ ReadingsHold /\ [Next]_vars => ReadingsHold'
<1> SUFFICES ASSUME TypeOK, ReadingsHold, [Next]_vars PROVE ReadingsHold'
  OBVIOUS
<1>1. CASE Tick
  <2> SUFFICES ASSUME NEW r \in Requests, pending[r] # Idle
               PROVE  pending[r].now <= clock' /\ clock' - MaxLag <= pending[r].now
    BY <1>1 DEF Tick, ReadingsHold
  <2> DEFINE now == pending[r].now
  <2>1. now \in Nat /\ clock \in Nat /\ clock' = clock + 1 /\ clock - now < MaxLag /\ now <= clock
    <3>1. now \in Nat
      BY PendingType
    <3>2. clock \in Nat /\ now <= clock
      BY DEF ReadingsHold, TypeOK
    <3>3. clock' = clock + 1 /\ clock - now < MaxLag
      BY <1>1 DEF Tick
    <3> QED BY <3>1, <3>2, <3>3
  <2> HIDE DEF now
  <2>2. now <= clock' /\ clock' - MaxLag <= now
    BY <2>1
  <2> QED BY <2>2 DEF now
<1>2. ASSUME NEW r \in Requests, NEW k \in Keys, Arrive(r, k) PROVE ReadingsHold'
  <2> SUFFICES ASSUME NEW q \in Requests, pending'[q] # Idle
               PROVE  pending'[q].now <= clock /\ clock - MaxLag <= pending'[q].now
    BY <1>2 DEF Arrive, ReadingsHold
  <2>1. CASE q = r
    <3>1. pending'[q].now = clock /\ clock \in Nat
      BY <1>2, <2>1 DEF Arrive, TypeOK
    <3> QED BY <3>1
  <2>2. CASE q # r
    <3>1. pending'[q] = pending[q]
      BY <1>2, <2>2 DEF Arrive, TypeOK
    <3> QED BY <3>1 DEF ReadingsHold
  <2> QED BY <2>1, <2>2
<1>3. ASSUME NEW r \in Requests, Answer(r) PROVE ReadingsHold'
  <2>1. pending' = [pending EXCEPT ![r] = Idle] /\ clock' = clock
    BY <1>3 DEF Answer, DenyFull, DenyLimit, Grant
  <2>2. \A q \in Requests : pending'[q] = pending[q] \/ pending'[q] = Idle
    BY <2>1 DEF TypeOK
  <2> QED BY <2>1, <2>2 DEF ReadingsHold
<1>4. CASE UNCHANGED vars
  BY <1>4 DEF vars, ReadingsHold
<1> QED BY <1>1, <1>2, <1>3, <1>4 DEF Next

\* The readings and keys of an answer, and what happens to the entries of other keys.
LEMMA AnswerOthers ==
  ASSUME TypeOK, BurstInv, NEW r \in Requests, Answer(r)
  PROVE  /\ pending[r].key \in Keys /\ pending[r].now \in Nat /\ pending[r].now <= clock
         /\ clock - MaxLag <= pending[r].now
         /\ clock' = clock
         /\ \A k \in Keys : k # pending[r].key \/ DenyFull(r) => KeyHolds(k)'
<1> DEFINE k == pending[r].key
           now == pending[r].now
<1>1. /\ k \in Keys /\ now \in Nat /\ now <= clock /\ clock - MaxLag <= now /\ clock' = clock
  BY PendingType DEF BurstInv, ReadingsHold, Answer, DenyFull, DenyLimit, Grant
<1>2. ASSUME NEW x \in Keys, x # k \/ DenyFull(r) PROVE KeyHolds(x)'
  <2>1. granted'[x] = granted[x]
    <3>1. CASE Grant(r)
      <4>1. x # k
        BY <1>2, <3>1 DEF DenyFull, Grant
      <4>2. granted' = [granted EXCEPT ![k] =
                          Append(@, [at |-> now, window |-> Current(k, now).windowStart])]
        BY <3>1 DEF Grant
      <4> QED BY <4>1, <4>2 DEF TypeOK
    <3>2. CASE ~Grant(r)
      BY <3>2 DEF Answer, DenyFull, DenyLimit
    <3> QED BY <3>1, <3>2
  <2>2. (x \in DOMAIN entries' <=> x \in Fresh(now)) /\ (x \in Fresh(now) => entries'[x] = entries[x])
    <3>1. CASE DenyFull(r)
      BY <3>1 DEF DenyFull
    <3>2. CASE ~DenyFull(r)
      <4>1. \E e : entries' = Put(k, e, now)
        BY <3>2 DEF Answer, DenyLimit, Grant
      <4> QED BY <1>2, <3>2, <4>1 DEF Put
    <3> QED BY <3>1, <3>2
  <2> QED BY <1>1, <2>1, <2>2, OtherKey DEF BurstInv
<1> QED BY <1>1, <1>2

\* A denial for the rate leaves the window as it is.
LEMMA DenyLimitStep ==
  ASSUME TypeOK, BurstInv, NEW r \in Requests, DenyLimit(r), NEW k \in Keys, k = pending[r].key
  PROVE  KeyHolds(k)'
<1> DEFINE now == pending[r].now
           e == entries[k]
<1>1. k \in Keys /\ now \in Nat /\ now <= clock /\ clock - MaxLag <= now /\ clock' = clock
  BY AnswerOthers DEF Answer
<1>2. k \in Fresh(now) /\ now - e.windowStart < Window
  BY DEF DenyLimit, Spare, Current
<1>3. k \in DOMAIN entries /\ e \in Entry
  BY <1>2 DEF Fresh, TypeOK
<1>4. entries' = Put(k, [e EXCEPT !.lastSeen = now], now) /\ granted' = granted
  BY <1>2 DEF DenyLimit, Current
<1>5. entries'[k] = [e EXCEPT !.lastSeen = now] /\ k \in DOMAIN entries'
  <2> HIDE DEF e, now
  <2> QED BY <1>4 DEF Put
<1>6. /\ entries'[k].windowStart = e.windowStart /\ entries'[k].count = e.count
      /\ entries'[k].lastSeen = now
  <2> HIDE DEF e, now
  <2> QED BY <1>3, <1>5 DEF Entry
<1>7. e.windowStart - MaxLag <= now
  <2>1. e.windowStart \in Nat /\ e.windowStart <= clock /\ clock \in Nat
    BY <1>1, <1>3 DEF BurstInv, KeyHolds, TypeOK, Entry
  <2> DEFINE start == e.windowStart
  <2> HIDE DEF start, now
  <2>2. start - MaxLag <= now
    BY <1>1, <2>1 DEF start
  <2> QED BY <2>2 DEF start
<1>8. KeyHolds(k)
  BY <1>1 DEF BurstInv
<1> QED BY <1>1, <1>3, <1>4, <1>5, <1>6, <1>7, <1>8 DEF KeyHolds

\* A request let through is of the window it finds with room, or opens one when all the
\* others are over.
LEMMA GrantStep ==
  ASSUME TypeOK, BurstInv, NEW r \in Requests, Grant(r), NEW k \in Keys, k = pending[r].key
  PROVE  KeyHolds(k)'
<1> DEFINE now == pending[r].now
           g == granted[k]
           c == Current(k, now)
           x == [at |-> now, window |-> c.windowStart]
<1>1. /\ k \in Keys /\ now \in Nat /\ now <= clock /\ clock - MaxLag <= now
      /\ clock' = clock /\ clock \in Nat
  <2>1. clock \in Nat
    BY DEF TypeOK
  <2>2. Answer(r)
    BY DEF Answer
  <2> QED BY <2>1, <2>2, AnswerOthers
<1>2. /\ g \in Seq(Pass) /\ Windows(g) /\ KeyHolds(k) /\ x \in Pass
      /\ c \in Entry /\ c.count < Limit
  BY <1>1, GrantType, PendingType, CurrentType DEF TypeOK, BurstInv, KeyHolds, Grant, Spare
<1>3. /\ granted'[k] = Append(g, x) /\ k \in DOMAIN entries'
      /\ entries'[k] = [c EXCEPT !.count = @ + 1]
  <2>1. /\ granted' = [granted EXCEPT ![k] = Append(@, x)]
        /\ entries' = Put(k, [c EXCEPT !.count = @ + 1], now)
    BY DEF Grant
  <2> HIDE DEF x, c, now
  <2> QED BY <1>1, <2>1 DEF Put, TypeOK, g
<1>4. /\ entries'[k].windowStart = c.windowStart /\ entries'[k].lastSeen = c.lastSeen
      /\ entries'[k].count = c.count + 1
  <2> HIDE DEF c
  <2> QED BY <1>2, <1>3 DEF Entry
<1>5. \A i \in DOMAIN g : g[i].window \in Nat /\ g[i].at \in Nat
  BY <1>2, PassTypes
<1>6. /\ c.lastSeen = now /\ c.windowStart <= clock /\ c.windowStart - MaxLag <= now
      /\ c.windowStart \in Nat /\ c.count \in Nat
      /\ now < c.windowStart + Window
      /\ Cardinality(Places(g, c.windowStart)) = c.count
      /\ \A i \in DOMAIN g : g[i].window <= c.windowStart
      /\ \/ c.count >= 1
         \/ now = c.windowStart /\ \A i \in DOMAIN g : g[i].window + Window <= c.windowStart
  <2>1. CASE k \in Fresh(now) /\ now - entries[k].windowStart < Window
    <3>1. k \in DOMAIN entries /\ entries[k] \in Entry /\ c = [entries[k] EXCEPT !.lastSeen = now]
      BY <2>1 DEF Fresh, TypeOK, Current
    <3> DEFINE e == entries[k]
    <3>2. /\ e.count >= 1 /\ Cardinality(Places(g, e.windowStart)) = e.count
          /\ \A i \in DOMAIN g : g[i].window <= e.windowStart
          /\ e.windowStart <= clock
      BY <1>2, <3>1 DEF KeyHolds
    <3> HIDE DEF c, g, now
    <3>3. c.windowStart = e.windowStart /\ c.count = e.count /\ c.lastSeen = now
      BY <3>1 DEF Entry
    <3>4. e.windowStart \in Nat /\ e.count \in Nat
      BY <3>1 DEF Entry
    <3> QED BY <1>1, <2>1, <3>2, <3>3, <3>4
  <2>2. CASE ~(k \in Fresh(now) /\ now - entries[k].windowStart < Window)
    <3>1. c = [windowStart |-> now, lastSeen |-> now, count |-> 0]
      BY <2>2 DEF Current
    <3>2. \A i \in DOMAIN g : g[i].window + Window <= now
      <4>1. CASE k \in Fresh(now)
        <5> DEFINE start == entries[k].windowStart
        <5>1. k \in DOMAIN entries /\ start \in Nat
          BY <4>1 DEF Fresh, TypeOK, Entry
        <5>2. \A i \in DOMAIN g : g[i].window <= start
          BY <1>2, <5>1 DEF KeyHolds
        <5>3. start + Window <= now
          BY <1>1, <2>2, <4>1, <5>1
        <5> HIDE DEF start, g, now
        <5> QED BY <1>1, <1>5, <5>1, <5>2, <5>3
      <4>2. CASE k \notin Fresh(now)
        <5>1. \A i \in DOMAIN g : g[i].window + Window + MaxLag <= clock
          BY <1>1, <1>2, <4>2, DeletedIsOver DEF KeyHolds
        <5> HIDE DEF g, now
        <5> QED BY <1>1, <1>5, <5>1
      <4> QED BY <4>1, <4>2
    <3>3. Cardinality(Places(g, now)) = 0
      <4>1. Places(g, now) = {}
        <5> HIDE DEF g, now
        <5> QED BY <1>1, <1>5, <3>2 DEF Places
      <4> QED BY <4>1, FS_EmptySet
    <3> HIDE DEF c, g, now
    <3>4. c.windowStart = now /\ c.lastSeen = now /\ c.count = 0
      BY <3>1
    <3>5. \A i \in DOMAIN g : g[i].window <= now
      BY <1>1, <1>5, <3>2
    <3> QED BY <1>1, <3>2, <3>3, <3>4, <3>5
  <2> QED BY <2>1, <2>2
<1>7. x.at = now /\ x.window = c.windowStart
  OBVIOUS
<1> HIDE DEF x, c, g, now
<1>8. /\ Windows(Append(g, x))
      /\ Cardinality(Places(Append(g, x), x.window)) = Cardinality(Places(g, x.window)) + 1
      /\ \A i \in DOMAIN Append(g, x) : \/ Append(g, x)[i] = x
                                      \/ \E j \in DOMAIN g : Append(g, x)[i] = g[j]
  <2>1. x.window - MaxLag <= x.at /\ x.at < x.window + Window
    BY <1>6, <1>7
  <2>2. \/ Cardinality(Places(g, x.window)) \in 1..(Limit - 1)
        \/ x.at = x.window /\ \A i \in DOMAIN g : g[i].window + Window <= x.window
    <3>1. CASE c.count >= 1
      <4>1. c.count \in 1..(Limit - 1)
        BY <1>2, <1>6, <3>1
      <4> QED BY <1>6, <1>7, <4>1
    <3>2. CASE now = c.windowStart /\ \A i \in DOMAIN g : g[i].window + Window <= c.windowStart
      BY <1>7, <3>2
    <3> QED BY <1>6, <3>1, <3>2
  <2> QED BY <1>2, <2>1, <2>2, JoinWindow
<1>9. \A i \in DOMAIN Append(g, x) : Append(g, x)[i].window <= c.windowStart
  BY <1>6, <1>7, <1>8
<1>10. \A i \in DOMAIN Append(g, x) : Append(g, x)[i].window <= clock
  <2>1. Append(g, x) \in Seq(Pass)
    BY <1>2
  <2>2. \A i \in DOMAIN Append(g, x) : Append(g, x)[i].window \in Nat
    BY <2>1, PassTypes
  <2>3. ASSUME NEW i \in DOMAIN Append(g, x) PROVE Append(g, x)[i].window <= clock
    <3> DEFINE w == Append(g, x)[i].window
    <3>1. w \in Nat /\ w <= c.windowStart
      BY <1>9, <2>2
    <3> HIDE DEF w
    <3> QED BY <1>1, <1>6, <3>1 DEF w
  <2> QED BY <2>3
<1>11. c.count + 1 >= 1
  BY <1>6
<1>12. KeyHolds(k)'
  <2> SUFFICES /\ Windows(granted'[k])
               /\ \A i \in DOMAIN granted'[k] : granted'[k][i].window <= clock'
               /\ k \in DOMAIN entries'
               /\ entries'[k].count >= 1
               /\ Cardinality(Places(granted'[k], entries'[k].windowStart)) = entries'[k].count
               /\ \A i \in DOMAIN granted'[k] : granted'[k][i].window <= entries'[k].windowStart
               /\ entries'[k].windowStart <= clock'
               /\ entries'[k].windowStart - MaxLag <= entries'[k].lastSeen
    BY DEF KeyHolds
  <2>1. Cardinality(Places(Append(g, x), c.windowStart)) = c.count + 1
    BY <1>6, <1>7, <1>8
  <2> QED BY <1>1, <1>3, <1>4, <1>6, <1>8, <1>9, <1>10, <1>11, <2>1
<1> QED BY <1>12

\* Every step keeps the windows of every key apart.
LEMMA BurstStep == TypeOK /\ BurstInv /\ [Next]_vars => BurstInv'
<1> SUFFICES ASSUME TypeOK, BurstInv, [Next]_vars PROVE BurstInv'
  OBVIOUS
<1>1. ReadingsHold'
  BY ReadingsStep DEF BurstInv
<1>2. ASSUME NEW k \in Keys PROVE KeyHolds(k)'
  <2>1. KeyHolds(k) /\ granted[k] \in Seq(Pass)
    BY DEF BurstInv, TypeOK
  <2>2. CASE Tick
    <3>1. clock' = clock + 1 /\ clock \in Nat /\ UNCHANGED <<entries, granted>>
      BY <2>2 DEF Tick, TypeOK
    <3>2. \A i \in DOMAIN granted[k] : granted[k][i].window \in Nat
      BY <2>1, PassTypes
    <3>3. k \in DOMAIN entries => entries[k].windowStart \in Nat
      BY DEF TypeOK, Entry
    <3>4. \A i \in DOMAIN granted[k] : granted[k][i].window <= clock'
      BY <2>1, <3>1, <3>2 DEF KeyHolds
    <3>5. k \in DOMAIN entries => entries[k].windowStart <= clock'
      BY <2>1, <3>1, <3>3 DEF KeyHolds
    <3>6. k \notin DOMAIN entries =>
             \A i \in DOMAIN granted[k] : granted[k][i].window + Window + MaxLag <= clock'
      BY <2>1, <3>1, <3>2 DEF KeyHolds
    <3> QED BY <2>1, <3>1, <3>4, <3>5, <3>6 DEF KeyHolds
  <2>3. CASE UNCHANGED <<clock, entries, granted>>
    BY <2>1, <2>3 DEF KeyHolds
  <2>4. ASSUME NEW r \in Requests, Answer(r) PROVE KeyHolds(k)'
    <3>1. CASE k # pending[r].key
      BY <2>4, <3>1, AnswerOthers
    <3>2. CASE k = pending[r].key
      <4>1. CASE DenyFull(r)
        BY <2>4, <3>2, <4>1, AnswerOthers
      <4>2. CASE DenyLimit(r)
        BY <3>2, <4>2, DenyLimitStep
      <4>3. CASE Grant(r)
        BY <3>2, <4>3, GrantStep
      <4> QED BY <2>4, <4>1, <4>2, <4>3 DEF Answer
    <3> QED BY <3>1, <3>2
  <2> QED BY <2>2, <2>3, <2>4 DEF Next, Arrive, vars
<1> QED BY <1>1, <1>2 DEF BurstInv

\* Whatever the keys, the limit, the capacity and the lateness of the readings, no
\* stretch of time as long as a window lets more through than a fixed window explains:
\* deleting idle entries never opens a window early.
THEOREM LimiterBurstBounded == Spec => []BurstBounded
<1>1. Init => BurstInv
  <2> SUFFICES ASSUME Init PROVE BurstInv
    OBVIOUS
  <2>1. Windows(<<>>)
    <3>1. \A w : Places(<<>>, w) = {}
      BY DEF Places
    <3>2. \A w : Cardinality(Places(<<>>, w)) = 0
      BY <3>1, FS_EmptySet
    <3>3. DOMAIN <<>> = {}
      OBVIOUS
    <3> QED BY <3>2, <3>3 DEF Windows
  <2> QED BY <2>1 DEF Init, BurstInv, ReadingsHold, KeyHolds
<1>2. TypeOK /\ BurstInv => BurstBounded
  <2> SUFFICES ASSUME TypeOK, BurstInv, NEW k \in Keys, NEW t \in 0..MaxClock
               PROVE  Burst(k, t) <= IF MaxLag = 0 THEN 2 * Limit - 1 ELSE 3 * Limit - 2
    BY DEF BurstBounded
  <2>1. granted[k] \in Seq(Pass) /\ Windows(granted[k])
    BY DEF TypeOK, BurstInv, KeyHolds
  <2> QED BY <2>1, BurstOfWindows DEF Burst
<1> QED BY <1>1, <1>2, TypeInit, TypeStep, BurstStep, PTL DEF Spec
=============================================================================
