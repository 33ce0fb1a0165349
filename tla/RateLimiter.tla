---------------------------- MODULE RateLimiter ----------------------------
(***************************************************************************)
(* boundedRateLimiter (src/server/device_rate_limit.go), the fixed-window  *)
(* limiter in front of the device endpoint: one instance counts requests   *)
(* per source address before authentication, one per device after it.      *)
(*                                                                         *)
(* deviceUpdateHandler reads the clock once and passes that reading to     *)
(* both limiters.  The second is asked only when the body has been read,   *)
(* so its readings may be old and arrive out of order: Arrive reads the    *)
(* clock, Allow is the call, any number of ticks (at most MaxLag) later.   *)
(* Readings come from Go's monotonic clock.                                *)
(***************************************************************************)
EXTENDS Integers, Sequences, FiniteSets, FiniteSetsExt

CONSTANTS
    Keys,       \* source addresses, or devices
    Requests,   \* requests in flight at once
    Capacity,   \* entries the table may hold
    Limit,      \* requests allowed to a key per window
    Window,     \* length of a window, in ticks
    TTL,        \* an entry not asked for this long is deleted
    MinRetry,   \* the least Retry-After, one second
    MaxLag,     \* bound: ticks between reading the clock and the call
    MaxClock    \* bound on the clock

\* The server reads a request for at most 30 seconds (ReadTimeout of
\* src/server/http_server.go), a window is a minute and TTL ten
\* (src/server/device_credentials.go:67-68).  With TTL as short as Window + MaxLag a
\* late denial would have a window forgotten and the next one opened before its end.
ASSUME LimiterAssumption ==
    /\ IsFiniteSet(Keys)
    /\ Capacity \in Nat /\ Limit \in Nat \ {0} /\ Window \in Nat \ {0}
    /\ MaxLag \in Nat /\ MaxLag <= Window
    /\ TTL \in Nat /\ TTL >= Window + MaxLag + MaxLag
    /\ MinRetry \in Nat \ {0}
    /\ MaxClock \in Nat

VARIABLES
    clock,      \* time.Now, in ticks
    pending,    \* [Requests -> the key and clock reading, or Idle]
    entries,    \* boundedRateLimiter.entries: a function on its keys
    granted,    \* history: the requests of each key that passed: [at, window],
                \* the reading and the start of the window they counted in
    promise     \* history: when a denied key was told to come back, 0 if not

vars == <<clock, pending, entries, granted, promise>>

Idle  == [busy |-> FALSE]
Pass  == [at : 0..MaxClock, window : 0..MaxClock]
Entry == [windowStart : 0..MaxClock, lastSeen : 0..MaxClock, count : 0..Limit]
-----------------------------------------------------------------------------
Tick ==
    /\ clock < MaxClock
    /\ \A r \in Requests : pending[r] # Idle => clock - pending[r].now < MaxLag
    /\ clock' = clock + 1
    /\ UNCHANGED <<pending, entries, granted, promise>>

Arrive(r, k) ==
    /\ pending[r] = Idle
    /\ pending' = [pending EXCEPT ![r] = [busy |-> TRUE, key |-> k, now |-> clock]]
    /\ UNCHANGED <<clock, entries, granted, promise>>

\* Mutant: idle entries are deleted after a second.
FreshASecond(now) == {k \in DOMAIN entries : now - entries[k].lastSeen < MinRetry}

\* cleanupLocked: the entries that stay.
Fresh(now) == {k \in DOMAIN entries : now - entries[k].lastSeen < TTL}

\* The table once k has the entry e, expired entries gone.
Put(k, e, now) ==
    [x \in Fresh(now) \cup {k} |-> IF x = k THEN e ELSE entries[x]]

\* Mutant: the window is still open at its end.
CurrentWindowTooLong(k, now) ==
    IF k \in Fresh(now) /\ now - entries[k].windowStart <= Window
    THEN [entries[k] EXCEPT !.lastSeen = now]
    ELSE [windowStart |-> now, lastSeen |-> now, count |-> 0]

\* Mutant: a reading older than the window opens a window of its own.
CurrentLateReadingReopens(k, now) ==
    IF k \in Fresh(now) /\ now - entries[k].windowStart \in 0..(Window - 1)
    THEN [entries[k] EXCEPT !.lastSeen = now]
    ELSE [windowStart |-> now, lastSeen |-> now, count |-> 0]

\* The entry of k at now: a new one for a new key, a new window once the old
\* one is over.
Current(k, now) ==
    IF k \in Fresh(now) /\ now - entries[k].windowStart < Window
    THEN [entries[k] EXCEPT !.lastSeen = now]
    ELSE [windowStart |-> now, lastSeen |-> now, count |-> 0]

Full(k, now) == k \notin Fresh(now) /\ Cardinality(Fresh(now)) >= Capacity

\* entry.Count < limiter.limit
Spare(e) == e.count < Limit

\* A new key finds the table full: nothing is recorded.
DenyFull(r) ==
    LET k == pending[r].key  now == pending[r].now IN
    /\ pending[r] # Idle
    /\ Full(k, now)
    /\ entries' = [x \in Fresh(now) |-> entries[x]]
    /\ pending' = [pending EXCEPT ![r] = Idle]
    /\ UNCHANGED <<clock, granted, promise>>

\* The window is used up: the entry is kept, and Retry-After is its end.
DenyLimit(r) ==
    LET k == pending[r].key  now == pending[r].now  e == Current(k, now) IN
    /\ pending[r] # Idle
    /\ ~Full(k, now)
    /\ ~Spare(e)
    /\ entries' = Put(k, e, now)
    /\ promise' = [promise EXCEPT ![k] =
                     now + Max({MinRetry, Window - (now - e.windowStart)})]
    /\ pending' = [pending EXCEPT ![r] = Idle]
    /\ UNCHANGED <<clock, granted>>

Grant(r) ==
    LET k == pending[r].key  now == pending[r].now  e == Current(k, now) IN
    /\ pending[r] # Idle
    /\ ~Full(k, now)
    /\ Spare(e)
    /\ entries' = Put(k, [e EXCEPT !.count = @ + 1], now)
    /\ granted' = [granted EXCEPT ![k] = Append(@, [at |-> now, window |-> e.windowStart])]
    /\ promise' = [promise EXCEPT ![k] = 0]
    /\ pending' = [pending EXCEPT ![r] = Idle]
    /\ UNCHANGED clock

Init ==
    /\ clock = 0
    /\ pending = [r \in Requests |-> Idle]
    /\ entries = [k \in {} |-> Idle]
    /\ granted = [k \in Keys |-> <<>>]
    /\ promise = [k \in Keys |-> 0]

Answer(r) == DenyFull(r) \/ DenyLimit(r) \/ Grant(r)

Next ==
    \/ Tick
    \/ \E r \in Requests : Answer(r) \/ \E k \in Keys : Arrive(r, k)

Spec == Init /\ [][Next]_vars
-----------------------------------------------------------------------------
TypeOK ==
    /\ clock \in 0..MaxClock
    /\ pending \in [Requests -> {Idle} \cup [busy : {TRUE}, key : Keys, now : 0..MaxClock]]
    /\ DOMAIN entries \subseteq Keys
    /\ \A k \in DOMAIN entries : entries[k] \in Entry
    /\ granted \in [Keys -> Seq(Pass)]
    /\ promise \in [Keys -> Nat]

\* The table stays within its capacity whatever keys the callers send.
CapacityBounded == Cardinality(DOMAIN entries) <= Capacity

\* Requests of k passed with a reading in the window that starts at t.
Burst(k, t) ==
    Cardinality({i \in DOMAIN granted[k] : granted[k][i].at \in t..(t + Window - 1)})

\* No stretch of time as long as a window lets through more than the two fixed
\* windows it can meet allow, less the request that opened the first of them.
\* Late readings reach back from a third window, never from a fourth: neither
\* the deletion of idle entries nor the order of the readings opens another.
BurstBounded ==
    \A k \in Keys, t \in 0..MaxClock :
        Burst(k, t) <= (IF MaxLag = 0 THEN 2 * Limit - 1 ELSE 3 * Limit - 2)

\* A key that was denied for its rate, and comes back when Retry-After is over
\* with nothing of its own let through in between, is let through unless other
\* keys have filled the table; denied requests do not push the window ahead.
RetryHonoured ==
    [][\A r \in Requests :
          (pending[r] # Idle /\ pending'[r] = Idle) =>
             LET k == pending[r].key  now == pending[r].now IN
             (promise[k] # 0 /\ now >= promise[k] /\ ~Full(k, now))
                => promise'[k] = 0]_vars
=============================================================================
