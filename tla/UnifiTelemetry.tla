--------------------------- MODULE UnifiTelemetry ---------------------------
(***************************************************************************)
(* Acquisition of one UniFi gateway: the SSH passes and the API pass of    *)
(* src/clients/unifi_collector.py, their normalisation, and the lock and   *)
(* the backoff of HostExtensionCollector.collect_unifi_once.               *)
(*                                                                         *)
(* The scheduler and an immediate refresh may both ask for an acquisition. *)
(* A measurement is known by the number of the acquisition it was taken    *)
(* in; 0 is none.  What the gateway answers is chosen freely.              *)
(***************************************************************************)
EXTENDS Integers, Sequences, FiniteSets

CONSTANTS
    Callers,          \* the scheduler, immediate refreshes
    BackoffDelays,    \* UNIFI_BACKOFF_DELAYS_SECONDS
    MaxAcquisitions,  \* bound on acquisitions
    MaxUnifiClock     \* bound on the clock

ASSUME UnifiAssumption ==
    /\ BackoffDelays \in Seq(Nat) /\ BackoffDelays # <<>>
    /\ "free" \notin Callers
    /\ MaxAcquisitions \in Nat /\ MaxUnifiClock \in Nat

VARIABLES
    unifiClock,       \* monotonic time
    caller,           \* where each caller is
    collectLock,      \* the holder of _unifi_collect_lock, or Free
    acquisition,      \* the acquisition under way
    domainPrevious,   \* UnifiDomainCollector.previous
    failureStreak,    \* _unifi_failure_streak
    retryAfter,       \* _unifi_retry_after
    unifiShown,       \* the payload readers copy
    rejected,         \* credentials refused: times of the streak's acquisitions
    past              \* what each acquisition gave; kept for ShownIsDated alone

unifiVars == <<unifiClock, caller, collectLock, acquisition, domainPrevious,
               failureStreak, retryAfter, unifiShown, rejected, past>>

Free == "free"
\* The gateway refused the credentials, or its host key is not the one expected
\* (UNIFI_BACKOFF_CODES); or the connection was lost, timed out, or could not be
\* used for another reason.
Refused == "refused"
TransportErrors == {Refused, "lost"}

\* "framing": the sections are not those of the fixed script, found while
\* parsing; "values": they are, and a value in them is refused by normalize.
CoreOutcomes == TransportErrors \cup {"ok", "framing", "values"}

NoPayload ==
    [system |-> 0, api |-> 0, filesystem |-> 0, diagnostics |-> 0, updated |-> 0,
     lastSuccess |-> 0, stale |-> TRUE, error |-> "not_collected"]
Raw(n, began) == [n |-> n, began |-> began, core |-> "none", diagnostics |-> FALSE,
                  filesystem |-> FALSE, api |-> FALSE]
NoRaw == Raw(0, 0)

-----------------------------------------------------------------------------
(* Normalisation. *)

\* An API pass that failed leaves no API telemetry, whatever there was before.
ApiOf(raw) == IF raw.api THEN raw.n ELSE 0

\* Mutant: the API observation is kept too, and its age with it lost.
NormalizeFailureKeeping(raw, error, hasApi) ==
    [domainPrevious EXCEPT
        !.lastSuccess = domainPrevious.updated, !.stale = TRUE, !.error = error,
        !.api = IF hasApi /\ raw.api THEN raw.n ELSE @]

\* A pass that failed: everything measured is that of the previous acquisition,
\* but the API observation is this one's, even when its API pass failed too.
NormalizeFailure(raw, error, hasApi) ==
    [system |-> domainPrevious.system, filesystem |-> domainPrevious.filesystem,
     diagnostics |-> domainPrevious.diagnostics, updated |-> domainPrevious.updated,
     api |-> IF hasApi THEN ApiOf(raw) ELSE domainPrevious.api,
     lastSuccess |-> domainPrevious.updated, stale |-> TRUE, error |-> error]

NormalizeSuccess(raw) ==
    [system |-> raw.n, api |-> ApiOf(raw), updated |-> raw.n, lastSuccess |-> raw.n,
     filesystem |-> IF raw.filesystem THEN raw.n ELSE 0,
     diagnostics |-> IF raw.diagnostics THEN raw.n ELSE 0,
     stale |-> FALSE, error |-> "none"]

\* A refused value is normalised again as a failed pass, without the API's part:
\* its observation is then the previous acquisition's as well.
Normalize(raw) ==
    IF raw.core = "ok" THEN NormalizeSuccess(raw)
    ELSE IF raw.core = "values" THEN NormalizeFailure(raw, "parse_failure", FALSE)
    ELSE NormalizeFailure(raw,
            IF raw.core = "framing" THEN "parse_failure" ELSE raw.core, TRUE)

\* The collector itself raised: nothing of the previous acquisition is kept.
CollectorFailure == [NoPayload EXCEPT !.error = "collector_failure"]

-----------------------------------------------------------------------------
(* One acquisition, pass by pass. *)

Collecting(c, step) == collectLock = c /\ caller[c] = step

\* RawCollector.collect: the core pass.
CollectCore(c) ==
    /\ Collecting(c, "core")
    /\ \E outcome \in CoreOutcomes :
          acquisition' = [acquisition EXCEPT !.core = outcome]
    /\ caller' = [caller EXCEPT ![c] = "diagnostics"]
    /\ UNCHANGED <<unifiClock, collectLock, domainPrevious, failureStreak, retryAfter,
                   unifiShown, rejected, past>>

\* Diagnostics and the file system only after a core pass that was parsed; they
\* fail by themselves.
CollectOptional(c) ==
    /\ Collecting(c, "diagnostics")
    /\ \E d, f \in BOOLEAN :
          /\ acquisition.core \notin {"ok", "values"} => ~d /\ ~f
          /\ acquisition' = [acquisition EXCEPT !.diagnostics = d, !.filesystem = f]
    /\ caller' = [caller EXCEPT ![c] = "api"]
    /\ UNCHANGED <<unifiClock, collectLock, domainPrevious, failureStreak, retryAfter,
                   unifiShown, rejected, past>>

\* The API pass, whatever became of SSH: it observes something or fails.
CollectApi(c) ==
    /\ Collecting(c, "api")
    /\ \E observed \in BOOLEAN :
          acquisition' = [acquisition EXCEPT !.api = observed]
    /\ caller' = [caller EXCEPT ![c] = "store"]
    /\ UNCHANGED <<unifiClock, collectLock, domainPrevious, failureStreak, retryAfter,
                   unifiShown, rejected, past>>

Backoff(payload, began) ==
    IF payload.stale /\ payload.error = Refused
    THEN LET i == IF failureStreak < Len(BackoffDelays)
                  THEN failureStreak + 1 ELSE Len(BackoffDelays)
         IN  /\ failureStreak' = failureStreak + 1
             /\ retryAfter' = began + BackoffDelays[i]
             /\ rejected' = Append(rejected, began)
    ELSE failureStreak' = 0 /\ retryAfter' = 0 /\ rejected' = <<>>

Store(c, payload) ==
    /\ unifiShown' = payload
    /\ Backoff(payload, acquisition.began)
    /\ caller' = [caller EXCEPT ![c] = "idle"]
    /\ collectLock' = Free
    /\ UNCHANGED <<unifiClock, acquisition>>

\* previous is replaced only by a payload that is not stale.
FinishAcquisition(c) ==
    /\ Collecting(c, "store")
    /\ LET payload == Normalize(acquisition)
       IN  /\ domainPrevious' = IF payload.stale THEN domainPrevious ELSE payload
           /\ Store(c, payload)
    /\ past' = Append(past, [core |-> acquisition.core, api |-> acquisition.api])

\* An exception no pass expects.
AcquisitionRaises(c) ==
    /\ Collecting(c, "api")
    /\ Store(c, CollectorFailure)
    /\ past' = Append(past, [core |-> "raised", api |-> FALSE])
    /\ UNCHANGED domainPrevious

-----------------------------------------------------------------------------
(* collect_unifi_once. *)

\* Mutant: an acquisition waits for nothing but the lock.
MayAcquireAtOnce == collectLock = Free

\* No acquisition is under way, and the backoff is over.
MayAcquire == collectLock = Free /\ unifiClock >= retryAfter

\* Another caller holds the lock, or the backoff is not over: the payload shown
\* is returned as it is.
ReturnShown(c) ==
    /\ caller[c] = "idle"
    /\ ~MayAcquire
    /\ UNCHANGED unifiVars

Acquire(c) ==
    /\ caller[c] = "idle"
    /\ MayAcquire
    /\ acquisition.n < MaxAcquisitions
    /\ collectLock' = c
    /\ caller' = [caller EXCEPT ![c] = "core"]
    /\ acquisition' = Raw(acquisition.n + 1, unifiClock)
    /\ UNCHANGED <<unifiClock, domainPrevious, failureStreak, retryAfter, unifiShown,
                   rejected, past>>

UnifiTick ==
    /\ unifiClock < MaxUnifiClock
    /\ unifiClock' = unifiClock + 1
    /\ UNCHANGED <<caller, collectLock, acquisition, domainPrevious, failureStreak,
                   retryAfter, unifiShown, rejected, past>>

UnifiInit ==
    /\ unifiClock = 0
    /\ caller = [c \in Callers |-> "idle"]
    /\ collectLock = Free
    /\ acquisition = NoRaw
    /\ domainPrevious = NoPayload
    /\ failureStreak = 0
    /\ retryAfter = 0
    /\ unifiShown = NoPayload
    /\ rejected = <<>>
    /\ past = <<>>

UnifiNext ==
    \/ UnifiTick
    \/ \E c \in Callers :
          \/ Acquire(c) \/ ReturnShown(c)
          \/ CollectCore(c) \/ CollectOptional(c) \/ CollectApi(c)
          \/ FinishAcquisition(c) \/ AcquisitionRaises(c)

UnifiSpec == UnifiInit /\ [][UnifiNext]_unifiVars
-----------------------------------------------------------------------------

\* Credentials the gateway refused are tried again no sooner than the delay of
\* their place in the streak, whoever asks: the device locks the account out.
RefusedCredentialsRest ==
    \A i \in 1..Len(rejected) - 1 :
        rejected[i + 1] - rejected[i]
            >= BackoffDelays[IF i < Len(BackoffDelays) THEN i ELSE Len(BackoffDelays)]

\* Whatever passes failed since, the measurements shown are those of the last
\* acquisition whose core pass succeeded, and carry its date.  The API observation
\* is not: after a core pass that failed it is that of the acquisition that
\* failed, or none, and a value refused brings back the one of the date.  A stale
\* payload so may show an API observation newer than its date, and in the next one
\* an older; only an acquisition that raised shows nothing (_api_observation and
\* normalize in src/clients/unifi_normalizer.py, UniFiDomainCollector.collect).
ShownIsDated ==
    LET p == unifiShown
        ended == Len(past)
    IN  /\ p.system = p.updated /\ p.lastSuccess = p.updated
        /\ p.filesystem \in {0, p.updated} /\ p.diagnostics \in {0, p.updated}
        /\ ended > 0 /\ past[ended].core # "raised" =>
              /\ p.updated # 0 => p.updated \in 1..ended /\ past[p.updated].core = "ok"
              /\ \A n \in 1..ended : past[n].core = "ok" => n <= p.updated
              /\ p.stale <=> p.updated # ended
              /\ LET of == IF past[ended].core = "values" THEN p.updated ELSE ended
                 IN  p.api = IF of # 0 /\ past[of].api THEN of ELSE 0
        /\ ended > 0 /\ past[ended].core = "raised" => p.updated = 0 /\ p.api = 0

=============================================================================
