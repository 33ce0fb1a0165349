---------------------------- MODULE DeviceClient ----------------------------
(***************************************************************************)
(* DeviceV2Runner (src/clients/device_client_transport.py) reporting one   *)
(* device to the server over a network that loses requests and answers and *)
(* delivers requests after the client has given up on them, with a wall    *)
(* clock that is stepped and a process that is restarted.                  *)
(*                                                                         *)
(* Every attempt collects anew and is stamped with the client's clock in   *)
(* whole seconds; the server compares that stamp with its own clock        *)
(* (MaxDeviceClockSkew) and with the last report it accepted.  A tick is   *)
(* one second.  Times are ages on the server's clock, so the behaviours    *)
(* need no bound on time: an age stays at Old once it is past anything the *)
(* server accepts, and a request the client has given up on is lost then.  *)
(* The server's skew test and decision are one step here; it holds a       *)
(* request for far less than the five minutes it allows for skew.          *)
(*                                                                         *)
(* calm says that the environment has stopped causing trouble; it is only  *)
(* there to state what happens then.                                       *)
(***************************************************************************)
EXTENDS Integers, FiniteSets, FiniteSetsExt

CONSTANTS
    Digests,       \* what a report says, as the server compares it
    Interval,      \* collection_interval_seconds
    Base,          \* base_seconds of retry_delay_seconds, 3
    Cap,           \* cap_seconds, 300
    Slow,          \* the least delay after a code of SLOW_RETRY_CODES, 30
    MaxAttempt,    \* attempt is capped, at 31
    ReadTimeout,   \* the client waits no longer for an answer
    Skew,          \* MaxDeviceClockSkew, 300
    Offsets,       \* how far the client's clock is ahead of the server's
    MaxInFlight    \* bound: requests the client gave up on that may still arrive

Old == Skew + 1

ASSUME ClientAssumption ==
    /\ IsFiniteSet(Digests) /\ Digests # {}
    /\ {Interval, Base, Cap, Slow, ReadTimeout} \subseteq Nat \ {0}
    /\ Base <= Cap /\ Slow <= Cap
    /\ MaxAttempt \in Nat /\ MaxInFlight \in Nat /\ Skew \in Nat
    /\ Offsets # {} /\ Offsets \subseteq -Skew..Skew
    /\ \A o \in Offsets : ReadTimeout - o <= Skew

VARIABLES
    offset,      \* the client's wall clock less the server's
    awaiting,    \* the runner is in DeviceHTTPSClient.send
    wait,        \* ticks left of stop.wait(delay)
    attempt,     \* DeviceV2Runner.attempt
    current,     \* the request awaited, or NoReport once the network lost it
    abandoned,   \* requests given up on that the server may still receive
    answer,      \* the answer on its way to the client, or "none"
    boundary,    \* the last report the server accepted
    calm,        \* the environment causes no more trouble
    disturbed    \* history: the stamps may not have been increasing

network == <<current, abandoned, answer>>
runner  == <<awaiting, wait, attempt>>
clientVars == <<offset, runner, network, boundary, calm, disturbed>>

Report   == [age : -Skew..Old, digest : Digests]
NoReport == [age |-> Old, digest |-> "none"]

Discarded == {"stale_report", "report_conflict"}       \* DISCARDED_REPORT_CODES
\* Answers the client meets as one of SLOW_RETRY_CODES.
SlowCodes == {"invalid_envelope", "unauthorized", "invalid_server_response"}
FastCodes == {"server_unavailable", "rate_limited"}
Answers   == {"accepted", "idempotent"} \cup Discarded \cup SlowCodes \cup FastCodes

Older(r) == IF r.age = Old THEN r ELSE [r EXCEPT !.age = @ + 1]
-----------------------------------------------------------------------------
\* One second passes.  The client's own clock decides how long it waits for an
\* answer, the server's how old the reports are.
Tick ==
    /\ awaiting => current = NoReport \/ current.age + offset < ReadTimeout
    /\ wait' = IF wait > 0 THEN wait - 1 ELSE 0
    /\ current' = Older(current)
    /\ abandoned' = {r \in {Older(x) : x \in abandoned} : r.age < Old}
    /\ boundary' = Older(boundary)
    /\ UNCHANGED <<offset, awaiting, attempt, answer, calm, disturbed>>

\* Mutant: the delay is not kept above a second.
FailureDelaysNoFloor(code) ==
    IF code = "rate_limited" THEN 1..Cap ELSE 0..Min({Cap, Base * 2^attempt})

\* _failure_delay with its jitter: at least a second, at most the cap.  A 429
\* carries a Retry-After of 1 to 300 seconds, or none that is valid.
FailureDelays(code) ==
    LET ceiling == Min({Cap, Base * 2^attempt})
    IN  CASE code \in SlowCodes   -> Slow..Max({Slow, ceiling})
          [] code = "rate_limited" -> 1..Cap
          [] OTHER                -> 1..Max({1, ceiling})

\* run_once returns: how long run_forever waits, and the attempt it counts.
Finish(code) ==
    /\ IF code \in {"accepted", "idempotent"} \cup Discarded
       THEN attempt' = 0 /\ wait' = Interval
       ELSE /\ attempt' = Min({attempt + 1, MaxAttempt})
            /\ wait' \in FailureDelays(code)
    /\ awaiting' = FALSE

\* collect_stats fails: "collection_failed", nothing is sent.
CollectFails ==
    /\ ~calm /\ ~awaiting /\ wait = 0
    /\ Finish("collection_failed")
    /\ UNCHANGED <<offset, network, boundary, calm, disturbed>>

\* collect_stats, the stamp read after it, build_envelope and the request.
Send ==
    /\ ~awaiting /\ wait = 0
    /\ awaiting' = TRUE
    /\ \E g \in Digests : current' = [age |-> -offset, digest |-> g]
    /\ answer' = "none"
    /\ UNCHANGED <<offset, wait, attempt, abandoned, boundary, calm, disturbed>>

\* What the server answers to r: skew, then the replay classification.
Outcome(r) ==
    CASE r.age > Skew                                        -> "invalid_envelope"
      [] r.age <= Skew /\ r.age < boundary.age               -> "accepted"
      [] r.age <= Skew /\ r.age > boundary.age               -> "stale_report"
      [] r = boundary                                        -> "idempotent"
      [] OTHER                                               -> "report_conflict"

\* The server takes up the request the client waits for.  Stamps increase again
\* once a report is accepted with nothing sent before it still on its way.
Serve ==
    /\ awaiting /\ current # NoReport /\ answer = "none"
    /\ \/ answer' = Outcome(current)
       \/ ~calm /\ answer' \in {"unauthorized"} \cup FastCodes
    /\ boundary' = IF answer' = "accepted" THEN current ELSE boundary
    /\ disturbed' = (disturbed /\ (answer' = "accepted" => abandoned # {}))
    /\ UNCHANGED <<offset, runner, current, abandoned, calm>>

\* It takes up one the client has given up on: nobody reads the answer.
ServeAbandoned ==
    /\ \E r \in abandoned :
          /\ abandoned' = abandoned \ {r}
          /\ boundary' = IF Outcome(r) = "accepted" THEN r ELSE boundary
    /\ UNCHANGED <<offset, runner, current, answer, calm, disturbed>>

\* The answer arrives: _classify_response.  A 202 whose body is not what it
\* should be, or whose monitors cannot be applied, is a failure to the runner.
Receive ==
    /\ awaiting /\ answer # "none"
    /\ \/ Finish(answer)
       \/ /\ ~calm /\ answer \in {"accepted", "idempotent"}
          /\ \E code \in {"invalid_server_response", "collection_failed"} : Finish(code)
    /\ current' = NoReport /\ answer' = "none"
    /\ UNCHANGED <<offset, abandoned, boundary, calm, disturbed>>

\* Mutant: no timeout is set on the socket.
GiveUpNever ==
    /\ awaiting /\ ~calm
    /\ Finish("transport_timeout")
    /\ current' = NoReport /\ answer' = "none"
    /\ abandoned' = abandoned
    /\ UNCHANGED <<offset, boundary, calm, disturbed>>

\* The connection fails or times out: whatever the server did, or still does,
\* with the request, its answer is lost.
GiveUp ==
    /\ awaiting
    /\ calm => current = NoReport
    /\ Finish("transport_timeout")
    /\ current' = NoReport /\ answer' = "none"
    /\ abandoned' = IF /\ current # NoReport /\ answer = "none"
                       /\ Cardinality(abandoned) < MaxInFlight
                    THEN abandoned \cup {current} ELSE abandoned
    /\ UNCHANGED <<offset, boundary, calm, disturbed>>
-----------------------------------------------------------------------------
\* The network loses a request on its way.
LoseCurrent ==
    /\ ~calm /\ awaiting /\ current # NoReport /\ answer = "none"
    /\ current' = NoReport
    /\ UNCHANGED <<offset, runner, abandoned, answer, boundary, calm, disturbed>>

LoseAbandoned ==
    /\ \E r \in abandoned : abandoned' = abandoned \ {r}
    /\ UNCHANGED <<offset, runner, current, answer, boundary, calm, disturbed>>

\* The client's clock is stepped; backwards, its stamps may repeat.
StepClock ==
    /\ ~calm /\ ~awaiting
    /\ offset' \in Offsets \ {offset}
    /\ disturbed' = (disturbed \/ offset' < offset)
    /\ UNCHANGED <<runner, network, boundary, calm>>

\* The process is restarted, perhaps within the second.
Restart ==
    /\ ~calm
    /\ awaiting' = FALSE /\ wait' = 0 /\ attempt' = 0
    /\ abandoned' = IF /\ awaiting /\ current # NoReport /\ answer = "none"
                       /\ Cardinality(abandoned) < MaxInFlight
                    THEN abandoned \cup {current} ELSE abandoned
    /\ current' = NoReport /\ answer' = "none"
    /\ disturbed' = TRUE
    /\ UNCHANGED <<offset, boundary, calm>>

CalmDown ==
    /\ ~calm /\ calm' = TRUE
    /\ UNCHANGED <<offset, runner, network, boundary, disturbed>>

ClientInit ==
    /\ offset \in Offsets
    /\ awaiting = FALSE /\ wait = 0 /\ attempt = 0
    /\ current = NoReport /\ abandoned = {} /\ answer = "none"
    /\ boundary = NoReport
    /\ calm = FALSE /\ disturbed = FALSE

ClientNext ==
    \/ Tick \/ CollectFails \/ Send \/ Serve \/ ServeAbandoned \/ Receive \/ GiveUp
    \/ LoseCurrent \/ LoseAbandoned \/ StepClock \/ Restart \/ CalmDown

ClientSpec == ClientInit /\ [][ClientNext]_clientVars
-----------------------------------------------------------------------------
\* As long as its clock is not stepped back and the process not restarted, each
\* attempt is strictly newer to the server than all the ones before it, those
\* it has given up on included: no failure, timeout, late delivery or jitter
\* makes the client's own reports refuse each other.
AttemptsSupersede == ~disturbed => answer \notin Discarded \cup {"idempotent"}

\* However its clock was stepped and whatever was lost or delayed before, once
\* the network and the server work a report is accepted, again and again.
ReportingResumes == calm ~> answer = "accepted"
=============================================================================
