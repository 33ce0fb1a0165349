------------------------------ MODULE UnifiApi ------------------------------
(***************************************************************************)
(* Collections over the API of a UniFi controller (class UniFiAPICollector,*)
(* src/clients/unifi_api.py): fixed requests, one after another, under one *)
(* deadline.  Which site and which device they are for is found out from   *)
(* the answers to the first; the required requests decide, with the        *)
(* optional ones, what the whole observation is worth.                     *)
(***************************************************************************)
EXTENDS Integers, Sequences, FiniteSets, SequencesExt

CONSTANTS
    SiteRequests,  \* optional requests for the site, in order
    ByReference,   \* those made with the site's internal reference
    GroupsFrom,    \* the request that names the WAN groups
    MaxWanGroups,  \* WAN groups asked for one by one
    HttpAnswers,   \* what the controller may answer
    SiteLists,     \* lists of sites, of [named, reference]
    DeviceLists    \* lists of the scores of devices

VARIABLES
    apiRun,        \* the collection under way, or NoRun
    apiShown       \* what the last call of collect() returned, when none is
                   \* under way: the collector itself keeps nothing of it

apiVars == <<apiRun, apiShown>>

NotObserved == [status |-> "disabled"]
NoRun == [next |-> 0]
Required == {"info", "sites", "devices", "device_detail", "device_stats"}
Fanout == "wan_isp_status"
ApiRequests == <<"info", "sites", "devices", "device_detail", "device_stats">>
            \o SiteRequests \o <<Fanout>>

ASSUME ApiAssumption ==
    /\ SiteRequests \in Seq(STRING)
    /\ Range(SiteRequests) \cap (Required \cup {Fanout}) = {}
    /\ ByReference \subseteq Range(SiteRequests)
    /\ MaxWanGroups \in Nat

\* What is known before the first request: the errors of the endpoints asked, the
\* site ([reference]) and the target found, the groups left to ask and their errors.
NewRun(selector) ==
    [next |-> 1, error |-> <<>>, site |-> {}, target |-> FALSE, groups |-> 0,
     groupErrors |-> <<>>, selector |-> selector, late |-> FALSE]

-----------------------------------------------------------------------------
(* What an answer is worth. *)

\* An answer too long is an error of HTTP, one that is no JSON one of parsing; the
\* certificate is checked before the key is sent.
RequestError(answer) ==
    CASE answer = "200" -> "none"
      [] answer \in {"401", "403"} -> "api_auth_failure"
      [] answer = "404" -> "api_endpoint_unsupported"
      [] answer \in {"500", "too_long"} -> "api_http_error"
      [] answer = "no_json" -> "api_parse_failure"
      [] answer \in {"handshake", "other_certificate"} -> "api_tls_failure"
      [] answer = "no_connection" -> "api_transport_failure"
      [] answer = "no_answer" -> "api_timeout"

\* Past the deadline nothing is asked any more.
RequestErrors ==
    IF apiRun.late THEN {"api_timeout"} ELSE {RequestError(a) : a \in HttpAnswers}

\* A selector names a site by its id, its reference or its name; without one the
\* only site is it.
MatchingSites(sites) ==
    {i \in DOMAIN sites : apiRun.selector => sites[i].named}

ResolveSite(sites) ==
    CASE MatchingSites(sites) = {} -> "api_site_not_found"
      [] Cardinality(MatchingSites(sites)) = 1 -> "none"
      [] Cardinality(MatchingSites(sites)) > 1 -> "api_site_ambiguity"

\* Model, name and role count 8, 4 and 2; the best must be one.
TargetDevice(devices) ==
    LET scored == {i \in DOMAIN devices : devices[i] > 0}
        leading == {i \in scored : \A j \in scored : devices[j] <= devices[i]}
    IN  IF Cardinality(leading) = 1 THEN "none" ELSE "api_target_resolution"

\* Some groups answered: what the others are decides, if they are all
\* unsupported.  With none, the first error speaks for all.
FanoutError(errors) ==
    LET failed == SelectSeq(errors, LAMBDA e : e # "none")
    IN  IF failed = <<>> THEN "none"
        ELSE IF Len(failed) = Len(errors) \/ Range(failed) = {"api_endpoint_unsupported"}
        THEN failed[1] ELSE "api_partial_failure"

EndpointStatus(error) ==
    CASE error = "none" -> "ok"
      [] error = "api_endpoint_unsupported" -> "unsupported"
      [] OTHER -> "error"

-----------------------------------------------------------------------------
(* ApiRequests. *)

\* The site's requests need a site, the device's and the optional ones a target.
Applies(r) ==
    CASE r \in {"info", "sites"} -> TRUE
      [] r = "devices" -> apiRun.site # {}
      [] r = Fanout -> apiRun.groups > Len(apiRun.groupErrors)
      [] OTHER -> apiRun.target /\ (r \in ByReference => \E s \in apiRun.site : s.reference)

ApiRunning == apiRun # NoRun /\ apiRun.next <= Len(ApiRequests)
Due(r) == ApiRunning /\ ApiRequests[apiRun.next] = r /\ Applies(r)

\* The endpoint answers, or fails, and the next one is due.
WithError(errors, r, error) ==
    [e \in DOMAIN errors \cup {r} |-> IF e = r THEN error ELSE errors[e]]
Noted(r, error, run) ==
    apiRun' = [run EXCEPT !.error = WithError(@, r, error), !.next = @ + 1]

SkipRequest ==
    /\ ApiRunning
    /\ ~Applies(ApiRequests[apiRun.next])
    /\ apiRun' = [apiRun EXCEPT !.next = @ + 1]
    /\ UNCHANGED apiShown

\* info can also be JSON of another shape.
CallPlain(r) ==
    /\ r \notin {"sites", "devices", Fanout}
    /\ Due(r)
    /\ \E error \in RequestErrors \cup (IF r = "info" THEN {"api_parse_failure"} ELSE {}),
          n \in 0..(IF r = GroupsFrom THEN MaxWanGroups ELSE 0) :
         Noted(r, error, [apiRun EXCEPT !.groups = IF error = "none" THEN @ + n ELSE @])
    /\ UNCHANGED apiShown

\* Mutant: an answer is enough, whatever sites it lists.
CallSitesAnswered ==
    /\ Due("sites")
    /\ \E error \in RequestErrors, sites \in SiteLists :
         Noted("sites", error,
            [apiRun EXCEPT !.site = IF error = "none" /\ ResolveSite(sites) = "none"
                THEN {sites[i] : i \in MatchingSites(sites)} ELSE {}])
    /\ UNCHANGED apiShown

CallSites ==
    /\ Due("sites")
    /\ \E error \in RequestErrors, sites \in SiteLists :
         LET all == IF error = "none" THEN ResolveSite(sites) ELSE error
         IN  Noted("sites", all,
                [apiRun EXCEPT !.site = IF all = "none"
                    THEN {sites[i] : i \in MatchingSites(sites)} ELSE {}])
    /\ UNCHANGED apiShown

CallDevices ==
    /\ Due("devices")
    /\ \E error \in RequestErrors, devices \in DeviceLists :
         LET all == IF error = "none" THEN TargetDevice(devices) ELSE error
         IN  Noted("devices", all, [apiRun EXCEPT !.target = all = "none"])
    /\ UNCHANGED apiShown

\* The groups one by one; one past the deadline ends the round.
CallGroup ==
    /\ Due(Fanout)
    /\ \E error \in RequestErrors :
         LET errors == Append(apiRun.groupErrors, error)
             run == [apiRun EXCEPT !.groupErrors = errors]
         IN  IF Len(errors) = apiRun.groups \/ apiRun.late
             THEN Noted(Fanout, FanoutError(errors), run)
             ELSE apiRun' = run
    /\ UNCHANGED apiShown

-----------------------------------------------------------------------------
(* A collection. *)

StartCollection ==
    /\ apiRun = NoRun
    /\ \E selector \in BOOLEAN : apiRun' = NewRun(selector)
    /\ apiShown' = NotObserved

\* A key file that is missing, open to others, empty or too long: nothing is asked.
KeyUnavailable ==
    /\ apiRun = NoRun
    /\ apiShown' = [status |-> "unavailable", success |-> FALSE, endpoints |-> <<>>,
                    telemetry |-> FALSE]
    /\ UNCHANGED apiRun

DeadlinePasses ==
    /\ ApiRunning
    /\ ~apiRun.late
    /\ apiRun' = [apiRun EXCEPT !.late = TRUE]
    /\ UNCHANGED apiShown

\* A required failure, normalisation's too, weighs against what succeeded; of the
\* optional ones an endpoint that is unsupported is none.
Observation(run, normalized) ==
    LET status == [e \in DOMAIN run.error |-> EndpointStatus(run.error[e])]
        failing == ~normalized \/ \E e \in Required \cap DOMAIN status : status[e] # "ok"
        optional == \E e \in DOMAIN status \ Required : status[e] = "error"
        succeeded == \E e \in DOMAIN status : status[e] = "ok"
    IN  [status |-> IF failing /\ ~succeeded THEN "unavailable"
                    ELSE IF failing \/ optional THEN "partial" ELSE "available",
         success |-> ~failing \/ succeeded,
         endpoints |-> status,
         telemetry |-> normalized]

FinishCollection ==
    /\ apiRun # NoRun
    /\ apiRun.next > Len(ApiRequests)
    /\ \E normalized \in BOOLEAN : apiShown' = Observation(apiRun, normalized)
    /\ apiRun' = NoRun

ApiInit == apiRun = NoRun /\ apiShown = NotObserved

ApiNext ==
    \/ StartCollection \/ KeyUnavailable \/ DeadlinePasses
    \/ SkipRequest \/ CallSites \/ CallDevices \/ CallGroup
    \/ \E r \in Range(ApiRequests) : CallPlain(r)
    \/ FinishCollection

ApiSpec == ApiInit /\ [][ApiNext]_apiVars
-----------------------------------------------------------------------------

\* The whole is available exactly when the site and the target are known beyond
\* doubt, every required endpoint answered for them and no other failed but by
\* not being there; it is unavailable exactly when nothing answered.  A failure is
\* never made good by what then was not asked.
AvailableMeansAll ==
    apiShown # NotObserved =>
        LET e == apiShown.endpoints
            ok == {n \in DOMAIN e : e[n] = "ok"}
        IN  /\ apiShown.status = "available" <=>
                  /\ Required \subseteq ok
                  /\ \A n \in DOMAIN e \ Required : e[n] # "error"
                  /\ apiShown.telemetry
            /\ apiShown.status = "unavailable" => ok = {} /\ ~apiShown.success
            /\ apiShown.status = "partial" => ok # {} /\ apiShown.success
            /\ ok \cap {"device_detail", "device_stats"} # {} => {"sites", "devices"} \subseteq ok

=============================================================================
