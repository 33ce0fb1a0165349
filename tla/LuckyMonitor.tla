---------------------------- MODULE LuckyMonitor ----------------------------
(***************************************************************************)
(* Observation of a Lucky instance over its local API                      *)
(* (src/clients/lucky_collector.py).  One collection asks the version      *)
(* endpoint first, then each module's endpoint, and for web services falls *)
(* back to a list of rules and one request for each.                       *)
(*                                                                         *)
(* A request answers "200", or fails.  "unreadable" is an answer over which *)
(* the code raises something else than LuckyAPIError: broken HTTP, or a     *)
(* number that is infinite.  What a module's endpoint gives is guarded      *)
(* against it; the version, info and status endpoints and the rules of the  *)
(* fallback are not, and there it ends the whole collection.                *)
(***************************************************************************)
EXTENDS Integers, Sequences, FiniteSets, Functions

CONSTANTS
    HttpFailures, \* how a request may fail
    RowLists,     \* rows a module's endpoint may list:
                  \* [enabled, state, listed, records, claimed, claimedUpdated]
    RuleLists,    \* web rules of the fallback: what each one's request answers;
                  \* "spoiled": a rule one of whose values is unreadable
    CertLists,    \* certificates: [before, after, broken]
    WarningDays   \* a certificate expires soon within so many days

\* What a record of dynamic DNS may say of its last update; "silent": nothing.
DdnsStates == {"silent", "error", "changed", "unchanged"}

ASSUME LuckyAssumption ==
    /\ HttpFailures \subseteq {"401", "403", "404", "timeout", "refused", "large", "no_object",
                              "500", "no_json", "ret"}
    /\ \A rows \in RowLists :
          rows \in Seq([enabled : BOOLEAN, state : STRING, listed : BOOLEAN,
                        records : Seq(DdnsStates), claimed : Nat \cup {-1},
                        claimedUpdated : Nat \cup {-1}])
    /\ \A rules \in RuleLists :
          rules \in Seq({"200", "empty", "unreadable", "spoiled"} \cup HttpFailures)
    /\ \A certs \in CertLists : certs \in Seq([before : Int, after : Int, broken : BOOLEAN])

VARIABLES
    lucky,        \* what the configuration, the API and /proc say
    luckyShown    \* the payload, or NoLucky

luckyVars == <<lucky, luckyShown>>

Ok == "ok"
NoLucky == [status |-> "not_collected"]
Unsaid == -1
LuckyModules == {"ddns", "web", "forward", "ssl"}
Failed(answer) == answer # "200"

\* The code of a failure; redirects are refused, and so are other answers than a
\* JSON object of at most a size that does not say it is an error.
ErrorOf(answer) ==
    CASE answer = "401" -> "unauthorized"
      [] answer = "403" -> "forbidden"
      [] answer = "404" -> "not_found"
      [] answer = "timeout" -> "timeout"
      [] answer = "refused" -> "connection_refused"
      [] answer = "large" -> "response_too_large"
      [] answer \in {"unreadable", "no_object"} -> "schema_mismatch"
      [] answer \in {"302", "500", "no_json", "ret"} -> "invalid_response"

-----------------------------------------------------------------------------
(* Modules. *)

\* The error of a module; its data are then stale and empty.
EmptyModule(answer) ==
    [status |-> "error", stale |-> TRUE, error |-> ErrorOf(answer), total |-> 0,
     enabled |-> 0, disabled |-> 0, healthy |-> 0, errors |-> 0, items |-> <<>>]

\* A row that is no object is left out; its state may be an error of its own.  An
\* item keeps the position of its row.
NormalizeCollection(rows) ==
    LET objects == {i \in DOMAIN rows : rows[i].state # "no_object"}
        enabled == Cardinality({i \in objects : rows[i].enabled})
        errors == {i \in objects : rows[i].state = "error"}
    IN  [status |-> IF errors = {} THEN Ok ELSE "degraded", stale |-> FALSE,
         error |-> "none", total |-> Cardinality(objects), enabled |-> enabled,
         disabled |-> Cardinality(objects) - enabled,
         healthy |-> Cardinality({i \in objects : rows[i].state = "running"}),
         errors |-> Cardinality(errors), items |-> [i \in objects |-> rows[i]]]

\* What the records of a dynamic DNS row say together, and how many were changed;
\* of neither anything when none of them says anything.
DdnsSummary(records) ==
    LET said == Range(records) \ {"silent"} IN
    [change |-> CASE said = {} -> "none"
                  [] "error" \in said -> "error"
                  [] "error" \notin said /\ "changed" \in said -> "changed"
                  [] said = {"unchanged"} -> "unchanged",
     updated |-> IF said = {} THEN Unsaid
                 ELSE Cardinality({i \in DOMAIN records : records[i] = "changed"})]

\* The counts a row claims are believed before those of its records, unless more
\* are changed than there are.
DdnsRecord(row) ==
    LET summary == DdnsSummary(row.records)
        total == IF row.claimed # Unsaid THEN row.claimed
                 ELSE IF row.listed THEN Len(row.records) ELSE Unsaid
        updated == IF row.claimedUpdated # Unsaid THEN row.claimedUpdated
                   ELSE summary.updated
    IN  [change |-> summary.change, total |-> total,
         updated |-> IF total # Unsaid /\ updated > total THEN Unsaid ELSE updated]

\* Only the records of dynamic DNS have counts of their own.
CollectModule(endpoint) ==
    LET module == NormalizeCollection(lucky.rows)
    IN  IF Failed(lucky.answer[endpoint]) THEN EmptyModule(lucky.answer[endpoint])
        ELSE IF endpoint = "ddns"
        THEN [module EXCEPT !.items = [i \in DOMAIN @ |-> DdnsRecord(@[i])]]
        ELSE module

\* A rule whose request failed, or that comes after one that failed and says
\* nothing itself, is an error; a rule with a sub-rule enabled runs.
PrepareWebService(i) ==
    LET failed == \E j \in 1..i : lucky.rules[j] \notin {"200", "empty"}
        empty == Failed(lucky.rules[i])
    IN  [enabled |-> ~empty,
         state |-> IF failed /\ empty THEN "error" ELSE IF empty THEN "disabled" ELSE "running"]

\* Mutant: rules whose requests failed are errors of the rules only.
CollectWebServicesLenient ==
    IF ~Failed(lucky.answer["web"]) THEN NormalizeCollection(lucky.rows)
    ELSE IF Failed(lucky.answer["web_lite"]) THEN EmptyModule(lucky.answer["web"])
    ELSE NormalizeCollection([i \in DOMAIN lucky.rules |-> PrepareWebService(i)])

\* The number of errors is that of the requests.  The error shown is that of the
\* first failed rule; with no list at all that of the first request, unless it
\* answered something that could not be read.
CollectWebServices ==
    LET primary == lucky.answer["web"]
        lite == lucky.answer["web_lite"]
        rules == NormalizeCollection([i \in DOMAIN lucky.rules |-> PrepareWebService(i)])
        failures == {i \in DOMAIN lucky.rules : lucky.rules[i] \notin {"200", "empty"}}
        first == CHOOSE i \in failures : \A j \in failures : i <= j
    IN  IF ~Failed(primary) THEN NormalizeCollection(lucky.rows)
        ELSE IF Failed(lite)
        THEN EmptyModule(IF primary = "unreadable" THEN lite ELSE primary)
        ELSE IF failures = {} THEN rules
        ELSE [rules EXCEPT !.status = "degraded", !.errors = Cardinality(failures),
                           !.error = ErrorOf(lucky.rules[first])]

\* Days are whole; a certificate with no dates is unknown, one with an error of
\* its own invalid.
CertificateStatus(c) ==
    IF c.broken THEN "invalid"
    ELSE IF c.after < c.before THEN "unknown"
    ELSE IF c.before > 0 THEN "not_yet_valid"
    ELSE IF c.after < 0 THEN "expired"
    ELSE IF c.after <= WarningDays THEN "expiring" ELSE "valid"

CollectCertificates ==
    LET statuses == [i \in DOMAIN lucky.certs |-> CertificateStatus(lucky.certs[i])]
    IN  IF Failed(lucky.answer["ssl"]) THEN EmptyModule(lucky.answer["ssl"])
        ELSE [status |-> IF "invalid" \in Range(statuses) THEN "degraded" ELSE Ok, stale |-> FALSE,
              error |-> "none", total |-> Len(lucky.certs), statuses |-> statuses]

\* The addresses are counted in the records of dynamic DNS, and fail with them.
IpResolution ==
    IF Failed(lucky.answer["ddns"])
    THEN [stale |-> TRUE, normal |-> 0, status |-> "error"]
    ELSE LET rows == {i \in DOMAIN lucky.rows : lucky.rows[i].state # "no_object"}
             records == UNION {{i} \X DOMAIN lucky.rows[i].records : i \in rows}
             normal == {r \in records : lucky.rows[r[1]].records[r[2]] \notin {"silent", "error"}}
         IN  [stale |-> FALSE, normal |-> Cardinality(normal),
              status |-> IF normal = records THEN Ok ELSE "degraded"]

-----------------------------------------------------------------------------
(* A collection. *)

\* The process may run while its API does not answer; /proc may not be readable.
ServiceState(process) ==
    CASE process = "found" -> "running" [] process = "absent" -> "stopped"
      [] process = "unreadable" -> "unknown"

\* Nothing of a module is shown when the first request failed.
UnavailableLucky(error) ==
    [status |-> "unavailable", error |-> error, service |-> ServiceState(lucky.process)]

\* A redirected version endpoint may hide the failure behind it: the info endpoint
\* is asked, for its error alone.
VersionFailure ==
    IF lucky.answer["version"] = "302" /\ Failed(lucky.answer["info"])
    THEN lucky.answer["info"] ELSE lucky.answer["version"]

LuckyPayload ==
    LET modules == [ddns |-> CollectModule("ddns"), web |-> CollectWebServices,
                    forward |-> CollectModule("forward"), ssl |-> CollectCertificates]
        healthy == /\ \A m \in LuckyModules : modules[m].error = "none"
                   /\ ~Failed(lucky.answer["status"])
    IN  [status |-> IF healthy THEN Ok ELSE "degraded", modules |-> modules,
         ip |-> IpResolution, api |-> ~Failed(lucky.answer["status"]),
         service |-> IF lucky.process = "absent" THEN "stopped" ELSE "running"]

\* Something else than LuckyAPIError leaves collect: from the first request, or the
\* one made for its error; from the status; from a rule of the fallback.
Raises ==
    \/ lucky.answer["version"] = "unreadable"
    \/ lucky.answer["version"] = "302" /\ lucky.answer["info"] = "unreadable"
    \/ /\ ~Failed(lucky.answer["version"])
       /\ \/ lucky.answer["status"] = "unreadable"
          \/ /\ Failed(lucky.answer["web"]) /\ ~Failed(lucky.answer["web_lite"])
             /\ "spoiled" \in Range(lucky.rules)

\* LuckyCollector.collect, when Lucky is configured.
CollectedLucky ==
    IF Failed(lucky.answer["version"]) THEN UnavailableLucky(ErrorOf(VersionFailure))
    ELSE LuckyPayload

\* collect_lucky_once: what collect raised is an error of the domain, and nothing
\* of the collection is kept.
InternalError == [status |-> "unavailable", error |-> "internal_error", service |-> "unknown"]

CollectLucky ==
    /\ luckyShown = NoLucky
    /\ luckyShown' = CASE lucky.setup = "disabled" -> [status |-> "not_configured"]
                       [] lucky.setup = "invalid" ->
                             [status |-> "unavailable", error |-> "invalid_configuration",
                              service |-> "unknown"]
                       [] lucky.setup = "ready" -> IF Raises THEN InternalError ELSE CollectedLucky
    /\ UNCHANGED lucky

-----------------------------------------------------------------------------

\* What is not asked does not matter: of those states one is enough.
LuckyInit ==
    \E setup \in {"disabled", "invalid", "ready"}, process \in {"found", "absent", "unreadable"} :
    LET failures == {"unreadable"} \cup HttpFailures IN
    \E version \in IF setup = "ready" THEN {"200", "302"} \cup failures ELSE {"200"} :
    \E info \in IF version = "302" THEN {"200"} \cup failures ELSE {"200"} :
    LET answers == IF setup = "ready" /\ version = "200" THEN {"200"} \cup failures ELSE {"200"} IN
    \E status, ddns, web, forward, ssl \in answers :
    \E lite \in IF Failed(web) THEN answers ELSE {"200"} :
        /\ lucky \in [setup : {setup}, process : {process}, rows : RowLists, certs : CertLists,
                      rules : IF Failed(web) THEN RuleLists ELSE {<<>>},
                      answer : {[version |-> version, info |-> info, status |-> status,
                                 ddns |-> ddns, web |-> web, web_lite |-> lite,
                                 forward |-> forward, ssl |-> ssl]}]
        /\ luckyShown = NoLucky

LuckySpec == LuckyInit /\ [][CollectLucky]_luckyVars

-----------------------------------------------------------------------------
\* When the version endpoint answered and nothing unreadable came from a place
\* the code does not guard (the status, a rule of the fallback), a module shows data
\* exactly when its own endpoint (for web services the list of rules too)
\* answered: a failure elsewhere neither hides nor spoils them, and none passes
\* for an empty but healthy module.  Overall it is healthy only with no failure
\* of any request, except that of the web services' which a fallback without
\* failures made good.  Else no module is shown and Lucky is unavailable, never
\* healthy: one infinite number in the status costs all four (collect,
\* _collect_module and _collect_web_services, src/clients/lucky_collector.py).
FailuresStayInModules ==
    LET own(e) == ~Failed(lucky.answer[e])
        lost == \/ ~own("version") \/ lucky.answer["status"] = "unreadable"
                \/ ~own("web") /\ own("web_lite") /\ "spoiled" \in Range(lucky.rules)
    IN  luckyShown # NoLucky /\ lucky.setup = "ready" =>
        /\ lost <=> "modules" \notin DOMAIN luckyShown
        /\ lost => luckyShown.status = "unavailable"
        /\ ~lost =>
            LET m == luckyShown.modules
            IN  /\ \A e \in {"ddns", "forward", "ssl"} : m[e].stale = ~own(e)
                /\ m.web.stale = ~(own("web") \/ own("web_lite"))
                /\ luckyShown.ip.stale = m.ddns.stale
                /\ luckyShown.status = Ok <=>
                      /\ \A e \in LuckyModules : ~m[e].stale
                      /\ own("status")
                      /\ ~own("web") => Range(lucky.rules) \subseteq {"200", "empty"}
                /\ \A e \in LuckyModules \ {"ssl"} :
                      /\ m[e].enabled + m[e].disabled = m[e].total
                      /\ m[e].healthy + m[e].errors <= m[e].total
                /\ \A i \in DOMAIN m.ddns.items :
                      LET d == m.ddns.items[i]
                      IN  d.total # Unsaid => d.updated <= d.total
=============================================================================
