---------------------------- MODULE HermesExport ----------------------------
(***************************************************************************)
(* The exporter of Hermes profiles (src/scripts/export-hermes-status.py).  *)
(* A run reads the previous file of every registered profile, observes the *)
(* profile over its API, the command line, its logs and its configuration, *)
(* fills what it could not observe from the previous file, and replaces    *)
(* the files one after the other: the profiles, then the removal of those  *)
(* no longer registered, then hermes.json, which the collector reads.  A   *)
(* run is killed anywhere or fails on a full disk.                         *)
(*                                                                         *)
(* A value is the run that observed it; previous values keep theirs.       *)
(***************************************************************************)
EXTENDS Integers, Sequences, FiniteSets, SequencesExt

CONSTANTS
    ProfileNames,    \* names a profile may have; the file of one named hermes
                     \* would be hermes.json itself
    RawLists,        \* what the export configuration may list
    Observations,    \* what a profile may answer: [dir, api, cli, logs, configs]
    MaxProfiles, MaxPages, MaxCounter,
    MaxRuns          \* bound on the runs

None == "none"
Root == "hermes.json"

ASSUME HermesAssumption ==
    /\ ProfileNames \cap {None, Root} = {}
    /\ \A raw \in RawLists : raw \in Seq(Range(raw))
    /\ MaxProfiles \in Nat /\ MaxPages \in Nat \ {0}
    /\ MaxCounter \in Nat /\ MaxRuns \in Nat

VARIABLES
    hermesRun,       \* number of the run, the time of its observations
    exporter,        \* [pc, registered, done, staged]
    files,           \* <profile>.json, and hermes.json as Root
    observed,        \* history: the run a profile's file was last fresh in
    pairs            \* history: <<provider, model>> seen together

hermesVars == <<hermesRun, exporter, files, observed, pairs>>

NoFile == [profile |-> None]
Resting == [pc |-> "idle", registered |-> <<>>, done |-> <<>>, staged |-> NoFile]

-----------------------------------------------------------------------------
(* The API of a profile. *)

\* The address is that of the configuration, the environment or the profile's own
\* environment file; it is used when something enables the API, or when nothing
\* says anything and there is a token.
ApiBaseUrl(api) ==
    api.address /\ ("yes" \in api.enabled \/ (api.enabled = {} /\ api.token))

\* "ok", or the code of the failure.
HttpJson(api, answer) ==
    CASE ~ApiBaseUrl(api) -> "api_disabled"
      [] ApiBaseUrl(api) /\ ~api.token -> "api_unauthorized"
      [] ApiBaseUrl(api) /\ api.token ->
            CASE answer = "200" -> "ok"
              [] answer \in {"401", "403"} -> "api_unauthorized"
              [] answer \in {"404", "500"} -> "api_http_error"
              [] answer = "no_json" -> "api_invalid_json"
              [] answer = "timeout" -> "api_timeout"
              [] answer = "refused" -> "api_unavailable"

Min2(a, b) == IF a < b THEN a ELSE b
Total(seq) == FoldLeft(LAMBDA sum, n : sum + n, 0, seq)

\* Pages are read until one fails, is empty or says it is the last; what was read
\* before a failure counts, without a word of it.  The answer of the first page is
\* that of its second request, without parameters, when the first one failed.
CollectPaginatedItems(api, pages) ==
    LET ok(i) == HttpJson(api, pages[i].answer) = "ok"
        goes(i) == ok(i) /\ pages[i].more /\ pages[i].items > 0
        last == CHOOSE n \in 1..Min2(Len(pages), MaxPages) :
                    /\ \A i \in 1..(n - 1) : goes(i)
                    /\ ~goes(n) \/ n = Min2(Len(pages), MaxPages)
        read == IF ok(last) THEN last ELSE last - 1
    IN  [found |-> read > 0, more |-> read > 0 /\ pages[read].more,
         items |-> Total([i \in 1..read |-> pages[i].items])]

\* A sum that would exceed the largest counter leaves the next usage out.
UsageAdd(left, right) ==
    LET sum == (IF left = -1 THEN 0 ELSE left) + right
    IN  IF right = -1 \/ sum > MaxCounter THEN left ELSE sum

ApiUsage(api) ==
    LET counted == UsageAdd(IF HttpJson(api, api.jobs) = "ok" THEN api.jobsUsage ELSE -1,
                            IF CollectPaginatedItems(api, api.sessions).found
                            THEN api.sessionsUsage ELSE -1)
    IN  IF counted # -1 THEN counted
        ELSE IF HttpJson(api, api.health) = "ok" THEN api.healthUsage ELSE -1

\* Of the logs the readable ones of yesterday.
LocalUsage(logs) ==
    FoldLeft(LAMBDA sum, log : IF log.when = "yesterday" THEN UsageAdd(sum, log.tokens) ELSE sum,
             -1, logs)

\* The candidates in order: one that is missing or unsafe is passed over, the
\* first other one ends the search, readable or not.
SummarizeConfig(configs) ==
    LET at == SelectInSeq(configs, LAMBDA c : c.state # "missing")
    IN  IF at = 0 THEN [found |-> FALSE, provider |-> None, model |-> None]
        ELSE IF configs[at].state = "broken"
        THEN [found |-> TRUE, provider |-> None, model |-> None]
        ELSE [found |-> TRUE, provider |-> configs[at].provider, model |-> configs[at].model]

-----------------------------------------------------------------------------
(* One profile. *)

First(seq) == LET said == SelectSeq(seq, LAMBDA v : v # None)
              IN  IF said = <<>> THEN None ELSE said[1]

\* A source that answers is asked in this order.
LiveSources(o) ==
    <<o.cli>> \o (IF HttpJson(o.api, o.api.health) = "ok" THEN <<o.api>> ELSE <<>>)
LiveProvider(o) == First([i \in DOMAIN LiveSources(o) |-> LiveSources(o)[i].provider])
LiveModel(o) == First([i \in DOMAIN LiveSources(o) |-> LiveSources(o)[i].model])

\* A configuration that was read decides on the provider; without a model of its
\* own only one of the same provider fills it.  Otherwise what is live goes before
\* what was shown.
ModelIdentity(o, previous) ==
    LET config == SummarizeConfig(o.configs)
        provider == First(<<config.provider, IF config.found THEN o.label ELSE None>>)
        model ==
            CASE config.model # None -> config.model
              [] config.model = None /\ provider = LiveProvider(o) -> LiveModel(o)
              [] config.model = None /\ provider # LiveProvider(o)
                 /\ provider = previous.provider -> previous.model
              [] config.model = None /\ provider \notin {LiveProvider(o), previous.provider} -> None
    IN  IF provider # None THEN [provider |-> provider, model |-> model, by |-> "config"]
        ELSE [provider |-> First(<<LiveProvider(o), o.label, previous.provider>>),
              model |-> First(<<config.model, LiveModel(o), previous.model>>),
              by |-> "observation"]

\* Jobs: API, command line, previous.  Sessions the same, but an API whose health
\* endpoint answered counts those it listed, none when that request failed.
Jobs(o, previous) ==
    IF HttpJson(o.api, o.api.jobs) = "ok" THEN [source |-> "api", at |-> hermesRun]
    ELSE IF o.cli.jobs THEN [source |-> "cli", at |-> hermesRun] ELSE previous.jobs
Sessions(o, previous) ==
    LET pages == CollectPaginatedItems(o.api, o.api.sessions) IN
    IF HttpJson(o.api, o.api.health) = "ok"
    THEN [source |-> "api", at |-> hermesRun, items |-> pages.items, more |-> pages.more]
    ELSE IF o.cli.sessions # -1
    THEN [source |-> "cli", at |-> hermesRun, items |-> o.cli.sessions, more |-> FALSE]
    ELSE previous.sessions
Usage(o, previous) ==
    IF ApiUsage(o.api) # -1
    THEN [source |-> "hermes_api_payload", at |-> hermesRun, tokens |-> ApiUsage(o.api)]
    ELSE IF LocalUsage(o.logs) # -1
    THEN [source |-> "local_logs", at |-> hermesRun, tokens |-> LocalUsage(o.logs)]
    ELSE previous.usage

Unknown(p) ==
    [profile |-> p, provider |-> None, model |-> None, by |-> None,
     jobs |-> [source |-> None, at |-> 0],
     sessions |-> [source |-> None, at |-> 0, items |-> 0, more |-> FALSE],
     usage |-> [source |-> "unavailable", at |-> 0, tokens |-> -1],
     updated |-> 0, received |-> hermesRun, stale |-> TRUE,
     error |-> "profile_unavailable", seen |-> FALSE, first |-> FALSE]

\* The error shown is that of the first request that failed, which a healthy API
\* hides; of the sessions only when their first page did.
ApiError(o) ==
    LET codes == [i \in 1..5 |-> HttpJson(o.api,
                    <<o.api.health, o.api.detailed, o.api.jobs, o.api.sessions[1].answer,
                      o.api.toolsets>>[i])]
        failures == SelectSeq(codes, LAMBDA c : c # "ok")
    IN  IF (codes[1] = "ok" /\ o.api.healthy) \/ failures = <<>> THEN None ELSE failures[1]

\* seen and first are of the model: whether the API or the command line answered,
\* and whether there was nothing to keep.
ProfileStats(p, o, file) ==
    LET first == file.profile # p
        previous == IF first THEN Unknown(p) ELSE file
        seen == HttpJson(o.api, o.api.health) = "ok" \/ o.cli.found
        previousUsed == ~seen /\ ~first
        updated == IF previousUsed THEN previous.updated ELSE hermesRun
        identity == ModelIdentity(o, previous)
    IN  [profile |-> p, provider |-> identity.provider, model |-> identity.model,
         by |-> identity.by, jobs |-> Jobs(o, previous), sessions |-> Sessions(o, previous),
         usage |-> Usage(o, previous), updated |-> updated, received |-> hermesRun,
         stale |-> previousUsed \/ updated = 0, seen |-> seen, first |-> first,
         error |-> ApiError(o)]

\* Mutant: the file of a missing profile is kept as it was.
MissingProfileKept(p, file) ==
    [(IF file = NoFile THEN Unknown(p) ELSE file) EXCEPT
        !.received = hermesRun, !.error = "profile_unavailable", !.seen = FALSE, !.first = FALSE]

\* A profile whose directory is gone keeps its file but for this.
MissingProfile(p, file) ==
    [(IF file = NoFile THEN Unknown(p) ELSE file) EXCEPT
        !.received = hermesRun, !.stale = TRUE, !.error = "profile_unavailable",
        !.seen = FALSE, !.first = FALSE]

\* Names that are no file name, and repeated ones, are left out: what is kept of
\* the list, in its order.
Kept(raw) == {i \in DOMAIN raw : raw[i] \in ProfileNames /\ \A j \in 1..(i - 1) : raw[j] # raw[i]}
Rank(places, i) == Cardinality({j \in places : j <= i})
NormalizeProfiles(raw) ==
    [n \in 1..Min2(Cardinality(Kept(raw)), MaxProfiles) |->
        raw[CHOOSE i \in Kept(raw) : Rank(Kept(raw), i) = n]]

-----------------------------------------------------------------------------
(* A run. *)

HermesInit ==
    /\ hermesRun = 0 /\ exporter = Resting
    /\ files = [f \in ProfileNames \cup {Root} |-> NoFile]
    /\ observed = [p \in ProfileNames |-> 0]
    /\ pairs = {}

StartExport ==
    /\ exporter.pc = "idle" /\ hermesRun < MaxRuns
    /\ hermesRun' = hermesRun + 1
    /\ \E raw \in RawLists :
          exporter' = [Resting EXCEPT !.pc = "profiles", !.registered = NormalizeProfiles(raw)]
    /\ UNCHANGED <<files, observed, pairs>>

\* The pairs an observation shows: of one source, or of the configuration.
PairsOf(o) ==
    LET sources == LiveSources(o) \o <<SummarizeConfig(o.configs)>>
    IN  {<<sources[i].provider, sources[i].model>> : i \in DOMAIN sources}

CollectProfile ==
    /\ exporter.pc = "profiles" /\ Len(exporter.done) < Len(exporter.registered)
    /\ LET p == exporter.registered[Len(exporter.done) + 1] IN
       \E o \in Observations :
          /\ exporter' = [exporter EXCEPT !.pc = "replace", !.staged =
                IF o.dir THEN ProfileStats(p, o, files[p]) ELSE MissingProfile(p, files[p])]
          /\ pairs' = IF o.dir THEN pairs \cup PairsOf(o) ELSE pairs
    /\ UNCHANGED <<hermesRun, files, observed>>

\* atomic_write: the staged file takes the place of the one before it.
ReplaceProfile ==
    /\ exporter.pc = "replace"
    /\ files' = [files EXCEPT ![exporter.staged.profile] = exporter.staged]
    /\ exporter' = [exporter EXCEPT !.pc = "profiles", !.staged = NoFile,
                                    !.done = Append(@, exporter.staged)]
    /\ observed' = IF exporter.staged.seen \/ exporter.staged.first
                   THEN [observed EXCEPT ![exporter.staged.profile] = hermesRun] ELSE observed
    /\ UNCHANGED <<hermesRun, pairs>>

\* Files of other profiles are removed, those that can be.
RemoveUnregistered ==
    /\ exporter.pc = "profiles" /\ Len(exporter.done) = Len(exporter.registered)
    /\ \E gone \in SUBSET {p \in ProfileNames \ Range(exporter.registered) : files[p] # NoFile} :
          /\ files' = [f \in DOMAIN files |-> IF f \in gone THEN NoFile ELSE files[f]]
          /\ observed' = [p \in ProfileNames |-> IF p \in gone THEN 0 ELSE observed[p]]
    /\ exporter' = [exporter EXCEPT !.pc = "root"]
    /\ UNCHANGED <<hermesRun, pairs>>

ReplaceRoot ==
    /\ exporter.pc = "root"
    /\ LET done == exporter.done
           times == {done[i].updated : i \in DOMAIN done} \cup {0} IN
       files' = [files EXCEPT ![Root] =
          [profile |-> Root, profiles |-> done, received |-> hermesRun,
           updated |-> CHOOSE t \in times : \A u \in times : u <= t,
           stale |-> \A i \in DOMAIN done : done[i].stale,
           error |-> CASE done = <<>> -> "not_reported"
                       [] \E i \in DOMAIN done : done[i].error # None -> "partial_failure"
                       [] done # <<>> /\ \A i \in DOMAIN done : done[i].error = None -> None]]
    /\ exporter' = Resting
    /\ UNCHANGED <<hermesRun, observed, pairs>>

\* A kill, or an error of the file system: nothing more is written.
Die ==
    /\ exporter.pc # "idle"
    /\ exporter' = Resting
    /\ UNCHANGED <<hermesRun, files, observed, pairs>>

HermesNext ==
    \/ StartExport \/ CollectProfile \/ ReplaceProfile
    \/ RemoveUnregistered \/ ReplaceRoot \/ Die

HermesSpec == HermesInit /\ [][HermesNext]_hermesVars

-----------------------------------------------------------------------------
\* However runs fail and are killed, a file tells the age of what it shows: it is
\* current only when the API or the command line answered the run that wrote it,
\* or nothing had been known of the profile; a stale one has the time of the last
\* run that was so, whatever parts of it were observed since.  hermes.json shows
\* the profiles of one run and is as old as they are; it is never newer than the
\* files it was made of (main, src/scripts/export-hermes-status.py).
ExportTellsItsAge ==
    /\ \A p \in ProfileNames : files[p] # NoFile =>
          /\ files[p].updated = observed[p]
          /\ files[p].stale <=> files[p].received # files[p].updated
          /\ ~files[p].stale => files[p].seen \/ files[p].first
    /\ files[Root] # NoFile =>
          LET root == files[Root] IN
          \A i \in DOMAIN root.profiles :
              /\ root.profiles[i].received = root.received
              /\ root.profiles[i].updated <= root.updated
              /\ ~root.stale => \E j \in DOMAIN root.profiles : ~root.profiles[j].stale
              /\ files[root.profiles[i].profile] # NoFile =>
                    files[root.profiles[i].profile].received >= root.received

\* "only provider-compatible runtime or cached observations may fill an omitted
\* configured model.  This prevents a new provider from being paired with a stale
\* provider's CLI model" (profile_stats, src/scripts/export-hermes-status.py): with
\* the provider from the configuration, the model was seen with that provider.
ConfiguredProviderKeepsItsModel ==
    \A p \in ProfileNames :
        (files[p] # NoFile /\ files[p].by = "config" /\ files[p].model # None) =>
            <<files[p].provider, files[p].model>> \in pairs
=============================================================================
