--------------------------- MODULE CollectorProofs ---------------------------
(* The collectors of a client's extension domains: a UniFi gateway, for any  *)
(* callers, delays and answers; the API of its controller, for any lists of  *)
(* sites and devices; the ports of a device, for any models and rows, and    *)
(* its WANs, for any names; the storage of a host, for any stack; SMART,     *)
(* for any bridges; EasyTier; Lucky, for any lists; and the exporter of      *)
(* Hermes, for any profiles.                                                 *)
EXTENDS UnifiTelemetry, UnifiApi, UnifiPorts, UnifiWans, StorageInventory,
        SmartTransport, EasyTierMonitor, LuckyMonitor, HermesExport, FiniteSetTheorems,
        SequenceTheorems, WellFoundedInduction, TLAPS

USE UnifiAssumption DEF Free
-----------------------------------------------------------------------------
(* The backoff of a UniFi gateway's acquisitions. *)

\* The delay after the i-th refusal of a streak.
Delay(i) == BackoffDelays[IF i < Len(BackoffDelays) THEN i ELSE Len(BackoffDelays)]

Acquisition == [n : Nat, began : Nat, core : CoreOutcomes \cup {"none"},
                diagnostics : BOOLEAN, filesystem : BOOLEAN, api : BOOLEAN]

BackoffTypes ==
    /\ unifiClock \in Nat
    /\ acquisition \in Acquisition
    /\ failureStreak \in Nat
    /\ retryAfter \in Nat
    /\ rejected \in Seq(Nat)

\* The streak counts the refusals and its last one sets when to try again; the
\* acquisition under way began after that.  The times alone would not do: it is
\* the lock that keeps retryAfter from moving between the test and the end.
BackoffHolds ==
    /\ failureStreak = Len(rejected)
    /\ rejected # <<>> => retryAfter = rejected[Len(rejected)] + Delay(Len(rejected))
    /\ collectLock # Free => acquisition.began >= retryAfter

BackoffInv == BackoffTypes /\ BackoffHolds /\ RefusedCredentialsRest

\* A delay is a number of seconds.
LEMMA DelayType == ASSUME NEW i \in Nat \ {0} PROVE Delay(i) \in Nat
<1>1. Len(BackoffDelays) \in Nat \ {0}
  OBVIOUS
<1>2. (IF i < Len(BackoffDelays) THEN i ELSE Len(BackoffDelays)) \in 1..Len(BackoffDelays)
  BY <1>1
<1> QED BY <1>2 DEF Delay

\* The end of an acquisition, whatever it shows, keeps the distances.
LEMMA StoreStep ==
  ASSUME BackoffInv, NEW c \in Callers, collectLock = c, NEW payload, Store(c, payload)
  PROVE  BackoffInv'
<1> DEFINE began == acquisition.began
<1>1. /\ began \in Nat /\ began >= retryAfter
      /\ failureStreak = Len(rejected) /\ rejected \in Seq(Nat)
  BY DEF BackoffInv, BackoffTypes, BackoffHolds, Acquisition
<1>2. CASE payload.stale /\ payload.error = Refused
  <2>1. /\ failureStreak' = failureStreak + 1
        /\ rejected' = Append(rejected, began)
        /\ retryAfter' = began + Delay(failureStreak + 1)
    <3>1. (IF failureStreak < Len(BackoffDelays) THEN failureStreak + 1 ELSE Len(BackoffDelays))
            = (IF failureStreak + 1 < Len(BackoffDelays) THEN failureStreak + 1
               ELSE Len(BackoffDelays))
      BY <1>1
    <3> QED BY <1>2, <3>1 DEF Store, Backoff, Delay
  <2>2. Delay(failureStreak + 1) \in Nat
    BY <1>1, DelayType
  <2>3. BackoffTypes'
    BY <1>1, <2>1, <2>2 DEF BackoffInv, BackoffTypes, Store
  <2>4. BackoffHolds'
    BY <1>1, <2>1 DEF BackoffHolds, Store
  <2>5. RefusedCredentialsRest'
    <3>0. Len(rejected') = Len(rejected) + 1
      BY <1>1, <2>1
    <3> SUFFICES ASSUME NEW i \in 1..(Len(rejected) + 1) - 1
                 PROVE  rejected'[i + 1] - rejected'[i] >= Delay(i)
      BY <3>0 DEF RefusedCredentialsRest, Delay
    <3>1. CASE i < Len(rejected)
      <4>1. rejected'[i] = rejected[i] /\ rejected'[i + 1] = rejected[i + 1]
        BY <1>1, <2>1, <3>1
      <4> QED BY <1>1, <3>1, <4>1 DEF BackoffInv, RefusedCredentialsRest, Delay
    <3>2. CASE i = Len(rejected)
      <4>1. rejected # <<>> /\ rejected[i] \in Nat
        BY <1>1, <3>2
      <4>2. retryAfter = rejected[i] + Delay(i)
        BY <3>2, <4>1 DEF BackoffInv, BackoffHolds
      <4>3. rejected'[i] = rejected[i] /\ rejected'[i + 1] = began
        BY <1>1, <2>1, <3>2
      <4>4. Delay(i) \in Nat
        BY DelayType
      <4> QED BY <1>1, <4>1, <4>2, <4>3, <4>4
    <3> QED BY <1>1, <3>1, <3>2
  <2> QED BY <2>3, <2>4, <2>5 DEF BackoffInv
<1>3. CASE ~(payload.stale /\ payload.error = Refused)
  <2>1. failureStreak' = 0 /\ retryAfter' = 0 /\ rejected' = <<>>
    BY <1>3 DEF Store, Backoff
  <2> QED BY <1>1, <2>1 DEF BackoffInv, BackoffTypes, BackoffHolds, RefusedCredentialsRest, Store
<1> QED BY <1>2, <1>3

\* The steps that leave the streak alone.
LEMMA OtherSteps ==
  ASSUME BackoffInv,
         UNCHANGED <<failureStreak, retryAfter, rejected>>,
         unifiClock' \in Nat, acquisition' \in Acquisition,
         collectLock' # Free => acquisition'.began >= retryAfter
  PROVE  BackoffInv'
BY DEF BackoffInv, BackoffTypes, BackoffHolds, RefusedCredentialsRest

\* Credentials a gateway refused rest for the delay of their place in the streak,
\* whatever the callers ask for at once and whatever the gateway answers
\* (collect_unifi_once, src/clients/host_collector.py).
THEOREM UnifiRefusedRest == UnifiSpec => []RefusedCredentialsRest
<1>1. UnifiInit => BackoffInv
  BY DEF UnifiInit, BackoffInv, BackoffTypes, BackoffHolds, RefusedCredentialsRest,
         Acquisition, NoRaw, Raw
<1>2. BackoffInv /\ [UnifiNext]_unifiVars => BackoffInv'
  <2> SUFFICES ASSUME BackoffInv, [UnifiNext]_unifiVars PROVE BackoffInv'
    OBVIOUS
  <2>1. /\ unifiClock \in Nat /\ acquisition \in Acquisition /\ retryAfter \in Nat
        /\ collectLock # Free => acquisition.began >= retryAfter
    BY DEF BackoffInv, BackoffTypes, BackoffHolds
  <2>2. CASE UnifiTick
    BY <2>1, <2>2, OtherSteps DEF UnifiTick
  <2>3. ASSUME NEW c \in Callers, Acquire(c) PROVE BackoffInv'
    <3>1. acquisition' \in Acquisition /\ acquisition'.began = unifiClock
      BY <2>1, <2>3 DEF Acquire, Acquisition, Raw
    <3> QED BY <2>1, <2>3, <3>1, OtherSteps DEF Acquire, MayAcquire
  <2>4. ASSUME NEW c \in Callers, CollectCore(c) PROVE BackoffInv'
    <3>1. acquisition' \in Acquisition /\ acquisition'.began = acquisition.began
      BY <2>1, <2>4 DEF CollectCore, Acquisition
    <3> QED BY <2>1, <2>4, <3>1, OtherSteps DEF CollectCore
  <2>5. ASSUME NEW c \in Callers, CollectOptional(c) PROVE BackoffInv'
    <3>1. acquisition' \in Acquisition /\ acquisition'.began = acquisition.began
      BY <2>1, <2>5 DEF CollectOptional, Acquisition
    <3> QED BY <2>1, <2>5, <3>1, OtherSteps DEF CollectOptional
  <2>6. ASSUME NEW c \in Callers, CollectApi(c) PROVE BackoffInv'
    <3>1. acquisition' \in Acquisition /\ acquisition'.began = acquisition.began
      BY <2>1, <2>6 DEF CollectApi, Acquisition
    <3> QED BY <2>1, <2>6, <3>1, OtherSteps DEF CollectApi
  <2>7. ASSUME NEW c \in Callers, FinishAcquisition(c) PROVE BackoffInv'
    BY <2>7, StoreStep DEF FinishAcquisition, Collecting
  <2>8. ASSUME NEW c \in Callers, AcquisitionRaises(c) PROVE BackoffInv'
    BY <2>8, StoreStep DEF AcquisitionRaises, Collecting
  <2>9. CASE UNCHANGED unifiVars
    BY <2>1, <2>9, OtherSteps DEF unifiVars
  <2> QED BY <2>2, <2>3, <2>4, <2>5, <2>6, <2>7, <2>8, <2>9 DEF UnifiNext, ReturnShown
<1>3. BackoffInv => RefusedCredentialsRest
  BY DEF BackoffInv
<1> QED BY <1>1, <1>2, <1>3, PTL DEF UnifiSpec

\* What a payload kept says of the acquisitions that ended.
KeptIsLast(kept) ==
    /\ kept.system = kept.updated
    /\ kept.filesystem \in {0, kept.updated} /\ kept.diagnostics \in {0, kept.updated}
    /\ kept.updated \in 0..Len(past)
    /\ kept.updated # 0 => past[kept.updated].core = "ok"
    /\ \A n \in 1..Len(past) : past[n].core = "ok" => n <= kept.updated
    /\ kept.api = IF kept.updated # 0 /\ past[kept.updated].api THEN kept.updated ELSE 0

\* The payload shown depends on the one kept, and its date on the number of the
\* acquisition under way: it is the next of those that ended, thanks to the lock.
DatesInv ==
    /\ unifiClock \in Nat /\ acquisition \in Acquisition
    /\ past \in Seq([core : CoreOutcomes \cup {"none", "raised"}, api : BOOLEAN])
    /\ acquisition.n = IF collectLock = Free THEN Len(past) ELSE Len(past) + 1
    /\ KeptIsLast(domainPrevious)
    /\ ShownIsDated

\* An acquisition is appended to those that ended.
LEMMA OneMoreEnded ==
  ASSUME DatesInv, NEW core \in CoreOutcomes \cup {"none", "raised"}, NEW api \in BOOLEAN,
         past' = Append(past, [core |-> core, api |-> api])
  PROVE  /\ past' \in Seq([core : CoreOutcomes \cup {"none", "raised"}, api : BOOLEAN])
         /\ Len(past) \in Nat /\ Len(past') = Len(past) + 1
         /\ \A n \in 1..Len(past) : past'[n] = past[n]
         /\ past'[Len(past) + 1].core = core /\ past'[Len(past) + 1].api = api
BY DEF DatesInv

\* One that did not succeed leaves what is kept the last that did.
LEMMA KeptOverFailure ==
  ASSUME DatesInv, NEW core \in CoreOutcomes \cup {"none", "raised"}, NEW api \in BOOLEAN,
         core # "ok", past' = Append(past, [core |-> core, api |-> api]),
         domainPrevious' = domainPrevious
  PROVE  KeptIsLast(domainPrevious)'
<1> DEFINE kept == domainPrevious
           before == Len(past)
<1>1. /\ before \in Nat /\ Len(past') = before + 1
      /\ \A n \in 1..before : past'[n] = past[n]
      /\ past'[before + 1].core = core
  BY OneMoreEnded
<1>2. KeptIsLast(kept)
  BY DEF DatesInv
<1>3. kept.updated # 0 => kept.updated \in 1..before /\ past'[kept.updated] = past[kept.updated]
  BY <1>1, <1>2 DEF KeptIsLast
<1>4. \A n \in 1..(before + 1) : past'[n].core = "ok" => n <= kept.updated
  <2> SUFFICES ASSUME NEW n \in 1..(before + 1), past'[n].core = "ok" PROVE n <= kept.updated
    OBVIOUS
  <2>1. n \in 1..before
    BY <1>1
  <2> QED BY <1>1, <1>2, <2>1 DEF KeptIsLast
<1> QED BY <1>1, <1>2, <1>3, <1>4 DEF KeptIsLast

\* The end of an acquisition.
LEMMA FinishIsDated ==
  ASSUME DatesInv, NEW c \in Callers, FinishAcquisition(c)
  PROVE  KeptIsLast(domainPrevious)' /\ ShownIsDated'
<1> DEFINE raw == acquisition
           payload == Normalize(raw)
           kept == domainPrevious
           ended == Len(past) + 1
<1>1. /\ unifiShown' = payload
      /\ domainPrevious' = IF payload.stale THEN kept ELSE payload
      /\ past' = Append(past, [core |-> raw.core, api |-> raw.api])
      /\ raw.n = ended /\ ended \in Nat \ {0}
  <2>1. collectLock # Free
    BY DEF FinishAcquisition, Collecting
  <2> QED BY <2>1 DEF FinishAcquisition, Store, DatesInv
<1>2. raw.core \in CoreOutcomes \cup {"none", "raised"} /\ raw.api \in BOOLEAN
      /\ raw.core # "raised"
  BY DEF DatesInv, Acquisition, CoreOutcomes, TransportErrors, Refused
<1>3. /\ Len(past') = ended
      /\ \A n \in 1..ended - 1 : past'[n] = past[n]
      /\ past'[ended].core = raw.core /\ past'[ended].api = raw.api
  BY <1>1, <1>2, OneMoreEnded
<1>4. KeptIsLast(kept)
  BY DEF DatesInv
<1>5. CASE raw.core = "ok"
  <2>1. /\ payload.system = ended /\ payload.updated = ended /\ payload.lastSuccess = ended
        /\ payload.filesystem \in {0, ended} /\ payload.diagnostics \in {0, ended}
        /\ payload.api = (IF raw.api THEN ended ELSE 0) /\ payload.stale = FALSE
    BY <1>1, <1>5 DEF Normalize, NormalizeSuccess, ApiOf
  <2>2. domainPrevious' = payload
    BY <1>1, <2>1
  <2> HIDE DEF payload, raw, kept, ended
  <2>3. KeptIsLast(domainPrevious)'
    BY <1>1, <1>3, <1>5, <2>1, <2>2 DEF KeptIsLast
  <2>4. ShownIsDated'
    BY <1>1, <1>3, <1>5, <2>1 DEF ShownIsDated
  <2> QED BY <2>3, <2>4
<1>6. CASE raw.core # "ok"
  <2>1. /\ payload.system = kept.system /\ payload.updated = kept.updated
        /\ payload.lastSuccess = kept.updated /\ payload.filesystem = kept.filesystem
        /\ payload.diagnostics = kept.diagnostics /\ payload.stale = TRUE
        /\ payload.api = IF raw.core = "values" THEN kept.api ELSE IF raw.api THEN ended ELSE 0
    BY <1>1, <1>6 DEF Normalize, NormalizeFailure, ApiOf
  <2>2. domainPrevious' = kept
    BY <1>1, <2>1
  <2>3. KeptIsLast(domainPrevious)'
    BY <1>1, <1>2, <1>6, <2>2, KeptOverFailure
  <2>4. /\ unifiShown'.system = kept.updated /\ unifiShown'.updated = kept.updated
        /\ unifiShown'.lastSuccess = kept.updated /\ unifiShown'.stale = TRUE
        /\ unifiShown'.filesystem \in {0, kept.updated}
        /\ unifiShown'.diagnostics \in {0, kept.updated}
        /\ unifiShown'.api = IF raw.core = "values" THEN kept.api ELSE IF raw.api THEN ended ELSE 0
    BY <1>1, <1>4, <2>1 DEF KeptIsLast
  <2>5. /\ kept.updated \in 0..ended - 1
        /\ kept.updated # 0 => past'[kept.updated].core = "ok"
        /\ \A n \in 1..ended : past'[n].core = "ok" => n <= kept.updated
        /\ kept.api = IF kept.updated # 0 /\ past'[kept.updated].api THEN kept.updated ELSE 0
    <3>1. kept.updated \in 0..ended - 1
      BY <1>1, <1>4 DEF KeptIsLast
    <3> QED BY <1>3, <2>2, <2>3, <3>1 DEF KeptIsLast
  <2> HIDE DEF payload, raw, kept, ended
  <2>6. ShownIsDated'
    BY <1>1, <1>2, <1>3, <2>4, <2>5 DEF ShownIsDated
  <2> QED BY <2>3, <2>6
<1> QED BY <1>5, <1>6

\* Whatever passes fail, and in whatever order, the measurements shown are those of
\* the last acquisition that succeeded and carry its date; the API observation is
\* that of the acquisition that ended last, but for a refused value, which brings
\* back the one of the date (normalize, src/clients/unifi_normalizer.py).
THEOREM UnifiShownIsDated == UnifiSpec => []ShownIsDated
<1>1. UnifiInit => DatesInv
  <2> SUFFICES ASSUME UnifiInit PROVE DatesInv
    OBVIOUS
  <2>1. /\ past = <<>> /\ Len(past) = 0
        /\ past \in Seq([core : CoreOutcomes \cup {"none", "raised"}, api : BOOLEAN])
    BY DEF UnifiInit
  <2>2. acquisition \in Acquisition /\ acquisition.n = 0 /\ collectLock = Free
    BY DEF UnifiInit, Acquisition, NoRaw, Raw
  <2>3. KeptIsLast(domainPrevious)
    BY <2>1 DEF UnifiInit, KeptIsLast, NoPayload
  <2>4. ShownIsDated
    BY <2>1 DEF UnifiInit, ShownIsDated, NoPayload
  <2>5. unifiClock \in Nat
    BY DEF UnifiInit
  <2> QED BY <2>1, <2>2, <2>3, <2>4, <2>5 DEF DatesInv
<1>2. DatesInv /\ [UnifiNext]_unifiVars => DatesInv'
  <2> SUFFICES ASSUME DatesInv, [UnifiNext]_unifiVars PROVE DatesInv'
    OBVIOUS
  <2>0. ASSUME UNCHANGED <<past, domainPrevious, unifiShown>>, acquisition' \in Acquisition,
               unifiClock' \in Nat,
               acquisition'.n = IF collectLock' = Free THEN Len(past) ELSE Len(past) + 1
        PROVE  DatesInv'
    BY <2>0 DEF DatesInv, KeptIsLast, ShownIsDated
  <2>1. CASE UNCHANGED <<acquisition, collectLock, past, domainPrevious, unifiShown>>
             /\ unifiClock' \in Nat
    BY <2>0, <2>1 DEF DatesInv
  <2>2. ASSUME NEW c \in Callers, Acquire(c) PROVE DatesInv'
    <3>1. /\ acquisition' = Raw(acquisition.n + 1, unifiClock) /\ collectLock' # Free
          /\ acquisition.n = Len(past) /\ unifiClock \in Nat
      BY <2>2 DEF Acquire, MayAcquire, DatesInv
    <3>2. acquisition' \in Acquisition /\ acquisition'.n = Len(past) + 1
      BY <3>1 DEF Raw, Acquisition, DatesInv
    <3> QED BY <2>0, <2>2, <3>1, <3>2 DEF Acquire
  <2>3. ASSUME NEW c \in Callers, CollectCore(c) \/ CollectOptional(c) \/ CollectApi(c)
        PROVE  DatesInv'
    <3>1. /\ acquisition' \in Acquisition /\ acquisition'.n = acquisition.n
          /\ unifiClock' \in Nat
      BY <2>3 DEF CollectCore, CollectOptional, CollectApi, Acquisition, DatesInv
    <3>2. UNCHANGED <<past, domainPrevious, unifiShown, collectLock>>
      BY <2>3 DEF CollectCore, CollectOptional, CollectApi
    <3> QED BY <2>0, <3>1, <3>2 DEF DatesInv
  <2>4. ASSUME NEW c \in Callers, FinishAcquisition(c) PROVE DatesInv'
    <3>1. /\ UNCHANGED <<acquisition, unifiClock>> /\ collectLock' = Free /\ collectLock # Free
          /\ past' = Append(past, [core |-> acquisition.core, api |-> acquisition.api])
      BY <2>4 DEF FinishAcquisition, Store, Collecting
    <3>2. acquisition.core \in CoreOutcomes \cup {"none", "raised"} /\ acquisition.api \in BOOLEAN
      BY DEF DatesInv, Acquisition
    <3>3. /\ past' \in Seq([core : CoreOutcomes \cup {"none", "raised"}, api : BOOLEAN])
          /\ Len(past') = Len(past) + 1
      BY <3>1, <3>2, OneMoreEnded
    <3>4. KeptIsLast(domainPrevious)' /\ ShownIsDated'
      BY <2>4, FinishIsDated
    <3> QED BY <3>1, <3>3, <3>4 DEF DatesInv
  <2>5. ASSUME NEW c \in Callers, AcquisitionRaises(c) PROVE DatesInv'
    <3>1. /\ UNCHANGED <<acquisition, domainPrevious, unifiClock>>
          /\ collectLock' = Free /\ collectLock # Free
          /\ past' = Append(past, [core |-> "raised", api |-> FALSE])
          /\ unifiShown' = CollectorFailure
      BY <2>5 DEF AcquisitionRaises, Store, Collecting
    <3>2. /\ past' \in Seq([core : CoreOutcomes \cup {"none", "raised"}, api : BOOLEAN])
          /\ Len(past) \in Nat /\ Len(past') = Len(past) + 1
          /\ past'[Len(past) + 1].core = "raised"
      BY <3>1, OneMoreEnded
    <3>3. KeptIsLast(domainPrevious)'
      BY <3>1, KeptOverFailure
    <3>4. ShownIsDated'
      BY <3>1, <3>2 DEF ShownIsDated, CollectorFailure, NoPayload
    <3> QED BY <3>1, <3>2, <3>3, <3>4 DEF DatesInv
  <2>6. CASE UnifiTick \/ UNCHANGED unifiVars
    <3>1. unifiClock' \in Nat
      BY <2>6 DEF DatesInv, UnifiTick, unifiVars
    <3> QED BY <2>1, <2>6, <3>1 DEF UnifiTick, unifiVars
  <2> QED BY <2>2, <2>3, <2>4, <2>5, <2>6 DEF UnifiNext, ReturnShown
<1>3. DatesInv => ShownIsDated
  BY DEF DatesInv
<1> QED BY <1>1, <1>2, <1>3, PTL DEF UnifiSpec

HIDE UnifiAssumption DEF Free
-----------------------------------------------------------------------------
(* The rates of EasyTier. *)

\* The fields of a cycle.
CycleFields == {"status", "inst", "version", "peers", "sampled", "network", "bytes"}

\* Who answered in the cycle under way, so far.
Said(name) == Answered(cycle.status, name)

\* The counters of a cycle are those of an instance no older than the one it named,
\* which is no older than the baseline's: so it is the order of the commands, in a
\* cycle and over two, that the identities stand for.  A baseline of another
\* instance is a rate spoiled at most.
EasyTierInv ==
    /\ instance \in Nat \ {0} /\ spoiled \in Nat
    /\ DOMAIN cycle = CycleFields
    /\ cycle.status \in Seq(BOOLEAN) /\ cycle.inst \in Nat /\ cycle.sampled \in Nat
    /\ previousTraffic.of \in Nat /\ previousTraffic.inst \in Nat
    /\ previousTraffic.of <= instance
    /\ Said("node_info") => previousTraffic.of <= cycle.inst /\ cycle.inst \in 1..instance
    /\ Said("stats_show") => previousTraffic.of <= cycle.sampled /\ cycle.sampled \in 1..instance
    /\ Said("node_info") /\ Said("stats_show") => cycle.inst <= cycle.sampled
    /\ previousTraffic.inst # 0 => previousTraffic.inst <= previousTraffic.of
    /\ spoiled <= IF previousTraffic.of = 0 THEN 0 ELSE previousTraffic.of - 1
    /\ previousTraffic = NoSample \/ previousTraffic.of # 0
    /\ RestartSpoilsOneRate

\* One command more: who answered before still has, and the next may.
LEMMA OneMoreAnswer ==
  ASSUME NEW status \in Seq(BOOLEAN), NEW ok \in BOOLEAN, NEW name,
         Len(status) < Len(Commands)
  PROVE  Answered(Append(status, ok), name)
           <=> Answered(status, name) \/ (ok /\ Commands[Len(status) + 1] = name)
<1> DEFINE after == Append(status, ok)
           n == Len(status)
<1>1. /\ n \in Nat /\ DOMAIN after = 1..(n + 1) /\ DOMAIN status = 1..n
      /\ after[n + 1] = ok /\ \A i \in 1..n : after[i] = status[i]
  OBVIOUS
<1>2. Succeeded(after) = Succeeded(status) \cup (IF ok THEN {n + 1} ELSE {})
  BY <1>1 DEF Succeeded
<1> QED BY <1>2 DEF Answered

\* When node_info is asked, stats_show has not answered in the same cycle.
LEMMA NodeBeforeStats ==
  ASSUME NEW status \in Seq(BOOLEAN), Len(status) < Len(Commands),
         Commands[Len(status) + 1] = "node_info"
  PROVE  ~Answered(status, "stats_show")
<1> SUFFICES ASSUME NEW i \in DOMAIN status, Commands[i] = "stats_show" PROVE FALSE
  BY DEF Answered, Succeeded
<1>1. Len(Commands) \in Nat /\ DOMAIN Commands = 1..Len(Commands)
  BY EasyTierAssumption
<1>2. i \in 1..Len(status) /\ Len(status) \in Nat
  OBVIOUS
<1>3. i \in DOMAIN Commands /\ Len(status) + 1 \in DOMAIN Commands
  BY <1>1, <1>2
<1>4. Len(status) + 1 < i
  BY <1>3, EasyTierAssumption
<1> QED BY <1>2, <1>4

\* What an end of a cycle makes of its sample.
LEMMA CycleEnds ==
  ASSUME EasyTierInv, Said("stats_show")
  PROVE  LET sample == Sample(cycle)
         IN  /\ sample.of = cycle.sampled
             /\ sample.of \in 1..instance /\ previousTraffic.of <= sample.of
             /\ sample.inst \in Nat
             /\ sample.inst # 0 => /\ sample.inst <= sample.of
                                   /\ previousTraffic.of <= sample.inst
<1>1. /\ Sample(cycle).of = cycle.sampled
      /\ Sample(cycle).inst = IF Said("node_info") THEN cycle.inst ELSE 0
  BY DEF Sample, InstanceIdentity, Said
<1> QED BY <1>1 DEF EasyTierInv

\* No restart spoils two rates, whichever commands fail and wherever in the cycles
\* instances change; and when node_info answers, the baseline of a rate is of the
\* instance it named (_apply_stats, src/clients/easytier_collector.py).
THEOREM EasyTierSpoilsOneRate == EasyTierSpec => []RestartSpoilsOneRate
<1>1. EasyTierInit => EasyTierInv
  <2> SUFFICES ASSUME EasyTierInit PROVE EasyTierInv
    OBVIOUS
  <2>1. \A name : ~Said(name)
    BY DEF EasyTierInit, NoCycle, Said, Answered, Succeeded
  <2>2. /\ instance = 1 /\ spoiled = 0 /\ rated = NoRate
        /\ cycle.status = <<>> /\ cycle.inst = 0 /\ cycle.sampled = 0
        /\ DOMAIN cycle = CycleFields /\ previousTraffic = NoSample
        /\ previousTraffic.of = 0 /\ previousTraffic.inst = 0
    BY DEF EasyTierInit, NoCycle, NoSample, CycleFields
  <2>3. RestartSpoilsOneRate
    BY <2>2 DEF RestartSpoilsOneRate
  <2> QED BY <2>1, <2>2, <2>3 DEF EasyTierInv
<1>2. EasyTierInv /\ [EasyTierNext]_easytierVars => EasyTierInv'
  <2> SUFFICES ASSUME EasyTierInv, [EasyTierNext]_easytierVars PROVE EasyTierInv'
    OBVIOUS
  <2>1. ASSUME NEW ok \in BOOLEAN, RunCommand(ok) PROVE EasyTierInv'
    <3> DEFINE node == ok /\ NextIs("node_info")
               stats == ok /\ NextIs("stats_show")
    <3>1. /\ UNCHANGED <<instance, previousTraffic, rated, spoiled>>
          /\ cycle.status \in Seq(BOOLEAN) /\ Len(cycle.status) < Len(Commands)
      BY <2>1 DEF RunCommand, CycleRunning, EasyTierInv
    <3> DEFINE Answer(version, peers, network) ==
                 [cycle EXCEPT
                    !.status = Append(@, ok), !.version = version, !.peers = peers,
                    !.network = network,
                    !.inst = IF node THEN instance ELSE @,
                    !.sampled = IF stats THEN instance ELSE @,
                    !.bytes = IF stats THEN traffic ELSE @]
               Versions == IF node THEN {"2.6", "other"} ELSE {cycle.version}
               Lists == IF ok /\ NextIs("peer_list") THEN PeerLists ELSE {cycle.peers}
               Labels == IF stats THEN Networks ELSE {cycle.network}
    <3>2. PICK version, peers, network : cycle' = Answer(version, peers, network)
      <4>1. \E version \in Versions, peers \in Lists, network \in Labels :
                cycle' = Answer(version, peers, network)
        BY <2>1, Zenon DEF RunCommand
      <4> HIDE DEF Answer, Versions, Lists, Labels
      <4> QED BY <4>1, Zenon
    <3>3. /\ cycle'.status = Append(cycle.status, ok)
          /\ cycle'.inst = (IF node THEN instance ELSE cycle.inst)
          /\ cycle'.sampled = (IF stats THEN instance ELSE cycle.sampled)
          /\ DOMAIN cycle' = CycleFields
      <4>1. DOMAIN cycle = CycleFields
        BY DEF EasyTierInv
      <4> HIDE DEF node, stats
      <4> QED BY <3>2, <4>1 DEF CycleFields, Answer
    <3>4. /\ Said("node_info")' <=> Said("node_info") \/ node
          /\ Said("stats_show")' <=> Said("stats_show") \/ stats
      BY <3>1, <3>3, OneMoreAnswer DEF Said, NextIs, CycleRunning
    <3>5. node => ~Said("stats_show") /\ ~stats
      BY <3>1, NodeBeforeStats DEF Said, NextIs
    <3>6. RestartSpoilsOneRate'
      BY <3>1 DEF RestartSpoilsOneRate, EasyTierInv
    <3>7. cycle'.status \in Seq(BOOLEAN)
      BY <3>1, <3>3
    <3> HIDE DEF node, stats
    <3> QED BY <3>1, <3>3, <3>4, <3>5, <3>6, <3>7 DEF EasyTierInv
  <2>2. CASE FinishCycle
    <3> DEFINE sample == Sample(cycle)
               answered == Said("stats_show")
               rate == answered /\ RateAllowed(previousTraffic, sample)
    <3>1. /\ UNCHANGED instance /\ cycle' = NoCycle
          /\ previousTraffic' = IF answered THEN sample ELSE previousTraffic
          /\ rated' = IF rate THEN <<previousTraffic, sample>> ELSE NoRate
          /\ spoiled' = IF rate /\ previousTraffic.of # sample.of THEN spoiled + 1 ELSE spoiled
      BY <2>2 DEF FinishCycle, Said
    <3>2. /\ cycle'.status = <<>> /\ cycle'.inst = 0 /\ cycle'.sampled = 0
          /\ DOMAIN cycle' = CycleFields /\ \A name : ~Said(name)'
      BY <3>1 DEF NoCycle, Said, Answered, Succeeded, CycleFields
    <3>3. answered => /\ sample.of \in 1..instance /\ previousTraffic.of <= sample.of
                      /\ sample.inst \in Nat
                      /\ sample.inst # 0 => sample.inst <= sample.of
                                           /\ previousTraffic.of <= sample.inst
      BY CycleEnds
    <3>4. rate => /\ previousTraffic.of # 0 /\ sample.inst = previousTraffic.inst
      BY DEF RateAllowed, EasyTierInv
    <3> HIDE DEF sample, rate, answered
    <3>5. rate => answered
      BY DEF rate
    <3>6. /\ spoiled' \in Nat
          /\ spoiled' <= IF previousTraffic'.of = 0 THEN 0 ELSE previousTraffic'.of - 1
      BY <3>1, <3>3, <3>4, <3>5 DEF EasyTierInv
    <3>7. /\ previousTraffic'.of \in Nat /\ previousTraffic'.inst \in Nat
          /\ previousTraffic'.of <= instance
          /\ previousTraffic'.inst # 0 => previousTraffic'.inst <= previousTraffic'.of
          /\ previousTraffic' = NoSample \/ previousTraffic'.of # 0
      BY <3>1, <3>3 DEF EasyTierInv
    <3>8. RestartSpoilsOneRate'
      <4>1. CASE rate
        <5>1. rated'[1] = previousTraffic /\ rated'[2] = sample
          BY <3>1, <4>1
        <5>2. sample.inst # 0 => previousTraffic.of = sample.inst
          BY <3>3, <3>4, <3>5, <4>1 DEF EasyTierInv
        <5> QED BY <3>1, <3>6, <3>7, <5>1, <5>2 DEF RestartSpoilsOneRate, EasyTierInv
      <4>2. CASE ~rate
        BY <3>1, <4>2 DEF RestartSpoilsOneRate, EasyTierInv
      <4> QED BY <4>1, <4>2
    <3> QED BY <3>1, <3>2, <3>6, <3>7, <3>8 DEF EasyTierInv
  <2>3. CASE CliUnavailable
    <3>1. UNCHANGED <<instance, cycle, previousTraffic, spoiled>> /\ rated' = NoRate
      BY <2>3 DEF CliUnavailable
    <3> QED BY <3>1 DEF EasyTierInv, RestartSpoilsOneRate, Said
  <2>4. CASE Restart
    <3>1. UNCHANGED <<cycle, previousTraffic, rated, spoiled>> /\ instance' = instance + 1
      BY <2>4 DEF Restart
    <3> QED BY <3>1 DEF EasyTierInv, RestartSpoilsOneRate, Said
  <2>5. CASE UNCHANGED <<instance, cycle, previousTraffic, rated, spoiled>>
    BY <2>5 DEF EasyTierInv, RestartSpoilsOneRate, Said
  <2> QED BY <2>1, <2>2, <2>3, <2>4, <2>5 DEF EasyTierNext, TrafficFlows, easytierVars
<1>3. EasyTierInv => RestartSpoilsOneRate
  BY DEF EasyTierInv
<1> QED BY <1>1, <1>2, <1>3, PTL DEF EasyTierSpec
-----------------------------------------------------------------------------
(* The API of a UniFi controller. *)

\* A collection under way has these fields.
RunShape(run) ==
    /\ run = [next |-> run.next, error |-> run.error, site |-> run.site, target |-> run.target,
              groups |-> run.groups, groupErrors |-> run.groupErrors,
              selector |-> run.selector, late |-> run.late]
    /\ run.next \in Nat \ {0}
    /\ run.error = [r \in DOMAIN run.error |-> run.error[r]]

Answered1(run, r) == r \in DOMAIN run.error /\ run.error[r] = "none"

\* The required requests are made in their order, each as soon as what it needs is
\* known, and what is known is what those before it answered.
RequiredInOrder(run) ==
    /\ run.next > 1 => "info" \in DOMAIN run.error
    /\ run.next > 2 <=> "sites" \in DOMAIN run.error
    /\ "devices" \in DOMAIN run.error => run.next > 3 /\ run.site # {}
    /\ run.next > 3 /\ run.site # {} => "devices" \in DOMAIN run.error
    /\ run.next > 4 /\ run.target => "device_detail" \in DOMAIN run.error
    /\ run.next > 5 /\ run.target => "device_stats" \in DOMAIN run.error
    /\ {"device_detail", "device_stats"} \cap DOMAIN run.error # {} => run.target
    /\ run.site # {} <=> Answered1(run, "sites")
    /\ run.target <=> Answered1(run, "devices")

ApiInv ==
    /\ apiRun = NoRun \/ (RunShape(apiRun) /\ RequiredInOrder(apiRun))
    /\ AvailableMeansAll

\* Where the requests are.
LEMMA ApiPositions ==
  /\ Len(ApiRequests) \in Nat /\ Len(ApiRequests) >= 6
  /\ ApiRequests[1] = "info" /\ ApiRequests[2] = "sites" /\ ApiRequests[3] = "devices"
  /\ ApiRequests[4] = "device_detail" /\ ApiRequests[5] = "device_stats"
  /\ \A i \in 6..Len(ApiRequests) : ApiRequests[i] \notin Required
<1>1. SiteRequests \in Seq(STRING)
  BY ApiAssumption
<1>2. /\ Len(ApiRequests) = Len(SiteRequests) + 6
      /\ \A i \in 6..Len(SiteRequests) + 5 : ApiRequests[i] = SiteRequests[i - 5]
      /\ ApiRequests[Len(SiteRequests) + 6] = Fanout
      /\ ApiRequests[1] = "info" /\ ApiRequests[2] = "sites" /\ ApiRequests[3] = "devices"
      /\ ApiRequests[4] = "device_detail" /\ ApiRequests[5] = "device_stats"
  BY <1>1 DEF ApiRequests
<1>3. \A i \in 1..Len(SiteRequests) : SiteRequests[i] \notin Required
  BY <1>1, ApiAssumption DEF Range
<1>4. Fanout \notin Required
  BY DEF Fanout, Required
<1>5. ASSUME NEW i \in 6..Len(ApiRequests) PROVE ApiRequests[i] \notin Required
  <2>1. CASE i = Len(SiteRequests) + 6
    BY <1>2, <1>4, <2>1
  <2>2. CASE i # Len(SiteRequests) + 6
    <3>1. i - 5 \in 1..Len(SiteRequests) /\ i \in 6..Len(SiteRequests) + 5
      BY <1>1, <1>2, <2>2
    <3> QED BY <1>2, <1>3, <3>1
  <2> QED BY <2>1, <2>2
<1> QED BY <1>1, <1>2, <1>5

\* What is noted of a request leaves what was noted of the others.
LEMMA NotedStep ==
  ASSUME NEW r, NEW error, NEW run, RunShape(run), Noted(r, error, run)
  PROVE  /\ RunShape(apiRun') /\ apiRun' # NoRun
         /\ apiRun'.next = run.next + 1 /\ apiRun'.site = run.site /\ apiRun'.target = run.target
         /\ DOMAIN apiRun'.error = DOMAIN run.error \cup {r}
         /\ \A x \in DOMAIN run.error \ {r} : apiRun'.error[x] = run.error[x]
         /\ apiRun'.error[r] = error
<1> DEFINE e == WithError(run.error, r, error)
           a == [run EXCEPT !.error = e]
<1>1. /\ e = [x \in DOMAIN e |-> e[x]] /\ DOMAIN e = DOMAIN run.error \cup {r}
      /\ \A x \in DOMAIN run.error \ {r} : e[x] = run.error[x]
      /\ e[r] = error
  BY DEF WithError
<1> HIDE DEF e
<1>2. a = [next |-> run.next, error |-> e, site |-> run.site, target |-> run.target,
           groups |-> run.groups, groupErrors |-> run.groupErrors,
           selector |-> run.selector, late |-> run.late]
  <2>1. run = [next |-> run.next, error |-> run.error, site |-> run.site, target |-> run.target,
               groups |-> run.groups, groupErrors |-> run.groupErrors,
               selector |-> run.selector, late |-> run.late]
    BY DEF RunShape
  <2> QED BY <2>1
<1>3. apiRun' = [a EXCEPT !.next = run.next + 1]
  BY Zenon DEF Noted, e
<1> HIDE DEF a
<1>4. apiRun' = [next |-> run.next + 1, error |-> e, site |-> run.site, target |-> run.target,
                 groups |-> run.groups, groupErrors |-> run.groupErrors,
                 selector |-> run.selector, late |-> run.late]
  <2> DEFINE n == run.next + 1
  <2> HIDE DEF n
  <2> SUFFICES [a EXCEPT !.next = n] =
                 [next |-> n, error |-> e, site |-> run.site, target |-> run.target,
                  groups |-> run.groups, groupErrors |-> run.groupErrors,
                  selector |-> run.selector, late |-> run.late]
    BY <1>3 DEF n
  <2> QED BY <1>2
<1>5. run.next + 1 \in Nat \ {0} /\ NoRun.next = 0
  BY DEF RunShape, NoRun
<1> QED BY <1>1, <1>4, <1>5 DEF RunShape

\* A request's place is its own, if it is required.
LEMMA RequiredPlaces ==
  ASSUME ApiRunning, RunShape(apiRun)
  PROVE  /\ ApiRequests[apiRun.next] = "info" <=> apiRun.next = 1
         /\ ApiRequests[apiRun.next] = "sites" <=> apiRun.next = 2
         /\ ApiRequests[apiRun.next] = "devices" <=> apiRun.next = 3
         /\ ApiRequests[apiRun.next] = "device_detail" <=> apiRun.next = 4
         /\ ApiRequests[apiRun.next] = "device_stats" <=> apiRun.next = 5
         /\ apiRun.next > 5 <=> ApiRequests[apiRun.next] \notin Required
<1>1. apiRun.next \in Nat \ {0} /\ apiRun.next <= Len(ApiRequests)
  BY DEF ApiRunning, RunShape
<1>2. CASE apiRun.next \in 1..5
  <2>1. apiRun.next = 1 \/ apiRun.next = 2 \/ apiRun.next = 3 \/ apiRun.next = 4 \/ apiRun.next = 5
    BY <1>2
  <2> QED BY <2>1, ApiPositions DEF Required
<1>3. CASE apiRun.next \in 6..Len(ApiRequests)
  BY <1>3, ApiPositions DEF Required
<1>4. apiRun.next \in 1..5 \/ apiRun.next \in 6..Len(ApiRequests)
  <2> DEFINE next == apiRun.next
             length == Len(ApiRequests)
  <2>1. next \in Nat \ {0} /\ length \in Nat /\ next <= length
    BY <1>1, ApiPositions
  <2> HIDE DEF next, length
  <2>2. next \in 1..5 \/ next \in 6..length
    BY <2>1
  <2> QED BY <2>2 DEF next, length
<1> QED BY <1>2, <1>3, <1>4

\* An answer or a failure of a request other than sites and devices.
LEMMA CallPlainStep ==
  ASSUME ApiInv, NEW r, CallPlain(r) PROVE RunShape(apiRun') /\ RequiredInOrder(apiRun')
<1>1. apiRun # NoRun /\ RunShape(apiRun) /\ RequiredInOrder(apiRun)
  BY DEF CallPlain, Due, ApiRunning, ApiInv
<1>2. PICK error, n :
         Noted(r, error, [apiRun EXCEPT !.groups = IF error = "none" THEN @ + n ELSE @])
  BY DEF CallPlain
<1> DEFINE run == [apiRun EXCEPT !.groups = IF error = "none" THEN @ + n ELSE @]
<1>3. RunShape(run) /\ run.next = apiRun.next /\ run.error = apiRun.error /\ run.site = apiRun.site
      /\ run.target = apiRun.target
  BY <1>1 DEF RunShape
<1> HIDE DEF run
<1>4. Noted(r, error, run)
  BY <1>2 DEF run
<1>5. /\ RunShape(apiRun') /\ apiRun' # NoRun
      /\ apiRun'.next = apiRun.next + 1 /\ apiRun'.site = apiRun.site /\ apiRun'.target = apiRun.target
      /\ DOMAIN apiRun'.error = DOMAIN apiRun.error \cup {r}
      /\ \A x \in DOMAIN apiRun.error \ {r} : apiRun'.error[x] = apiRun.error[x]
  BY <1>3, <1>4, NotedStep
<1>6. /\ r = ApiRequests[apiRun.next] /\ Applies(r) /\ ApiRunning /\ r \notin {"sites", "devices", Fanout}
      /\ apiRun.next \in Nat \ {0}
  BY <1>1 DEF CallPlain, Due, RunShape
<1>7. r \in {"device_detail", "device_stats"} => apiRun.target
  BY <1>6 DEF Applies, Fanout
<1>8. Answered1(apiRun', "sites") <=> Answered1(apiRun, "sites")
  BY <1>5, <1>6 DEF Answered1
<1>9. Answered1(apiRun', "devices") <=> Answered1(apiRun, "devices")
  BY <1>5, <1>6 DEF Answered1
<1>10. RequiredInOrder(apiRun')
  BY <1>1, <1>5, <1>6, <1>7, <1>8, <1>9, RequiredPlaces DEF RequiredInOrder, Required
<1> QED BY <1>5, <1>10

\* A request that does not apply is not made: what it needs is not known.
LEMMA SkipStep ==
  ASSUME ApiInv, SkipRequest PROVE RunShape(apiRun') /\ RequiredInOrder(apiRun')
<1>1. apiRun # NoRun /\ RunShape(apiRun) /\ RequiredInOrder(apiRun) /\ ApiRunning
  BY DEF SkipRequest, ApiRunning, ApiInv
<1>2. apiRun' = [apiRun EXCEPT !.next = apiRun.next + 1] /\ ~Applies(ApiRequests[apiRun.next])
  BY DEF SkipRequest
<1>4. apiRun.next \in Nat \ {0}
  BY <1>1 DEF RunShape
<1>3. /\ RunShape(apiRun') /\ apiRun'.next = apiRun.next + 1 /\ apiRun'.error = apiRun.error
      /\ apiRun'.site = apiRun.site /\ apiRun'.target = apiRun.target
  <2> DEFINE n == apiRun.next + 1
  <2>1. n \in Nat \ {0} /\ apiRun' = [apiRun EXCEPT !.next = n]
    BY <1>2, <1>4
  <2> HIDE DEF n
  <2>2. /\ apiRun'.next = n /\ apiRun'.error = apiRun.error
        /\ apiRun'.site = apiRun.site /\ apiRun'.target = apiRun.target
    BY <1>1, <2>1 DEF RunShape
  <2>3. RunShape(apiRun')
    BY <1>1, <2>1 DEF RunShape
  <2> QED BY <2>2, <2>3 DEF n
<1>5. \A r \in {"device_detail", "device_stats"} : r \notin ByReference
  BY ApiAssumption DEF Required
<1>6. /\ apiRun.next # 1 /\ apiRun.next # 2
      /\ apiRun.next = 3 => apiRun.site = {}
      /\ apiRun.next \in {4, 5} => ~apiRun.target
  BY <1>1, <1>2, <1>5, RequiredPlaces DEF Applies, Fanout
<1>8. \A r : Answered1(apiRun', r) <=> Answered1(apiRun, r)
  BY <1>3 DEF Answered1
<1>7. RequiredInOrder(apiRun')
  <2> DEFINE n == apiRun.next
  <2>1. n \in Nat /\ apiRun'.next = n + 1 /\ n # 1 /\ n # 2
    BY <1>3, <1>4, <1>6
  <2> HIDE DEF n
  <2> QED BY <1>1, <1>3, <1>6, <1>8, <2>1 DEF RequiredInOrder, n
<1> QED BY <1>3, <1>7

\* The site is known when the request was answered with one that can be meant.
LEMMA CallSitesStep ==
  ASSUME ApiInv, CallSites PROVE RunShape(apiRun') /\ RequiredInOrder(apiRun')
<1>1. apiRun # NoRun /\ RunShape(apiRun) /\ RequiredInOrder(apiRun) /\ ApiRunning
      /\ ApiRequests[apiRun.next] = "sites"
  BY DEF CallSites, Due, ApiRunning, ApiInv
<1>2. PICK error \in RequestErrors, sites \in SiteLists :
         LET all == IF error = "none" THEN ResolveSite(sites) ELSE error
         IN  Noted("sites", all,
                [apiRun EXCEPT !.site = IF all = "none"
                    THEN {sites[i] : i \in MatchingSites(sites)} ELSE {}])
  BY DEF CallSites
<1> DEFINE all == IF error = "none" THEN ResolveSite(sites) ELSE error
           site == IF all = "none" THEN {sites[i] : i \in MatchingSites(sites)} ELSE {}
           run == [apiRun EXCEPT !.site = site]
<1>3. site # {} <=> all = "none"
  <2>1. ASSUME all = "none" PROVE MatchingSites(sites) # {}
    <3>1. ResolveSite(sites) = "none"
      BY <2>1
    <3>2. CASE MatchingSites(sites) = {}
      <4>1. Cardinality(MatchingSites(sites)) = 0
        BY <3>2, FS_EmptySet
      <4>2. ResolveSite(sites) = "api_site_not_found"
        BY <3>2, <4>1 DEF ResolveSite
      <4> QED BY <3>1, <4>2
    <3> QED BY <3>2
  <2> QED BY <2>1
<1> HIDE DEF site, all
<1>4. RunShape(run) /\ run.next = apiRun.next /\ run.error = apiRun.error /\ run.site = site
      /\ run.target = apiRun.target
  BY <1>1 DEF RunShape
<1> HIDE DEF run
<1>5. Noted("sites", all, run)
  BY <1>2 DEF run, site, all
<1>6. /\ RunShape(apiRun') /\ apiRun' # NoRun
      /\ apiRun'.next = apiRun.next + 1 /\ apiRun'.site = site /\ apiRun'.target = apiRun.target
      /\ DOMAIN apiRun'.error = DOMAIN apiRun.error \cup {"sites"}
      /\ \A x \in DOMAIN apiRun.error \ {"sites"} : apiRun'.error[x] = apiRun.error[x]
      /\ apiRun'.error["sites"] = all
  BY <1>4, <1>5, NotedStep
<1>7. apiRun.next = 2
  BY <1>1, RequiredPlaces
<1>8. Answered1(apiRun', "sites") <=> site # {}
  BY <1>3, <1>6 DEF Answered1
<1>9. Answered1(apiRun', "devices") <=> Answered1(apiRun, "devices")
  BY <1>6 DEF Answered1
<1>10. RequiredInOrder(apiRun')
  BY <1>1, <1>6, <1>7, <1>8, <1>9 DEF RequiredInOrder
<1> QED BY <1>6, <1>10

\* The target is known when one device leads.
LEMMA CallDevicesStep ==
  ASSUME ApiInv, CallDevices PROVE RunShape(apiRun') /\ RequiredInOrder(apiRun')
<1>1. apiRun # NoRun /\ RunShape(apiRun) /\ RequiredInOrder(apiRun) /\ ApiRunning
      /\ ApiRequests[apiRun.next] = "devices" /\ apiRun.site # {}
  <2>1. ApiRunning /\ ApiRequests[apiRun.next] = "devices" /\ Applies("devices")
    BY DEF CallDevices, Due
  <2>2. Applies("devices") => apiRun.site # {}
    BY DEF Applies, Fanout
  <2> QED BY <2>1, <2>2 DEF ApiRunning, ApiInv
<1>2. PICK error \in RequestErrors, devices \in DeviceLists :
         LET all == IF error = "none" THEN TargetDevice(devices) ELSE error
         IN  Noted("devices", all, [apiRun EXCEPT !.target = all = "none"])
  BY DEF CallDevices
<1> DEFINE all == IF error = "none" THEN TargetDevice(devices) ELSE error
           known == all = "none"
           run == [apiRun EXCEPT !.target = known]
<1>3. known <=> all = "none"
  OBVIOUS
<1> HIDE DEF all
<1>4. known \in BOOLEAN
  OBVIOUS
<1>5. Noted("devices", all, run)
  BY <1>2 DEF all
<1> HIDE DEF known
<1>6. RunShape(run) /\ run.next = apiRun.next /\ run.error = apiRun.error /\ run.site = apiRun.site
      /\ run.target = known
  BY <1>1 DEF RunShape
<1> HIDE DEF run
<1>7. /\ RunShape(apiRun') /\ apiRun' # NoRun
      /\ apiRun'.next = apiRun.next + 1 /\ apiRun'.site = apiRun.site /\ apiRun'.target = known
      /\ DOMAIN apiRun'.error = DOMAIN apiRun.error \cup {"devices"}
      /\ \A x \in DOMAIN apiRun.error \ {"devices"} : apiRun'.error[x] = apiRun.error[x]
      /\ apiRun'.error["devices"] = all
  BY <1>5, <1>6, NotedStep
<1>8. apiRun.next = 3
  BY <1>1, RequiredPlaces
<1>9. Answered1(apiRun', "devices") <=> known
  BY <1>3, <1>7 DEF Answered1
<1>10. Answered1(apiRun', "sites") <=> Answered1(apiRun, "sites")
  BY <1>7 DEF Answered1
<1>11. {"device_detail", "device_stats"} \cap DOMAIN apiRun.error = {}
  BY <1>1, <1>8 DEF RequiredInOrder, Answered1
<1>12. RequiredInOrder(apiRun')
  BY <1>1, <1>7, <1>8, <1>9, <1>10, <1>11 DEF RequiredInOrder
<1> QED BY <1>7, <1>12

\* The groups are no required request.
LEMMA CallGroupStep ==
  ASSUME ApiInv, CallGroup PROVE RunShape(apiRun') /\ RequiredInOrder(apiRun')
<1>1. /\ apiRun # NoRun /\ RunShape(apiRun) /\ RequiredInOrder(apiRun) /\ ApiRunning
      /\ ApiRequests[apiRun.next] = Fanout
  BY DEF CallGroup, Due, ApiRunning, ApiInv
<1>2. PICK error \in RequestErrors :
         LET errors == Append(apiRun.groupErrors, error)
             run == [apiRun EXCEPT !.groupErrors = errors]
         IN  IF Len(errors) = apiRun.groups \/ apiRun.late
             THEN Noted(Fanout, FanoutError(errors), run)
             ELSE apiRun' = run
  BY DEF CallGroup
<1> DEFINE errors == Append(apiRun.groupErrors, error)
           run == [apiRun EXCEPT !.groupErrors = errors]
           worth == FanoutError(errors)
<1>3. Noted(Fanout, worth, run) \/ apiRun' = run
  BY <1>2
<1> HIDE DEF worth, errors
<1>4. RunShape(run) /\ run.next = apiRun.next /\ run.error = apiRun.error /\ run.site = apiRun.site
      /\ run.target = apiRun.target
  BY <1>1 DEF RunShape
<1>5. RequiredInOrder(run)
  BY <1>1, <1>4 DEF RequiredInOrder, Answered1
<1> HIDE DEF run
<1>6. Fanout \notin Required /\ apiRun.next \in Nat \ {0}
  BY <1>1 DEF Fanout, Required, RunShape
<1>7. apiRun.next > 5
  BY <1>1, <1>6, RequiredPlaces
<1>8. CASE apiRun' = run
  BY <1>4, <1>5, <1>8
<1>9. CASE Noted(Fanout, worth, run)
  <2>1. /\ RunShape(apiRun')
        /\ apiRun'.next = apiRun.next + 1
        /\ apiRun'.site = apiRun.site /\ apiRun'.target = apiRun.target
        /\ DOMAIN apiRun'.error = DOMAIN apiRun.error \cup {Fanout}
        /\ \A x \in DOMAIN apiRun.error \ {Fanout} : apiRun'.error[x] = apiRun.error[x]
    BY <1>4, <1>9, NotedStep
  <2>2. \A x \in Required : /\ x \in DOMAIN apiRun'.error <=> x \in DOMAIN apiRun.error
                          /\ Answered1(apiRun', x) <=> Answered1(apiRun, x)
    BY <1>6, <2>1 DEF Answered1
  <2>3. RequiredInOrder(apiRun')
    BY <1>1, <1>6, <1>7, <2>1, <2>2 DEF RequiredInOrder, Required
  <2> QED BY <2>1, <2>3
<1> QED BY <1>3, <1>8, <1>9

\* An endpoint is well exactly when its request had no error.
LEMMA StatusOk == \A error : EndpointStatus(error) = "ok" <=> error = "none"
BY DEF EndpointStatus

\* What a whole collection is worth: by its end the required requests were made as
\* far as the answers led.
LEMMA ObservationMeans ==
  ASSUME NEW run, RunShape(run), RequiredInOrder(run), run.next > 5, NEW normalized \in BOOLEAN,
         apiShown' = Observation(run, normalized)
  PROVE  AvailableMeansAll'
<1> DEFINE asked == DOMAIN run.error
           status == [e \in asked |-> EndpointStatus(run.error[e])]
           ok == {n \in asked : status[n] = "ok"}
           failing == ~normalized \/ \E e \in Required \cap asked : status[e] # "ok"
           optional == \E e \in asked \ Required : status[e] = "error"
           succeeded == \E e \in asked : status[e] = "ok"
           worth == IF failing /\ ~succeeded THEN "unavailable"
                    ELSE IF failing \/ optional THEN "partial" ELSE "available"
<1>1. /\ apiShown' = [status |-> worth, success |-> ~failing \/ succeeded,
                      endpoints |-> status, telemetry |-> normalized]
      /\ DOMAIN status = asked
  BY DEF Observation
<1>2. \A n : n \in ok <=> Answered1(run, n)
  BY StatusOk DEF Answered1
<1>3. /\ run.next \in Nat \ {0} /\ {"info", "sites"} \subseteq asked
      /\ "sites" \in ok => "devices" \in asked
      /\ "devices" \in ok => {"device_detail", "device_stats"} \subseteq asked
      /\ {"device_detail", "device_stats"} \cap asked # {} => {"sites", "devices"} \subseteq ok
  <2>1. \A n : Answered1(run, n) => n \in asked
    BY DEF Answered1
  <2> HIDE DEF ok, asked
  <2>2. /\ run.next \in Nat \ {0} /\ "info" \in DOMAIN run.error /\ "sites" \in DOMAIN run.error
        /\ run.site # {} <=> Answered1(run, "sites")
        /\ run.target <=> Answered1(run, "devices")
        /\ run.site # {} <=> "devices" \in DOMAIN run.error
        /\ run.target => "device_detail" \in DOMAIN run.error /\ "device_stats" \in DOMAIN run.error
        /\ {"device_detail", "device_stats"} \cap DOMAIN run.error # {} => run.target
    BY DEF RunShape, RequiredInOrder
  <2> QED BY <1>2, <2>1, <2>2 DEF asked
<1>4. ~failing <=> normalized /\ Required \subseteq ok
  <2>1. ASSUME \A e \in Required \cap asked : status[e] = "ok" PROVE Required \subseteq ok
    BY <1>3, <2>1 DEF Required
  <2>2. ASSUME Required \subseteq ok PROVE \A e \in Required \cap asked : status[e] = "ok"
    BY <2>2
  <2> QED BY <2>1, <2>2
<1>5. succeeded <=> ok # {}
  OBVIOUS
<1>6. ~failing => ok # {}
  BY <1>4 DEF Required
<1>7. ok \subseteq asked
  OBVIOUS
<1>8. optional <=> ~ \A n \in asked \ Required : status[n] # "error"
  OBVIOUS
<1>9. failing \in BOOLEAN /\ succeeded \in BOOLEAN /\ optional \in BOOLEAN
  OBVIOUS
<1> HIDE DEF failing, succeeded, optional
<1>10. /\ worth = "available" <=> ~failing /\ ~optional
       /\ worth = "unavailable" => ok = {} /\ failing /\ ~succeeded
       /\ worth = "partial" => ok # {} /\ succeeded
  BY <1>5, <1>6
<1> DEFINE success == ~failing \/ succeeded
<1>11. (worth = "unavailable" => ~success) /\ (worth = "partial" => success)
  BY <1>10
<1>12. /\ apiShown'.status = worth /\ apiShown'.success = success
       /\ apiShown'.endpoints = status /\ apiShown'.telemetry = normalized
  BY <1>1
<1>13. {n \in DOMAIN apiShown'.endpoints : apiShown'.endpoints[n] = "ok"} = ok
  BY <1>1, <1>12
<1>14. ok \cap {"device_detail", "device_stats"} # {} => {"sites", "devices"} \subseteq ok
  BY <1>3, <1>7
<1> HIDE DEF worth, success, status, ok, asked
<1>15. worth = "available" <=>
          /\ Required \subseteq ok
          /\ \A n \in asked \ Required : status[n] # "error"
          /\ normalized
  BY <1>4, <1>8, <1>10
<1> QED BY <1>1, <1>10, <1>11, <1>12, <1>13, <1>14, <1>15 DEF AvailableMeansAll

\* Available is the whole, whatever the controller lists, however it answers and
\* wherever the deadline falls (_build_result, src/clients/unifi_api.py).
THEOREM UnifiAvailableMeansAll == ApiSpec => []AvailableMeansAll
<1>1. ApiInit => ApiInv
  BY DEF ApiInit, ApiInv, AvailableMeansAll
<1>2. ApiInv /\ [ApiNext]_apiVars => ApiInv'
  <2> SUFFICES ASSUME ApiInv, [ApiNext]_apiVars PROVE ApiInv'
    OBVIOUS
  <2>1. ASSUME UNCHANGED apiShown PROVE AvailableMeansAll'
    BY <2>1 DEF ApiInv, AvailableMeansAll
  <2>2. ASSUME NEW r, CallPlain(r) PROVE ApiInv'
    BY <2>1, <2>2, CallPlainStep DEF ApiInv, CallPlain
  <2>3. CASE SkipRequest
    BY <2>1, <2>3, SkipStep DEF ApiInv, SkipRequest
  <2>4. CASE CallSites
    BY <2>1, <2>4, CallSitesStep DEF ApiInv, CallSites
  <2>5. CASE CallDevices
    BY <2>1, <2>5, CallDevicesStep DEF ApiInv, CallDevices
  <2>6. CASE CallGroup
    BY <2>1, <2>6, CallGroupStep DEF ApiInv, CallGroup
  <2>7. CASE StartCollection
    <3>1. PICK selector \in BOOLEAN : apiRun' = NewRun(selector)
      BY <2>7 DEF StartCollection
    <3>2. RunShape(apiRun')
      BY <3>1 DEF NewRun, RunShape
    <3>3. /\ apiRun'.next = 1 /\ apiRun'.site = {} /\ apiRun'.target = FALSE
          /\ DOMAIN apiRun'.error = {}
      BY <3>1 DEF NewRun
    <3>4. RequiredInOrder(apiRun')
      BY <3>3 DEF RequiredInOrder, Answered1
    <3>5. AvailableMeansAll'
      BY <2>7 DEF StartCollection, AvailableMeansAll
    <3> QED BY <3>2, <3>4, <3>5 DEF ApiInv
  <2>8. CASE KeyUnavailable
    <3>1. /\ apiShown'.status = "unavailable" /\ apiShown'.success = FALSE
          /\ DOMAIN apiShown'.endpoints = {}
      BY <2>8 DEF KeyUnavailable
    <3>2. AvailableMeansAll'
      BY <3>1 DEF AvailableMeansAll, Required
    <3> QED BY <2>8, <3>2 DEF ApiInv, KeyUnavailable
  <2>9. CASE DeadlinePasses
    <3>1. RunShape(apiRun) /\ RequiredInOrder(apiRun) /\ apiRun' = [apiRun EXCEPT !.late = TRUE]
      BY <2>9 DEF ApiInv, DeadlinePasses, ApiRunning
    <3>2. /\ RunShape(apiRun') /\ apiRun'.next = apiRun.next /\ apiRun'.error = apiRun.error
          /\ apiRun'.site = apiRun.site /\ apiRun'.target = apiRun.target
      BY <3>1 DEF RunShape
    <3>3. RequiredInOrder(apiRun')
      BY <3>1, <3>2 DEF RequiredInOrder, Answered1
    <3> QED BY <2>1, <2>9, <3>2, <3>3 DEF ApiInv, DeadlinePasses
  <2>10. CASE FinishCollection
    <3>1. RunShape(apiRun) /\ RequiredInOrder(apiRun) /\ apiRun.next > Len(ApiRequests)
      BY <2>10 DEF ApiInv, FinishCollection
    <3>2. apiRun.next > 5
      <4> DEFINE next == apiRun.next
                 length == Len(ApiRequests)
      <4>1. next \in Nat /\ length \in Nat /\ length >= 6 /\ next > length
        BY <3>1, ApiPositions DEF RunShape
      <4> HIDE DEF next, length
      <4>2. next > 5
        BY <4>1
      <4> QED BY <4>2 DEF next
    <3>3. PICK normalized \in BOOLEAN : apiShown' = Observation(apiRun, normalized)
      BY <2>10 DEF FinishCollection
    <3>4. AvailableMeansAll'
      BY <3>1, <3>2, <3>3, ObservationMeans
    <3> QED BY <2>10, <3>4 DEF ApiInv, FinishCollection
  <2>11. CASE UNCHANGED apiVars
    BY <2>11 DEF apiVars, ApiInv, AvailableMeansAll
  <2> QED BY <2>2, <2>3, <2>4, <2>5, <2>6, <2>7, <2>8, <2>9, <2>10, <2>11 DEF ApiNext
<1>3. ApiInv => AvailableMeansAll
  BY DEF ApiInv
<1> QED BY <1>1, <1>2, <1>3, PTL DEF ApiSpec
-----------------------------------------------------------------------------
(* The ports of a UniFi device. *)

\* Numbers have a least one, and a greatest one when there is a bound on them.
LEMMA Least ==
  ASSUME NEW S \in SUBSET Nat, S # {} PROVE \E i \in S : \A j \in S : i <= j
<1> DEFINE R == OpToRel(<, Nat)
<1>1. PICK i \in S : \A j \in S : <<j, i>> \notin R
  <2>1. IsWellFoundedOn(R, Nat)
    BY NatLessThanWellFounded
  <2> HIDE DEF R
  <2> QED BY <2>1, WFMin
<1>2. \A j \in S : ~(j < i)
  BY <1>1 DEF OpToRel
<1> QED BY <1>2

\* A set of places that is not empty has a last one: the first, counted from the end.
LEMMA Greatest ==
  ASSUME NEW n \in Nat, NEW S \in SUBSET (1..n), S # {} PROVE \E i \in S : \A j \in S : j <= i
<1> DEFINE T == {n - i : i \in S}
<1>1. T \in SUBSET Nat /\ T # {}
  <2>1. \A i \in S : n - i \in Nat
    OBVIOUS
  <2> QED BY <2>1
<1>2. PICK t \in T : \A u \in T : t <= u
  BY <1>1, Least
<1>3. PICK i \in S : t = n - i
  OBVIOUS
<1>4. \A j \in S : n - i <= n - j
  BY <1>2, <1>3
<1>5. \A j \in S : j \in Nat
  OBVIOUS
<1> QED BY <1>4, <1>5

\* What the controller knows.
Link == [up : BOOLEAN, speed : Speeds, bytes : Nat, total : Nat]
Links == [Range(Rows) -> Link]
Wires == [uplink : Range(Rows) \cup {NoPort},
          reported : {"indexed", "unindexed", "no_table", "absent"},
          wired : BOOLEAN, changes : Nat, link : Links]

\* The one row that can stand for a port alone, while the uplink is u.
RowFor(p, u) ==
    IF Cardinality(catalog.uplinks) = 1 /\ p \in catalog.uplinks /\ u # NoPort THEN u ELSE p

\* A sample with counters is of that row, and what has not been counted since, because
\* counters began again, can only have grown.
ValidSample(p, s) ==
    /\ s.at \in Int /\ s.bytes \in Int /\ s.total \in Int
    /\ s.bytes >= 0 =>
          /\ s.row \in Range(Rows)
          /\ s.alone => s.row = RowFor(p, s.uplink)
          /\ wire.link[s.row].bytes - wire.link[s.row].total <= s.bytes - s.total

\* What the property says of one record.
OfOnePort(record) ==
    record.rate # <<>> =>
        LET old == record.rate[1]
            new == record.new
        IN  /\ old.up /\ new.up /\ new.speed = old.speed
            /\ new.at - old.at \in 1..MaxAge
            /\ old.uplink = new.uplink /\ old.alone /\ new.alone =>
                  /\ old.row = new.row
                  /\ new.bytes - old.bytes \in 0..(new.total - old.total)

PortsTypes ==
    /\ catalog \in Catalogs
    /\ wire \in Wires
    /\ portClock \in Nat

PortsInv ==
    /\ PortsTypes
    /\ \A p \in AllPorts : ValidSample(p, portSamples[p])
    /\ PortRatesOfOnePort

\* A port is no zero, and neither is a row.
LEMMA PortNumbers ==
  ASSUME catalog \in Catalogs
  PROVE  /\ NoPort \notin AllPorts /\ NoPort \notin Range(Rows) /\ NoPort \notin catalog.ports
         /\ catalog.uplinks \subseteq catalog.ports /\ catalog.ports \subseteq AllPorts
         /\ IsFiniteSet(catalog.uplinks)
<1>1. /\ catalog.uplinks \subseteq catalog.ports /\ IsFiniteSet(catalog.ports)
      /\ \A c \in Catalogs : 0 \notin c.ports
      /\ Rows \in Seq(Nat \ {0})
  BY PortsAssumption
<1>2. IsFiniteSet(catalog.uplinks)
  BY <1>1, FS_Subset
<1>3. 0 \notin Range(Rows)
  BY <1>1 DEF Range
<1>4. \A p \in AllPorts : p \in Range(Rows) \/ \E c \in Catalogs : p \in c.ports
  BY DEF AllPorts
<1>5. 0 \notin catalog.ports
  BY <1>1
<1>6. 0 \notin AllPorts
  BY <1>1, <1>3, <1>4
<1>7. catalog.ports \subseteq AllPorts
  BY DEF AllPorts
<1> QED BY <1>1, <1>2, <1>3, <1>5, <1>6, <1>7 DEF NoPort

\* A row taken alone for a port is the one that can be.
LEMMA AloneRow ==
  ASSUME PortsTypes, NEW p, p # NoPort, NEW row \in Range(Rows), PortOf(row) = p,
         \A other \in Range(Rows) \ {row} : PortOf(other) # p
  PROVE  row = RowFor(p, wire.uplink)
<1>1. row # NoPort /\ wire.uplink \in Range(Rows) \cup {NoPort}
  BY PortNumbers DEF PortsTypes, Wires
<1>2. ASSUME row # wire.uplink PROVE row = p
  BY <1>2 DEF PortOf, StaticPort
<1>3. CASE Cardinality(catalog.uplinks) = 1
  <2>1. PICK q : catalog.uplinks = {q}
    BY <1>3, PortNumbers, FS_Singleton DEF PortsTypes
  <2>2. q # NoPort
    BY <2>1, PortNumbers DEF PortsTypes
  <2>3. (CHOOSE x \in catalog.uplinks : TRUE) = q
    BY <2>1
  <2>4. wire.uplink # NoPort => PortOf(wire.uplink) = q
    BY <1>3, <2>1, <2>2, <2>3 DEF PortOf, StaticPort
  <2>5. CASE wire.uplink = NoPort
    BY <1>1, <1>2, <2>5 DEF RowFor
  <2>6. CASE wire.uplink # NoPort /\ p = q
    <3>1. row = wire.uplink
      BY <1>1, <2>4, <2>6
    <3> QED BY <1>3, <2>1, <2>6, <3>1 DEF RowFor
  <2>7. CASE wire.uplink # NoPort /\ p # q
    <3>1. row # wire.uplink
      BY <2>4, <2>7
    <3> QED BY <1>2, <2>1, <2>7, <3>1 DEF RowFor
  <2> QED BY <2>5, <2>6, <2>7
<1>4. CASE Cardinality(catalog.uplinks) # 1
  <2>1. ASSUME row = wire.uplink PROVE row = p
    BY <1>4, <2>1 DEF PortOf, StaticPort
  <2>2. row = p
    BY <1>2, <2>1
  <2> QED BY <1>4, <2>2 DEF RowFor
<1> QED BY <1>3, <1>4

\* A sample taken now is valid now.
LEMMA RowSampleValid ==
  ASSUME PortsTypes, NEW p, p # NoPort, NEW row \in Range(Rows), PortOf(row) = p
  PROVE  /\ ValidSample(p, RowSample(row))
         /\ RowSample(row).at = portClock
         /\ RowSample(row).row = row
         /\ RowSample(row).bytes = wire.link[row].bytes
         /\ RowSample(row).total = wire.link[row].total
<1>1. /\ RowSample(row).at = portClock /\ RowSample(row).row = row
      /\ RowSample(row).uplink = wire.uplink
      /\ RowSample(row).bytes = wire.link[row].bytes
      /\ RowSample(row).total = wire.link[row].total
      /\ RowSample(row).alone <=> \A other \in Range(Rows) \ {row} : PortOf(other) # PortOf(row)
  BY DEF RowSample
<1>2. wire.link[row].bytes \in Nat /\ wire.link[row].total \in Nat /\ portClock \in Int
  BY DEF PortsTypes, Wires, Links, Link
<1>3. RowSample(row).alone => row = RowFor(p, wire.uplink)
  BY <1>1, AloneRow
<1> HIDE DEF RowSample
<1> QED BY <1>1, <1>2, <1>3 DEF ValidSample

\* A rate between a valid sample and one of a row taken now is of that row.
LEMMA RateOfRow ==
  ASSUME PortsTypes, NEW p, p # NoPort, NEW old, ValidSample(p, old),
         NEW row \in Range(Rows), PortOf(row) = p
  PROVE  OfOnePort(PortRecord(p, old, RowSample(row)))
<1> DEFINE new == RowSample(row)
           record == PortRecord(p, old, new)
<1>1. /\ ValidSample(p, new) /\ new.at = portClock /\ new.row = row
      /\ new.bytes = wire.link[row].bytes /\ new.total = wire.link[row].total
  BY RowSampleValid
<1> HIDE DEF new
<1>2. record.new = new /\ record.rate = IF RateOf(old, new) THEN <<old>> ELSE <<>>
  BY DEF PortRecord
<1> HIDE DEF record
<1>3. ASSUME ~RateOf(old, new) PROVE OfOnePort(record)
  BY <1>2, <1>3 DEF OfOnePort
<1>4. ASSUME RateOf(old, new) PROVE OfOnePort(record)
  <2>1. /\ new.up /\ old.bytes >= 0 /\ new.bytes >= 0
        /\ new.at - old.at > 0 /\ new.at - old.at <= MaxAge
        /\ new.speed = old.speed /\ new.up = old.up /\ new.bytes >= old.bytes
    BY <1>4 DEF RateOf
  <2>2. new.at - old.at \in 1..MaxAge
    <3> DEFINE later == new.at
               earlier == old.at
    <3>1. later \in Int /\ earlier \in Int /\ MaxAge \in Nat
      BY <1>1, PortsAssumption DEF ValidSample
    <3>2. later - earlier > 0 /\ later - earlier <= MaxAge
      BY <2>1
    <3> HIDE DEF later, earlier
    <3> QED BY <3>1, <3>2 DEF later, earlier
  <2>3. ASSUME old.uplink = new.uplink, old.alone, new.alone
        PROVE  old.row = new.row /\ new.bytes - old.bytes \in 0..(new.total - old.total)
    <3>1. old.row = row
      BY <1>1, <2>1, <2>3 DEF ValidSample
    <3>2. new.bytes - new.total <= old.bytes - old.total
      BY <1>1, <2>1, <3>1 DEF ValidSample
    <3>3. /\ new.bytes \in Int /\ new.total \in Int /\ old.bytes \in Int /\ old.total \in Int
      BY <1>1 DEF ValidSample
    <3>4. new.bytes - old.bytes \in 0..(new.total - old.total)
      BY <2>1, <3>2, <3>3
    <3> QED BY <1>1, <3>1, <3>4
  <2>4. record.rate # <<>> /\ record.rate[1] = old
    BY <1>2, <1>4
  <2>5. old.up /\ new.up /\ new.speed = old.speed
    BY <2>1
  <2> QED BY <1>2, <2>2, <2>3, <2>4, <2>5 DEF OfOnePort
<1> QED BY <1>3, <1>4 DEF record, new

\* Between two rows of one collection no time has passed.
LEMMA NoRateAtOnce ==
  ASSUME PortsTypes, NEW p, NEW a, NEW b
  PROVE  OfOnePort(PortRecord(p, RowSample(a), RowSample(b)))
<1>1. RowSample(a).at = portClock /\ RowSample(b).at = portClock /\ portClock \in Nat
  BY DEF RowSample, PortsTypes
<1>2. ~RateOf(RowSample(a), RowSample(b))
  <2> HIDE DEF RowSample
  <2> QED BY <1>1 DEF RateOf
<1> QED BY <1>2 DEF PortRecord, OfOnePort

\* Every port is left with a valid sample and a record that says no more than it.
LEMMA CollectedValid ==
  ASSUME PortsInv, NEW p \in AllPorts, NEW keepFirst \in BOOLEAN
  PROVE  /\ ValidSample(p, Collected(p, keepFirst).sample)
         /\ OfOnePort(Collected(p, keepFirst).record)
<1>1. PortsTypes /\ p # NoPort /\ ValidSample(p, portSamples[p])
  BY PortNumbers DEF PortsInv, PortsTypes
<1>2. ASSUME NEW sample, sample.bytes = -1, sample.at = portClock, sample.total = 0
      PROVE  /\ ValidSample(p, Uncounted(p, sample).sample)
             /\ OfOnePort(Uncounted(p, sample).record)
  <2>1. ~RateOf(portSamples[p], sample)
    BY <1>2 DEF RateOf
  <2>2. Uncounted(p, sample).sample = sample /\ Uncounted(p, sample).record.rate = <<>>
    BY <2>1 DEF Uncounted, PortRecord
  <2>3. portClock \in Int
    BY <1>1 DEF PortsTypes
  <2> HIDE DEF Uncounted
  <2> QED BY <1>2, <2>2, <2>3 DEF ValidSample, OfOnePort
<1>3. EmptySample.bytes = -1 /\ EmptySample.at = portClock /\ EmptySample.total = 0
  BY DEF EmptySample, NoBaseline
<1>4. /\ [EmptySample EXCEPT !.up = TRUE].bytes = -1
      /\ [EmptySample EXCEPT !.up = TRUE].at = portClock
      /\ [EmptySample EXCEPT !.up = TRUE].total = 0
  BY DEF EmptySample, NoBaseline
<1>5. CASE p \in AccessPointPorts
  BY <1>2, <1>4, <1>5 DEF Collected
<1>6. CASE p \notin AccessPointPorts /\ RowsOf(p) = {}
  BY <1>2, <1>3, <1>6 DEF Collected
<1>7. CASE p \notin AccessPointPorts /\ RowsOf(p) # {}
  <2> DEFINE places == RowsOf(p)
             kept == IF keepFirst THEN FirstOf(places) ELSE LastOf(places)
             old == IF kept = FirstOf(places) THEN portSamples[p]
                    ELSE RowSample(Rows[LastOf({i \in places : i < kept})])
  <2>1. /\ Collected(p, keepFirst).sample = RowSample(Rows[LastOf(places)])
        /\ Collected(p, keepFirst).record = PortRecord(p, old, RowSample(Rows[kept]))
    BY <1>7 DEF Collected, TableRow
  <2>2. places \subseteq DOMAIN Rows /\ \A i \in places : PortOf(Rows[i]) = p
    BY DEF RowsOf
  <2>3. Rows \in Seq(Nat \ {0})
    BY PortsAssumption
  <2>4. DOMAIN Rows = 1..Len(Rows) /\ Len(Rows) \in Nat /\ DOMAIN Rows \subseteq Nat
    BY <2>3
  <2> HIDE DEF places
  <2>5. FirstOf(places) \in places
    <3>1. \E i \in places : \A j \in places : i <= j
      BY <1>7, <2>2, <2>4, Least DEF places
    <3> QED BY <3>1 DEF FirstOf
  <2>6. LastOf(places) \in places
    <3>1. \E i \in places : \A j \in places : j <= i
      BY <1>7, <2>2, <2>4, Greatest DEF places
    <3> QED BY <3>1 DEF LastOf
  <2>7. kept \in places
    BY <2>5, <2>6
  <2>8. \A i \in places : Rows[i] \in Range(Rows)
    BY <2>2 DEF Range
  <2>9. ValidSample(p, RowSample(Rows[LastOf(places)]))
    BY <1>1, <2>2, <2>6, <2>8, RowSampleValid
  <2>10. CASE old = portSamples[p]
    BY <1>1, <2>1, <2>2, <2>7, <2>8, <2>9, <2>10, RateOfRow
  <2>11. CASE old = RowSample(Rows[LastOf({i \in places : i < kept})])
    BY <1>1, <2>1, <2>9, <2>11, NoRateAtOnce
  <2> QED BY <2>10, <2>11
<1> QED BY <1>5, <1>6, <1>7

\* What a step of the network may do to what is counted.
LEMMA WireStep ==
  ASSUME PortsInv, wire' \in Wires, UNCHANGED <<catalog, portSamples, portsShown>>,
         portClock' \in Nat,
         \A r \in Range(Rows) : wire'.link[r].bytes - wire'.link[r].total
                                  <= wire.link[r].bytes - wire.link[r].total
  PROVE  PortsInv'
<1>1. PortsTypes'
  BY DEF PortsInv, PortsTypes
<1>2. ASSUME NEW p \in AllPorts PROVE ValidSample(p, portSamples[p])'
  <2> DEFINE s == portSamples[p]
  <2>1. ValidSample(p, s)
    BY DEF PortsInv
  <2>2. \A r \in Range(Rows) :
          /\ wire.link[r].bytes \in Nat /\ wire.link[r].total \in Nat
          /\ wire'.link[r].bytes \in Nat /\ wire'.link[r].total \in Nat
    BY DEF PortsInv, PortsTypes, Wires, Links, Link
  <2>3. RowFor(p, s.uplink)' = RowFor(p, s.uplink) /\ s' = s
    BY DEF RowFor
  <2> HIDE DEF s
  <2>4. ASSUME s.bytes >= 0
        PROVE  wire'.link[s.row].bytes - wire'.link[s.row].total <= s.bytes - s.total
    <3> DEFINE r == s.row
               a == wire.link[r].bytes
               b == wire.link[r].total
               c == wire'.link[r].bytes
               d == wire'.link[r].total
    <3>1. r \in Range(Rows) /\ a - b <= s.bytes - s.total /\ s.bytes \in Int /\ s.total \in Int
      BY <2>1, <2>4 DEF ValidSample
    <3>2. c - d <= a - b
      BY <3>1
    <3>3. a \in Nat /\ b \in Nat /\ c \in Nat /\ d \in Nat
      BY <2>2, <3>1
    <3> HIDE DEF a, b, c, d
    <3>4. c - d <= s.bytes - s.total
      BY <3>1, <3>2, <3>3
    <3> QED BY <3>4 DEF c, d
  <2>5. ValidSample(p, s)'
    BY <2>1, <2>3, <2>4 DEF ValidSample
  <2> QED BY <2>5 DEF s
<1>3. PortRatesOfOnePort'
  BY DEF PortsInv, PortRatesOfOnePort
<1>4. AllPorts' = AllPorts
  BY DEF AllPorts
<1> QED BY <1>1, <1>2, <1>3, <1>4 DEF PortsInv

\* One row is changed.
LEMMA RelinkStep ==
  ASSUME wire \in Wires, NEW row \in Range(Rows), NEW new \in Link,
         new.bytes - new.total <= wire.link[row].bytes - wire.link[row].total
  PROVE  /\ Relink(row, new) \in Wires
         /\ \A r \in Range(Rows) :
               Relink(row, new).link[r].bytes - Relink(row, new).link[r].total
                 <= wire.link[r].bytes - wire.link[r].total
<1> DEFINE links == [wire.link EXCEPT ![row] = new]
           next == [wire EXCEPT !.link = links]
<1>1. links \in Links /\ \A r \in Range(Rows) : links[r] = IF r = row THEN new ELSE wire.link[r]
  BY DEF Wires, Links
<1>2. Relink(row, new) = next
  BY Zenon DEF Relink
<1> HIDE DEF links
<1>3. next \in Wires /\ next.link = links
  BY <1>1 DEF Wires
<1> HIDE DEF next
<1>4. ASSUME NEW r \in Range(Rows)
      PROVE  next.link[r].bytes - next.link[r].total <= wire.link[r].bytes - wire.link[r].total
  <2>1. wire.link[r] \in Link
    BY DEF Wires, Links
  <2>2. CASE r = row
    BY <1>1, <1>3, <2>2
  <2>3. CASE r # row
    <3>1. next.link[r] = wire.link[r]
      BY <1>1, <1>3, <2>3
    <3> QED BY <2>1, <3>1 DEF Link
  <2> QED BY <2>2, <2>3
<1> QED BY <1>2, <1>3, <1>4

\* A rate is never more than what went over one port, whatever the catalogue, the
\* table and the traffic (_port_record, src/clients/unifi_api.py).
THEOREM UnifiPortRates == PortsSpec => []PortRatesOfOnePort
<1>1. PortsInit => PortsInv
  <2> SUFFICES ASSUME PortsInit PROVE PortsInv
    OBVIOUS
  <2>1. wire \in Wires
    <3>1. wire \in [uplink : Range(Rows) \cup {NoPort}, reported : {"indexed"},
                   wired : IF catalog.ap THEN BOOLEAN ELSE {FALSE}, changes : {0},
                   link : {[r \in Range(Rows) |->
                              [up |-> TRUE, speed |-> s, bytes |-> 0, total |-> 0]] : s \in Speeds}]
      BY Zenon DEF PortsInit
    <3>2. PICK s \in Speeds : wire.link = [r \in Range(Rows) |->
                                [up |-> TRUE, speed |-> s, bytes |-> 0, total |-> 0]]
      BY <3>1
    <3>3. wire.link \in Links
      BY <3>2 DEF Links, Link
    <3>4. /\ wire = [uplink |-> wire.uplink, reported |-> wire.reported, wired |-> wire.wired,
                     changes |-> wire.changes, link |-> wire.link]
          /\ wire.uplink \in Range(Rows) \cup {NoPort} /\ wire.reported = "indexed"
          /\ wire.wired \in (IF catalog.ap THEN BOOLEAN ELSE {FALSE}) /\ wire.changes = 0
      BY <3>1
    <3>5. wire.wired \in BOOLEAN
      BY <3>4
    <3> QED BY <3>3, <3>4, <3>5 DEF Wires
  <2>2. PortsTypes
    BY <2>1 DEF PortsInit, PortsTypes
  <2>3. \A p \in AllPorts : ValidSample(p, portSamples[p])
    BY DEF PortsInit, ValidSample, NoBaseline
  <2>4. PortRatesOfOnePort
    BY DEF PortsInit, PortRatesOfOnePort
  <2> QED BY <2>2, <2>3, <2>4 DEF PortsInv
<1>2. PortsInv /\ [PortsNext]_portVars => PortsInv'
  <2> SUFFICES ASSUME PortsInv, [PortsNext]_portVars PROVE PortsInv'
    OBVIOUS
  <2>1. wire \in Wires /\ portClock \in Nat /\ catalog \in Catalogs
    BY DEF PortsInv, PortsTypes
  <2>2. CASE CollectPorts
    <3>1. PICK keepFirst \in BOOLEAN :
          LET shown == catalog.ports \cup {p \in AllPorts : RowsOf(p) # {}}
          IN  /\ portSamples' = [p \in AllPorts |-> IF p \in shown
                                    THEN Collected(p, keepFirst).sample ELSE portSamples[p]]
              /\ portsShown' = [p \in shown |-> Collected(p, keepFirst).record]
      BY <2>2 DEF CollectPorts
    <3> DEFINE shown == catalog.ports \cup {p \in AllPorts : RowsOf(p) # {}}
    <3>2. UNCHANGED <<catalog, wire, portClock>>
      BY <2>2 DEF CollectPorts
    <3>3. shown \subseteq AllPorts /\ AllPorts' = AllPorts
      BY <2>1, PortNumbers DEF AllPorts
    <3>4. \A p \in AllPorts : ValidSample(p, portSamples'[p])
      BY <3>1, CollectedValid DEF PortsInv
    <3>5. \A p \in DOMAIN portsShown' : OfOnePort(portsShown'[p])
      <4>1. DOMAIN portsShown' = shown /\ \A p \in shown : portsShown'[p] = Collected(p, keepFirst).record
        BY <3>1
      <4> HIDE DEF shown
      <4> QED BY <3>3, <4>1, CollectedValid
    <3>6. ASSUME NEW p \in AllPorts PROVE ValidSample(p, portSamples[p])'
      BY <3>2, <3>4 DEF ValidSample, RowFor
    <3>7. PortRatesOfOnePort'
      BY <3>5 DEF PortRatesOfOnePort, OfOnePort
    <3>8. PortsTypes'
      BY <3>2 DEF PortsInv, PortsTypes
    <3> QED BY <3>3, <3>6, <3>7, <3>8 DEF PortsInv
  <2>3. CASE NoPorts
    <3>1. PortRatesOfOnePort'
      BY <2>3 DEF NoPorts, PortRatesOfOnePort
    <3>2. UNCHANGED <<catalog, wire, portClock, portSamples>>
      BY <2>3 DEF NoPorts
    <3> QED BY <3>1, <3>2 DEF PortsInv, PortsTypes, ValidSample, RowFor, AllPorts
  <2>4. ASSUME NEW next \in Wires, Change(next),
               \A r \in Range(Rows) : next.link[r].bytes - next.link[r].total
                                        <= wire.link[r].bytes - wire.link[r].total
        PROVE  PortsInv'
    <3>1. wire' \in Wires /\ wire'.link = next.link
      BY <2>4 DEF Change, Wires
    <3> QED BY <2>1, <2>4, <3>1, WireStep DEF Change
  <2>5. ASSUME NEW r \in Range(Rows)
        PROVE  /\ wire.link[r] \in Link
               /\ wire.link[r].bytes - wire.link[r].total <= wire.link[r].bytes - wire.link[r].total
    BY <2>1 DEF Wires, Links, Link
  <2>6. CASE MoveUplink
    <3>1. PICK row \in Range(Rows) \cup {NoPort} : Change([wire EXCEPT !.uplink = row])
      BY <2>6 DEF MoveUplink
    <3>2. [wire EXCEPT !.uplink = row] \in Wires /\ [wire EXCEPT !.uplink = row].link = wire.link
      BY <2>1 DEF Wires
    <3> QED BY <2>4, <2>5, <3>1, <3>2
  <2>7. CASE ChangeReport
    <3>1. PICK how \in {"indexed", "unindexed", "no_table", "absent"} :
            Change([wire EXCEPT !.reported = how])
      BY <2>7 DEF ChangeReport
    <3>2. [wire EXCEPT !.reported = how] \in Wires /\ [wire EXCEPT !.reported = how].link = wire.link
      BY <2>1 DEF Wires
    <3> QED BY <2>4, <2>5, <3>1, <3>2
  <2>8. CASE ChangeLink
    <3>1. PICK row \in Range(Rows), speed \in Speeds :
            Change(Relink(row, [wire.link[row] EXCEPT !.up = ~@, !.speed = speed]))
      BY <2>8 DEF ChangeLink
    <3> DEFINE old == wire.link[row]
               up == ~old.up
               new == [old EXCEPT !.up = up, !.speed = speed]
    <3>2. old \in Link
      BY <2>5
    <3>3. new \in Link /\ new.bytes = old.bytes /\ new.total = old.total
      <4>1. up \in BOOLEAN
        OBVIOUS
      <4> HIDE DEF old, up
      <4> QED BY <3>2, <4>1 DEF Link
    <3>4. new = [wire.link[row] EXCEPT !.up = ~@, !.speed = speed]
      BY Zenon
    <3>5. new.bytes - new.total <= old.bytes - old.total
      <4> HIDE DEF old, new
      <4> QED BY <3>2, <3>3 DEF Link
    <3> QED BY <2>1, <2>4, <3>1, <3>3, <3>4, <3>5, RelinkStep
  <2>9. CASE ResetCounters
    <3>1. PICK row \in Range(Rows) : Change(Relink(row, [wire.link[row] EXCEPT !.bytes = 0]))
      BY <2>9 DEF ResetCounters
    <3> DEFINE old == wire.link[row]
               new == [old EXCEPT !.bytes = 0]
    <3>2. old \in Link
      BY <2>5
    <3>3. new \in Link /\ new.bytes - new.total <= old.bytes - old.total
      <4> DEFINE bytes == old.bytes
                 total == old.total
      <4>1. bytes \in Nat /\ total \in Nat
        BY <3>2 DEF Link
      <4>2. new.bytes = 0 /\ new.total = total /\ old.bytes = bytes /\ old.total = total
        <5> HIDE DEF old
        <5> QED BY <3>2 DEF Link
      <4>3. new \in Link
        <5> HIDE DEF old
        <5> QED BY <3>2 DEF Link
      <4> HIDE DEF old, new, bytes, total
      <4> QED BY <4>1, <4>2, <4>3
    <3> QED BY <2>1, <2>4, <3>1, <3>3, RelinkStep
  <2>10. CASE Traffic
    <3>1. PICK row \in Range(Rows) :
            wire' = Relink(row, [wire.link[row] EXCEPT !.bytes = @ + 1, !.total = @ + 1])
      BY <2>10 DEF Traffic
    <3> DEFINE old == wire.link[row]
               new == [old EXCEPT !.bytes = old.bytes + 1, !.total = old.total + 1]
    <3>2. old \in Link
      BY <2>5
    <3>3. new \in Link /\ new.bytes - new.total <= old.bytes - old.total
      <4> DEFINE bytes == old.bytes
                 total == old.total
      <4>1. bytes \in Nat /\ total \in Nat
        BY <3>2 DEF Link
      <4>2. old = [up |-> old.up, speed |-> old.speed, bytes |-> bytes, total |-> total]
        BY <3>2 DEF Link
      <4>3. new = [up |-> old.up, speed |-> old.speed, bytes |-> bytes + 1, total |-> total + 1]
        <5> DEFINE half == [old EXCEPT !.bytes = bytes + 1]
                   full == [half EXCEPT !.total = total + 1]
        <5>1. new = full
          BY Zenon
        <5> HIDE DEF old, bytes, total, new
        <5>2. half = [up |-> old.up, speed |-> old.speed, bytes |-> bytes + 1, total |-> total]
          BY <4>2
        <5> HIDE DEF half
        <5> QED BY <5>1, <5>2
      <4>4. (bytes + 1) - (total + 1) <= bytes - total
        <5> HIDE DEF bytes, total
        <5> QED BY <4>1
      <4>5. old.up \in BOOLEAN /\ old.speed \in Speeds
        BY <3>2 DEF Link
      <4>6. old.bytes = bytes /\ old.total = total
        OBVIOUS
      <4> HIDE DEF old, new, bytes, total
      <4>7. new \in Link
        BY <4>1, <4>3, <4>5 DEF Link
      <4>8. new.bytes = bytes + 1 /\ new.total = total + 1
        BY <4>3
      <4> QED BY <4>4, <4>6, <4>7, <4>8
    <3>4. wire' = Relink(row, new)
      BY <3>1, Zenon
    <3>5. /\ wire' \in Wires
          /\ \A r \in Range(Rows) : wire'.link[r].bytes - wire'.link[r].total
                                     <= wire.link[r].bytes - wire.link[r].total
      BY <2>1, <3>3, <3>4, RelinkStep
    <3> QED BY <2>1, <2>10, <3>5, WireStep DEF Traffic
  <2>11. CASE PortTimePasses
    <3>1. portClock' \in Nat /\ UNCHANGED <<catalog, wire, portSamples, portsShown>>
      BY <2>1, <2>11 DEF PortTimePasses
    <3> QED BY <2>1, <2>5, <3>1, WireStep
  <2>12. CASE UNCHANGED portVars
    BY <2>1, <2>5, <2>12, WireStep DEF portVars
  <2> QED BY <2>2, <2>3, <2>6, <2>7, <2>8, <2>9, <2>10, <2>11, <2>12 DEF PortsNext
<1>3. PortsInv => PortRatesOfOnePort
  BY DEF PortsInv
<1> QED BY <1>1, <1>2, <1>3, PTL DEF PortsSpec
-----------------------------------------------------------------------------
(* WANs: records of different WANs never meet in a row. *)

RealWans == Range(Wans) \ Devices
NamesOf(w) == Range(IdentityOf[w])
EndpointNumbers == 1..5

\* A record of a place.
RecordAt(p) == RecordOf(Wans[p[2]], WanEndpoints[p[1]])
Joins(p) == IsGatewayWan(RecordAt(p))

\* A row is of one WAN, and has names of no other.
RowOfOne(row) ==
    \E w \in RealWans : row.of = {w} /\ Range(row.names) \subseteq NamesOf(w)

\* The row of a WAN named steadily has all names that the WAN is called by.
Steady(w, e) ==
    /\ e \in GatewayRecords(w)
    /\ \A x \in GatewayRecords(w) : e <= x /\ NamesIn(w, x) \subseteq NamesIn(w, e)
HasRow(w, e) ==
    \E i \in DOMAIN wanRows :
        /\ {j \in DOMAIN wanRows : wanRows[j].of = {w}} = {i}
        /\ NamesIn(w, e) \subseteq Range(wanRows[i].names)
MergedBefore(w, e) ==
    \E k \in DOMAIN Wans : Wans[k] = w /\ <<e, k>> \notin unmerged

WanTypes ==
    /\ said \in [Range(WanEndpoints) \ {SpeedTests} -> NameSets]
    /\ unmerged \subseteq AllRecords
    /\ \A p \in AllRecords \ unmerged, q \in unmerged : Earlier(p, q)
    /\ wanRows \in Seq(Range(wanRows))

WansInv ==
    /\ WanTypes
    /\ \A i \in DOMAIN wanRows : RowOfOne(wanRows[i])
    /\ \A w \in RealWans, e \in EndpointNumbers : Steady(w, e) =>
          IF MergedBefore(w, e) THEN HasRow(w, e)
          ELSE \A i \in DOMAIN wanRows : wanRows[i].of # {w}

\* The endpoints are five.
LEMMA EndpointPlaces ==
  /\ DOMAIN WanEndpoints = EndpointNumbers
  /\ \A e \in EndpointNumbers : WanEndpoints[e] \in Range(WanEndpoints)
  /\ "wan_enriched" \in Range(WanEndpoints) \ {SpeedTests}
  /\ \A e \in EndpointNumbers : WanEndpoints[e] # SpeedTests => WanEndpoints[e] \in Range(WanEndpoints) \ {SpeedTests}
<1>1. WanEndpoints \in Seq({"wan_official", "wan_enriched", "wan_isp_status", "wan_load_balance", "devices"})
      /\ Len(WanEndpoints) = 5
  BY DEF WanEndpoints
<1>2. DOMAIN WanEndpoints = EndpointNumbers
  BY <1>1 DEF EndpointNumbers
<1>3. 2 \in EndpointNumbers /\ WanEndpoints[2] = "wan_enriched"
  BY DEF WanEndpoints, EndpointNumbers
<1> QED BY <1>2, <1>3 DEF Range, SpeedTests

\* A record is named by names of its WAN (_wan_record, _annotate_wan_payload).
LEMMA RecordNames ==
  ASSUME said \in [Range(WanEndpoints) \ {SpeedTests} -> NameSets],
         NEW w \in Range(Wans), NEW e \in EndpointNumbers, ListedBy(w, WanEndpoints[e])
  PROVE  LET r == RecordOf(w, WanEndpoints[e]) IN
         r.of = w /\ Range(r.names) \subseteq NamesOf(w)
<1> DEFINE r == RecordOf(w, WanEndpoints[e])
<1>1. CASE WanEndpoints[e] = SpeedTests
  <2> DEFINE group == NetworkGroup(w)
  <2>1. r = [of |-> w, names |-> [f \in {"group"} |-> group], isp |-> TRUE]
    BY <1>1 DEF RecordOf, WanRecord
  <2>2. group \in NamesOf(w)
    <3>1. w \in AskedFor
      BY <1>1 DEF ListedBy
    <3>2. \E f \in WanFields :
                \/ f = "group" /\ "group" \in said["wan_enriched"]
                \/ f = "id" /\ "id" \in said["wan_enriched"] /\ "group" \notin said["wan_enriched"]
                \/ f = "name" /\ said["wan_enriched"] \cap {"group", "id"} = {}
      BY <3>1 DEF AskedFor, WanFields
    <3>3. PICK f \in WanFields : group = IdentityOf[w][f]
      BY <3>2 DEF NetworkGroup
    <3> QED BY <3>3, WansAssumption DEF NamesOf, Range
  <2> HIDE DEF group
  <2> QED BY <2>1, <2>2 DEF Range
<1>2. CASE WanEndpoints[e] # SpeedTests
  <2> DEFINE fields == said[WanEndpoints[e]]
  <2>1. fields \subseteq WanFields
    BY <1>2, EndpointPlaces, WansAssumption
  <2>2. r = [of |-> w, names |-> [f \in fields |-> IdentityOf[w][f]], isp |-> (WanEndpoints[e] = "devices")]
    BY <1>2 DEF RecordOf, WanRecord, NamedBy
  <2> HIDE DEF fields, r
  <2> QED BY <2>1, <2>2, WansAssumption DEF Range, NamesOf, r
<1> QED BY <1>1, <1>2

\* What passes for a WAN's record is one: devices have other names.
LEMMA GatewayOfWan ==
  ASSUME WanTypes, NEW w \in Range(Wans), NEW e \in EndpointNumbers,
         ListedBy(w, WanEndpoints[e]), IsGatewayWan(RecordOf(w, WanEndpoints[e]))
  PROVE  LET r == RecordOf(w, WanEndpoints[e]) IN
         w \in RealWans /\ r.of = w /\ Range(r.names) \subseteq NamesOf(w) /\ Range(r.names) # {}
<1> DEFINE r == RecordOf(w, WanEndpoints[e])
<1>1. r.of = w /\ Range(r.names) \subseteq NamesOf(w)
  BY RecordNames DEF WanTypes
<1>2. Range(r.names) \cap (GatewayNames \cup RoleNames) # {}
  BY DEF IsGatewayWan
<1> HIDE DEF r
<1>3. w \notin Devices
  BY <1>1, <1>2, WansAssumption DEF NamesOf
<1> QED BY <1>1, <1>2, <1>3 DEF RealWans, r

\* A record joins the first row it shares a name with, or begins one.
LEMMA MergedRows ==
  ASSUME NEW S, NEW rows \in Seq(S), NEW r
  PROVE  \/ /\ \A i \in DOMAIN rows : ~SameName(rows[i], r)
            /\ Merged(rows, r) = Append(rows, [names |-> r.names, of |-> {r.of}])
         \/ \E k \in DOMAIN rows :
               SameName(rows[k], r) /\ Merged(rows, r) = [rows EXCEPT ![k] = Joined(rows[k], r)]
<1>1. CASE \A i \in DOMAIN rows : ~SameName(rows[i], r)
  BY <1>1 DEF Merged
<1>2. CASE \E i \in DOMAIN rows : SameName(rows[i], r)
  <2> DEFINE sharing == {i \in DOMAIN rows : SameName(rows[i], r)}
  <2>1. PICK i \in sharing : \A j \in sharing : i <= j
    <3>1. sharing \subseteq Nat /\ sharing # {}
      BY <1>2
    <3> HIDE DEF sharing
    <3> QED BY <3>1, Least
  <2> DEFINE first == CHOOSE k \in DOMAIN rows :
                        /\ SameName(rows[k], r)
                        /\ \A j \in 1..(k - 1) : ~SameName(rows[j], r)
  <2>2. first \in DOMAIN rows /\ SameName(rows[first], r)
    <3>1. i \in DOMAIN rows /\ SameName(rows[i], r)
      OBVIOUS
    <3>2. DOMAIN rows = 1..Len(rows) /\ Len(rows) \in Nat
      OBVIOUS
    <3>3. \A j \in 1..(i - 1) : ~SameName(rows[j], r)
      <4> SUFFICES ASSUME NEW j \in 1..(i - 1), SameName(rows[j], r) PROVE FALSE
        OBVIOUS
      <4>1. i \in 1..Len(rows)
        BY <3>1, <3>2
      <4>2. j \in DOMAIN rows /\ j < i /\ i \in Nat /\ j \in Nat
        BY <3>2, <4>1
      <4>3. i <= j
        BY <2>1, <4>2
      <4> QED BY <4>2, <4>3
    <3> QED BY <3>1, <3>3
  <2>3. Merged(rows, r) = [rows EXCEPT ![first] = Joined(@, r)]
    BY <1>2, Zenon DEF Merged
  <2> HIDE DEF first
  <2> QED BY <2>2, <2>3
<1> QED BY <1>1, <1>2

\* What is asked and answered does not change.
LEMMA NamingStays ==
  ASSUME UNCHANGED <<said, tested>>
  PROVE  /\ AllRecords' = AllRecords
         /\ \A w, e : Steady(w, e)' <=> Steady(w, e)
         /\ \A w, e : NamesIn(w, e)' = NamesIn(w, e)
<1>1. \A w : NetworkGroup(w)' = NetworkGroup(w)
  BY Zenon DEF NetworkGroup
<1>2. AskedFor' = AskedFor
  BY Zenon DEF AskedFor
<1>3. \A w, e : ListedBy(w, e)' <=> ListedBy(w, e)
  BY <1>1, <1>2, Zenon DEF ListedBy
<1>4. \A w, e : RecordOf(w, e)' = RecordOf(w, e)
  BY <1>1, Zenon DEF RecordOf
<1>5. AllRecords' = AllRecords
  BY <1>3 DEF AllRecords
<1>6. \A w : GatewayRecords(w)' = GatewayRecords(w)
  BY <1>3, <1>4 DEF GatewayRecords
<1>7. \A w, e : NamesIn(w, e)' = NamesIn(w, e)
  BY <1>4, Zenon DEF NamesIn
<1>8. \A w, e : Steady(w, e)' <=> Steady(w, e)
  BY <1>6, <1>7, Zenon DEF Steady
<1> QED BY <1>5, <1>7, <1>8

\* A sequence is one of its own elements.
LEMMA SeqOfOwn == ASSUME NEW S, NEW s \in Seq(S) PROVE s \in Seq(Range(s))
BY DEF Range

\* The record that begins the row of a WAN named steadily, and one of another WAN,
\* or a later one: each keeps the rows apart (_merge_wans).
LEMMA MergeKeeps ==
  ASSUME WansInv, MergeWan PROVE WansInv'
<1>1. PICK p \in unmerged :
        /\ \A q \in unmerged \ {p} : Earlier(p, q)
        /\ unmerged' = unmerged \ {p}
        /\ wanRows' = IF Joins(p) THEN Merged(wanRows, RecordAt(p)) ELSE wanRows
        /\ UNCHANGED <<said, tested>>
  BY Zenon DEF MergeWan, Joins, RecordAt
<1> DEFINE x == p[1]
           k == p[2]
           u == Wans[k]
           r == RecordAt(p)
<1>2. /\ x \in EndpointNumbers /\ k \in DOMAIN Wans /\ u \in Range(Wans) /\ p = <<x, k>>
      /\ ListedBy(u, WanEndpoints[x]) /\ p \in AllRecords
  <2>1. p \in AllRecords
    BY DEF WansInv, WanTypes
  <2> QED BY <2>1, EndpointPlaces DEF AllRecords, Range
<1>3. /\ AllRecords' = AllRecords
      /\ \A w, e : Steady(w, e)' <=> Steady(w, e)
      /\ \A w, e : NamesIn(w, e)' = NamesIn(w, e)
  BY <1>1, NamingStays
<1>4. DOMAIN wanRows = 1..Len(wanRows) /\ Len(wanRows) \in Nat /\ wanRows \in Seq(Range(wanRows))
  BY DEF WansInv, WanTypes
<1>5. r = RecordOf(u, WanEndpoints[x])
  BY DEF RecordAt
<1>6. Joins(p) => u \in RealWans /\ r.of = u /\ Range(r.names) \subseteq NamesOf(u) /\ Range(r.names) # {}
                  /\ x \in GatewayRecords(u) /\ NamesIn(u, x) = Range(r.names)
  <2> SUFFICES ASSUME Joins(p)
               PROVE  u \in RealWans /\ r.of = u /\ Range(r.names) \subseteq NamesOf(u)
                      /\ Range(r.names) # {} /\ x \in GatewayRecords(u) /\ NamesIn(u, x) = Range(r.names)
    OBVIOUS
  <2>1. IsGatewayWan(RecordOf(u, WanEndpoints[x]))
    BY <1>5 DEF Joins
  <2>2. x \in GatewayRecords(u) /\ NamesIn(u, x) = Range(r.names)
    BY <1>2, <1>5, <2>1, EndpointPlaces DEF GatewayRecords, NamesIn
  <2> HIDE DEF x, u, r
  <2>3. u \in RealWans /\ r.of = u /\ Range(r.names) \subseteq NamesOf(u) /\ Range(r.names) # {}
    BY <1>2, <1>5, <2>1, GatewayOfWan DEF WansInv
  <2> QED BY <2>2, <2>3
\* The row that shares a name with a record is of its WAN.
<1>7. \A i \in DOMAIN wanRows : Joins(p) /\ SameName(wanRows[i], r) => wanRows[i].of = {u}
  <2> SUFFICES ASSUME NEW i \in DOMAIN wanRows, Joins(p), SameName(wanRows[i], r)
               PROVE  wanRows[i].of = {u}
    OBVIOUS
  <2>1. PICK w \in RealWans : wanRows[i].of = {w} /\ Range(wanRows[i].names) \subseteq NamesOf(w)
    BY DEF WansInv, RowOfOne
  <2> HIDE DEF r, u
  <2>2. NamesOf(w) \cap NamesOf(u) # {}
    BY <1>6, <2>1 DEF SameName
  <2>3. w = u
    BY <1>6, <2>1, <2>2, WansAssumption DEF NamesOf, RealWans
  <2> QED BY <2>1, <2>3
<1> DEFINE new == [names |-> r.names, of |-> {r.of}]
<1>8. Joins(p) =>
        \/ /\ \A i \in DOMAIN wanRows : ~SameName(wanRows[i], r)
           /\ wanRows' = Append(wanRows, new)
        \/ \E i \in DOMAIN wanRows :
              SameName(wanRows[i], r) /\ wanRows' = [wanRows EXCEPT ![i] = Joined(wanRows[i], r)]
  BY <1>1, <1>4, MergedRows
\* What a row becomes.
<1>9. \A i \in DOMAIN wanRows :
        Joins(p) /\ SameName(wanRows[i], r) =>
          /\ Joined(wanRows[i], r).of = {u}
          /\ Range(Joined(wanRows[i], r).names) \subseteq NamesOf(u)
          /\ Range(wanRows[i].names) \subseteq Range(Joined(wanRows[i], r).names)
  <2> SUFFICES ASSUME NEW i \in DOMAIN wanRows, Joins(p), SameName(wanRows[i], r)
               PROVE  /\ Joined(wanRows[i], r).of = {u}
                      /\ Range(Joined(wanRows[i], r).names) \subseteq NamesOf(u)
                      /\ Range(wanRows[i].names) \subseteq Range(Joined(wanRows[i], r).names)
    OBVIOUS
  <2>1. wanRows[i].of = {u}
    BY <1>7
  <2>2. RowOfOne(wanRows[i])
    BY DEF WansInv
  <2> DEFINE row == wanRows[i]
             names == [f \in DOMAIN row.names \cup DOMAIN r.names |->
                         IF f \in DOMAIN row.names THEN row.names[f] ELSE r.names[f]]
  <2>3. Joined(row, r) = [names |-> names, of |-> row.of \cup {r.of}]
    BY DEF Joined
  <2>4. Range(row.names) \subseteq Range(names) /\ Range(names) \subseteq Range(row.names) \cup Range(r.names)
    <3> HIDE DEF row, r
    <3> QED BY DEF Range
  <2>5. Joined(row, r).of = row.of \cup {r.of} /\ Joined(row, r).names = names
    <3> HIDE DEF names
    <3> QED BY <2>3
  <2>6. Range(row.names) \subseteq NamesOf(u)
    BY <2>1, <2>2 DEF RowOfOne
  <2> HIDE DEF names, row, u, r
  <2>7. row.of = {u}
    BY <2>1 DEF row
  <2>8. /\ Joined(row, r).of = {u} /\ Range(Joined(row, r).names) \subseteq NamesOf(u)
        /\ Range(row.names) \subseteq Range(Joined(row, r).names)
    BY <1>6, <2>4, <2>5, <2>6, <2>7
  <2> QED BY <2>8 DEF row
<1>10. CASE ~Joins(p)
  <2>1. UNCHANGED wanRows
    BY <1>1, <1>10
  <2>2. WanTypes'
    BY <1>1, <1>3, <2>1 DEF WansInv, WanTypes
  <2>3. \A i \in DOMAIN wanRows' : RowOfOne(wanRows'[i])
    BY <2>1 DEF WansInv
  <2>4. ASSUME NEW w \in RealWans, NEW e \in EndpointNumbers, Steady(w, e)
        PROVE  /\ MergedBefore(w, e)' <=> MergedBefore(w, e)
               /\ HasRow(w, e)' <=> HasRow(w, e)
    <3>1. p # <<e, k>> \/ u # w
      <4> SUFFICES ASSUME p = <<e, k>>, u = w PROVE FALSE
        OBVIOUS
      <4>1. x = e
        BY <1>2
      <4> QED BY <1>5, <1>10, <2>4, <4>1 DEF Steady, GatewayRecords, Joins
    <3>2. \A j : Wans[j] = w => (<<e, j>> \notin unmerged' <=> <<e, j>> \notin unmerged)
      BY <1>1, <1>2, <3>1
    <3>3. HasRow(w, e)' <=> HasRow(w, e)
      BY <1>3, <2>1 DEF HasRow
    <3> QED BY <3>2, <3>3, Zenon DEF MergedBefore
  <2> QED BY <1>3, <2>1, <2>2, <2>3, <2>4 DEF WansInv
\* Where the record that would begin the row of u is merged.
<1>11. ASSUME NEW e \in EndpointNumbers, Joins(p), Steady(u, e)
       PROVE  /\ NamesIn(u, x) = Range(r.names) /\ NamesIn(u, x) \subseteq NamesIn(u, e)
              /\ ~MergedBefore(u, e) => p = <<e, k>>
  <2>1. e <= x /\ NamesIn(u, x) \subseteq NamesIn(u, e)
    BY <1>6, <1>11 DEF Steady
  <2>2. ASSUME ~MergedBefore(u, e), p # <<e, k>> PROVE FALSE
    <3>1. <<e, k>> \in unmerged \ {p}
      BY <1>2, <2>2 DEF MergedBefore
    <3>2. Earlier(p, <<e, k>>)
      BY <1>1, <3>1
    <3> HIDE DEF x, k
    <3>3. x < e \/ (x = e /\ k < k)
      BY <1>2, <3>2 DEF Earlier
    <3>4. x \in Nat /\ e \in Nat /\ k \in Nat
      BY <1>2, WansAssumption DEF EndpointNumbers
    <3> QED BY <2>1, <3>3, <3>4
  <2> QED BY <1>6, <1>11, <2>1, <2>2
<1>12. ASSUME NEW w \in RealWans, NEW e \in EndpointNumbers, w # u
       PROVE  MergedBefore(w, e)' <=> MergedBefore(w, e)
  <2>1. \A j : Wans[j] = w => (<<e, j>> \notin unmerged' <=> <<e, j>> \notin unmerged)
    BY <1>1, <1>2, <1>12
  <2> QED BY <2>1, Zenon DEF MergedBefore
<1>13. ASSUME NEW w \in RealWans, NEW e \in EndpointNumbers, MergedBefore(w, e)
       PROVE  MergedBefore(w, e)'
  BY <1>1, <1>13 DEF MergedBefore
<1>14. WanTypes /\ wanRows' \in Seq(Range(wanRows')) => WanTypes'
  BY <1>1, <1>3 DEF WanTypes
<1> DEFINE n == Len(wanRows)
<1>15. CASE Joins(p) /\ (\A i \in DOMAIN wanRows : ~SameName(wanRows[i], r))
            /\ wanRows' = Append(wanRows, new)
  <2>1. new.of = {u} /\ new.names = r.names
    BY <1>6, <1>15
  <2> HIDE DEF new
  <2>2. /\ DOMAIN wanRows' = 1..(n + 1) /\ wanRows'[n + 1] = new
        /\ \A i \in 1..n : wanRows'[i] = wanRows[i]
        /\ wanRows' \in Seq(Range(wanRows) \cup {new})
    BY <1>4, <1>15
  <2>3. WanTypes'
    BY <1>14, <2>2, SeqOfOwn DEF WansInv
  <2>4. ASSUME NEW i \in DOMAIN wanRows' PROVE RowOfOne(wanRows'[i])
    <3>1. CASE i = n + 1
      <4>1. new.of = {u} /\ Range(new.names) \subseteq NamesOf(u) /\ u \in RealWans
        BY <1>6, <1>15, <2>1
      <4> HIDE DEF u
      <4> QED BY <2>2, <3>1, <4>1 DEF RowOfOne
    <3>2. CASE i # n + 1
      BY <1>4, <2>2, <3>2 DEF WansInv
    <3> QED BY <3>1, <3>2
  <2>5. ASSUME NEW w \in RealWans, NEW e \in EndpointNumbers, Steady(w, e)
        PROVE  IF MergedBefore(w, e)' THEN HasRow(w, e)'
               ELSE \A i \in DOMAIN wanRows' : wanRows'[i].of # {w}
    <3>1. CASE w # u
      <4>1. \A j \in DOMAIN wanRows' : wanRows'[j].of = {w}
                <=> j \in DOMAIN wanRows /\ wanRows[j].of = {w}
        <5> HIDE DEF u
        <5>1. new.of # {w}
          BY <2>1, <3>1
        <5> QED BY <1>4, <2>2, <5>1
      <4>2. DOMAIN wanRows \subseteq DOMAIN wanRows'
        BY <1>4, <2>2
      <4>3. CASE MergedBefore(w, e)
        <5>1. PICK i \in DOMAIN wanRows :
                /\ {j \in DOMAIN wanRows : wanRows[j].of = {w}} = {i}
                /\ NamesIn(w, e) \subseteq Range(wanRows[i].names)
          BY <2>5, <4>3 DEF WansInv, HasRow
        <5>2. {j \in DOMAIN wanRows' : wanRows'[j].of = {w}} = {i}
          BY <4>1, <4>2, <5>1
        <5>3. NamesIn(w, e)' \subseteq Range(wanRows'[i].names) /\ i \in DOMAIN wanRows'
          BY <1>3, <1>4, <2>2, <4>2, <5>1
        <5>4. HasRow(w, e)'
          BY <5>2, <5>3 DEF HasRow
        <5> QED BY <1>13, <4>3, <5>4
      <4>4. CASE ~MergedBefore(w, e)
        <5>1. \A i \in DOMAIN wanRows : wanRows[i].of # {w}
          BY <2>5, <4>4 DEF WansInv
        <5> QED BY <1>12, <3>1, <4>1, <4>4, <5>1
      <4> QED BY <4>3, <4>4
    <3>2. CASE w = u
      <4>1. ASSUME MergedBefore(w, e) PROVE FALSE
        <5>1. PICK i \in DOMAIN wanRows : NamesIn(w, e) \subseteq Range(wanRows[i].names)
          BY <2>5, <4>1 DEF WansInv, HasRow
        <5>2. Range(r.names) \subseteq NamesIn(w, e) /\ Range(r.names) # {}
          BY <1>6, <1>11, <1>15, <2>5, <3>2
        <5> QED BY <1>15, <5>1, <5>2 DEF SameName
      <4>2. p = <<e, k>>
        BY <1>11, <1>15, <2>5, <3>2, <4>1
      <4>3. MergedBefore(w, e)'
        BY <1>1, <1>2, <3>2, <4>2 DEF MergedBefore
      <4>4. \A i \in DOMAIN wanRows : wanRows[i].of # {w}
        BY <2>5, <4>1 DEF WansInv
      <4>5. {j \in DOMAIN wanRows' : wanRows'[j].of = {w}} = {n + 1}
        <5> HIDE DEF u
        <5>1. \A j \in DOMAIN wanRows' : wanRows'[j].of = {w} <=> j = n + 1
          BY <1>4, <2>1, <2>2, <3>2, <4>4
        <5>2. n + 1 \in DOMAIN wanRows'
          BY <1>4, <2>2
        <5> QED BY <5>1, <5>2
      <4>6. n + 1 \in DOMAIN wanRows' /\ NamesIn(w, e)' \subseteq Range(wanRows'[n + 1].names)
        <5>1. NamesIn(w, e) = Range(r.names)
          <6>1. x = e
            BY <1>2, <4>2
          <6> QED BY <1>6, <1>15, <3>2, <6>1
        <5> QED BY <1>3, <1>4, <2>1, <2>2, <5>1
      <4>7. HasRow(w, e)'
        BY <4>5, <4>6 DEF HasRow
      <4> QED BY <4>3, <4>7
    <3> QED BY <3>1, <3>2
  <2> QED BY <1>3, <2>3, <2>4, <2>5 DEF WansInv
<1>16. CASE Joins(p) /\ \E i \in DOMAIN wanRows :
              SameName(wanRows[i], r) /\ wanRows' = [wanRows EXCEPT ![i] = Joined(wanRows[i], r)]
  <2>1. PICK m \in DOMAIN wanRows :
              SameName(wanRows[m], r) /\ wanRows' = [wanRows EXCEPT ![m] = Joined(wanRows[m], r)]
    BY <1>16
  <2> DEFINE joined == Joined(wanRows[m], r)
  <2>2. /\ wanRows[m].of = {u} /\ joined.of = {u} /\ Range(joined.names) \subseteq NamesOf(u)
        /\ Range(wanRows[m].names) \subseteq Range(joined.names) /\ u \in RealWans
    BY <1>6, <1>7, <1>9, <1>16, <2>1
  <2> HIDE DEF joined, u
  <2>3. /\ DOMAIN wanRows' = DOMAIN wanRows /\ wanRows'[m] = joined
        /\ \A i \in DOMAIN wanRows : i # m => wanRows'[i] = wanRows[i]
        /\ wanRows' \in Seq(Range(wanRows) \cup {joined})
    <3>1. wanRows' = [wanRows EXCEPT ![m] = joined]
      BY <2>1 DEF joined
    <3>2. wanRows \in Seq(Range(wanRows) \cup {joined})
      BY <1>4
    <3> QED BY <1>4, <3>1, <3>2
  <2>4. WanTypes'
    BY <1>14, <2>3, SeqOfOwn DEF WansInv
  <2>5. ASSUME NEW i \in DOMAIN wanRows' PROVE RowOfOne(wanRows'[i])
    BY <2>2, <2>3 DEF WansInv, RowOfOne
  <2>6. \A j \in DOMAIN wanRows : wanRows'[j].of = wanRows[j].of
                                  /\ Range(wanRows[j].names) \subseteq Range(wanRows'[j].names)
    BY <2>2, <2>3
  <2>7. ASSUME NEW w \in RealWans, NEW e \in EndpointNumbers, Steady(w, e)
        PROVE  IF MergedBefore(w, e)' THEN HasRow(w, e)'
               ELSE \A i \in DOMAIN wanRows' : wanRows'[i].of # {w}
    <3>1. CASE MergedBefore(w, e)
      <4>1. PICK i \in DOMAIN wanRows :
                /\ {j \in DOMAIN wanRows : wanRows[j].of = {w}} = {i}
                /\ NamesIn(w, e) \subseteq Range(wanRows[i].names)
        BY <2>7, <3>1 DEF WansInv, HasRow
      <4>2. {j \in DOMAIN wanRows' : wanRows'[j].of = {w}} = {i}
        BY <2>3, <2>6, <4>1
      <4>3. NamesIn(w, e)' \subseteq Range(wanRows'[i].names) /\ i \in DOMAIN wanRows'
        BY <1>3, <2>3, <2>6, <4>1
      <4>4. HasRow(w, e)'
        BY <4>2, <4>3 DEF HasRow
      <4> QED BY <1>13, <3>1, <4>4
    <3>2. CASE ~MergedBefore(w, e)
      <4>1. \A i \in DOMAIN wanRows : wanRows[i].of # {w}
        BY <2>7, <3>2 DEF WansInv
      <4>2. w # u
        BY <2>2, <4>1
      <4>3. ~MergedBefore(w, e)'
        BY <1>12, <3>2, <4>2
      <4> QED BY <2>3, <2>6, <4>1, <4>3
    <3> QED BY <3>1, <3>2
  <2> QED BY <1>3, <2>4, <2>5, <2>7 DEF WansInv
<1> QED BY <1>8, <1>10, <1>15, <1>16

\* What is measured of one WAN is never shown of another or of a device, and a WAN
\* named steadily has one row: for any WANs, devices and names that tell them apart,
\* and whichever endpoints answer (_merge_wans, src/clients/unifi_api.py).
THEOREM UnifiWansApart == WansSpec => []WansKeptApart
<1>1. WansInit => WansInv
  <2> SUFFICES ASSUME WansInit PROVE WansInv
    OBVIOUS
  <2>1. WanTypes /\ wanRows = <<>> /\ DOMAIN wanRows = {} /\ unmerged = AllRecords
    BY DEF WansInit, WanTypes
  <2>2. ASSUME NEW w \in RealWans, NEW e \in EndpointNumbers, Steady(w, e), MergedBefore(w, e)
        PROVE FALSE
    BY <2>1, <2>2, EndpointPlaces DEF MergedBefore, Steady, GatewayRecords, AllRecords
  <2> QED BY <2>1, <2>2 DEF WansInv
<1>2. WansInv /\ [MergeWan]_wanVars => WansInv'
  <2> SUFFICES ASSUME WansInv, UNCHANGED wanVars PROVE WansInv'
    BY MergeKeeps
  <2>1. UNCHANGED <<said, tested, unmerged, wanRows>>
    BY DEF wanVars
  <2>2. /\ AllRecords' = AllRecords
        /\ \A w, e : Steady(w, e)' <=> Steady(w, e)
        /\ \A w, e : NamesIn(w, e)' = NamesIn(w, e)
    BY <2>1, NamingStays
  <2>3. \A w, e : (HasRow(w, e)' <=> HasRow(w, e)) /\ (MergedBefore(w, e)' <=> MergedBefore(w, e))
    BY <2>1, <2>2, Zenon DEF HasRow, MergedBefore
  <2>4. WanTypes'
    BY <2>1, <2>2 DEF WanTypes, WansInv
  <2> QED BY <2>1, <2>2, <2>3, <2>4 DEF WansInv
<1>3. WansInv => WansKeptApart
  <2> SUFFICES ASSUME WansInv PROVE WansKeptApart
    OBVIOUS
  <2>1. ASSUME NEW row \in Range(WansShown) PROVE \E w \in Range(Wans) \ Devices : row.of = {w}
    <3> DEFINE n == IF Len(wanRows) < MaxWans THEN Len(wanRows) ELSE MaxWans
    <3>1. n \in Nat /\ n <= Len(wanRows) /\ wanRows \in Seq(Range(wanRows)) /\ Len(wanRows) \in Nat
      BY WansAssumption DEF WansInv, WanTypes
    <3>2. WansShown = SubSeq(wanRows, 1, n)
      BY DEF WansShown
    <3> HIDE DEF n
    <3>3. PICK i \in DOMAIN wanRows : row = wanRows[i]
      BY <3>1, <3>2 DEF Range
    <3> QED BY <3>3 DEF WansInv, RowOfOne, RealWans
  <2>2. ASSUME unmerged = {}, NEW w \in Range(Wans) \ Devices, SteadilyNamed(w)
        PROVE  \E i \in DOMAIN wanRows : {j \in DOMAIN wanRows : wanRows[j].of = {w}} = {i}
    <3>1. PICK e \in GatewayRecords(w) : Steady(w, e)
      BY <2>2 DEF SteadilyNamed, Steady
    <3>2. e \in EndpointNumbers
      BY EndpointPlaces DEF GatewayRecords
    <3>3. MergedBefore(w, e)
      BY <2>2 DEF MergedBefore, Range
    <3> QED BY <2>2, <3>1, <3>2, <3>3 DEF WansInv, HasRow, RealWans
  <2> QED BY <2>1, <2>2 DEF WansKeptApart
<1> QED BY <1>1, <1>2, <1>3, PTL DEF WansSpec
-----------------------------------------------------------------------------
(* The storage of a host: the disks behind its file systems. *)

Frames == [names : SUBSET Nodes, depth : Nat]

StorageTypes ==
    /\ host \in Hosts
    /\ walk \in [running : BOOLEAN, pending : Seq(Frames),
                 visited : SUBSET Nodes, physical : SUBSET Nodes]
    /\ filesystems \in Seq(Range(filesystems)) /\ Len(filesystems) <= Len(host.probes)

ClosedBelow(set) == \A m \in set : NodeType[m] # "disk" => host.layout.stack[m] \subseteq set
Awaits(n) == \E i \in DOMAIN walk.pending : n \in walk.pending[i].names
Reached(n) == n \in walk.visited \/ Awaits(n)
Start == SourceOf(ThisProbe)

\* The walk stays below its source, and finds the disks among the devices it visits.
WalkIsSound ==
    /\ MoreProbes /\ ThisProbe.kind # "btrfs" /\ Start \in Listed
    /\ walk.physical = {n \in walk.visited : NodeType[n] = "disk"}
    /\ \A set \in SUBSET Nodes :
          Start \in set /\ ClosedBelow(set) => \A n \in Nodes : Reached(n) => n \in set

\* Nothing below a device that was visited is forgotten; what awaits its visit is no
\* deeper than its own height allows, so none is skipped for its depth.
WalkIsWhole ==
    /\ Reached(Start)
    /\ \A m \in walk.visited : NodeType[m] # "disk" => \A n \in host.layout.stack[m] : Reached(n)
    /\ \A i \in DOMAIN walk.pending : \A n \in walk.pending[i].names :
          walk.pending[i].depth + host.layout.height[n] <= host.layout.height[Start]

Within(h, source) == h.sysfs /\ source \in Nodes /\ h.layout.height[source] <= MaxDepth

FilesystemHolds(h, probe, f) ==
    /\ f = CollectFilesystem(probe, f.backing)
    /\ f.backing \subseteq Below(h.layout, f.source)
    /\ f.backing # {} => h.lsblk
    /\ /\ Within(h, f.source) /\ probe.kind # "btrfs"
       /\ Cardinality(Below(h.layout, f.source)) <= MaxBacking
       => f.backing = Below(h.layout, f.source)

FilesystemsHold ==
    \A i \in DOMAIN filesystems : FilesystemHolds(host, host.probes[i], filesystems[i])

StorageInv ==
    /\ StorageTypes
    /\ walk.running => WalkIsSound /\ (Within(host, Start) => WalkIsWhole)
    /\ FilesystemsHold
    /\ storage # NoReport => /\ ~walk.running /\ ~MoreProbes
                             /\ BackingIsComplete /\ InventoryWithinBounds

\* Names and nodes are finitely many.
LEMMA FiniteNames ==
  /\ IsFiniteSet(Range(NameOrder)) /\ IsFiniteSet(Nodes)
<1>1. Len(NameOrder) \in Nat /\ DOMAIN NameOrder = 1..Len(NameOrder)
  BY StorageAssumption
<1>2. IsFiniteSet(DOMAIN NameOrder)
  BY <1>1, FS_Interval
<1>3. NameOrder \in Surjection(DOMAIN NameOrder, Range(NameOrder))
  BY <1>1, StorageAssumption DEF Surjection, Range
<1>4. IsFiniteSet(Range(NameOrder))
  BY <1>2, <1>3, FS_Surjection
<1> QED BY <1>4, StorageAssumption, FS_Subset

\* What a host is.
LEMMA HostFacts ==
  ASSUME host \in Hosts
  PROVE  /\ host.lsblk \in BOOLEAN /\ host.sysfs \in BOOLEAN /\ (host.sysfs => host.lsblk)
         /\ host.layout \in Layouts
         /\ host.layout.stack \in [Nodes -> SUBSET Nodes]
         /\ host.layout.height \in [Nodes -> Nat]
         /\ host.probes \in Seq(Range(host.probes)) /\ Len(host.probes) \in Nat
         /\ host.smart \in Seq(Range(host.smart))
         /\ \A r \in Range(host.smart) : r.target \in Range(NameOrder)
         /\ Listed \subseteq Nodes
BY StorageAssumption DEF Hosts, Listed

\* A device leads the walk to what it is built on; to all of it where sysfs shows it.
LEMMA NextOfNode ==
  ASSUME host \in Hosts, NEW n \in Nodes
  PROVE  /\ NextNodes(n) \subseteq host.layout.stack[n]
         /\ NextNodes(n) \subseteq Nodes
         /\ host.sysfs => NextNodes(n) = host.layout.stack[n]
<1>1. /\ host.layout.stack[n] \in SUBSET Nodes
      /\ IF host.layout.stack[n] = {} THEN host.layout.parent[n] = NoSource
         ELSE host.layout.parent[n] \in host.layout.stack[n]
      /\ NodeType[n] = "part" => host.layout.stack[n] \subseteq {host.layout.parent[n]}
      /\ NoSource \notin Nodes
  BY HostFacts, StorageAssumption
<1>2. CASE Slaves(n) # {}
  BY <1>1, <1>2 DEF NextNodes, Slaves
<1>3. CASE Slaves(n) = {}
  BY <1>1, <1>3 DEF NextNodes, Slaves
<1> QED BY <1>2, <1>3

\* Taking a name off leaves the others where they were.
LEMMA WithoutName ==
  ASSUME walk.pending \in Seq(Frames), walk.pending # <<>>, NEW name \in Top.names
  PROVE  /\ Top \in Frames
         /\ Len(walk.pending) \in DOMAIN walk.pending
         /\ Without(name) \in Seq(Frames)
         /\ \A i \in DOMAIN Without(name) : \E j \in DOMAIN walk.pending :
               /\ Without(name)[i].names \subseteq walk.pending[j].names
               /\ Without(name)[i].depth = walk.pending[j].depth
         /\ \A n : Awaits(n) => n = name \/ \E i \in DOMAIN Without(name) : n \in Without(name)[i].names
<1> DEFINE p == walk.pending
           k == Len(p)
           below == SubSeq(p, 1, k - 1)
           less == Pushed(Top.names \ {name}, Top.depth)
<1>1. k \in Nat \ {0} /\ DOMAIN p = 1..k /\ Top = p[k] /\ Top \in Frames
  BY DEF Top
<1>2. below \in Seq(Frames) /\ Len(below) = k - 1 /\ \A i \in 1..(k - 1) : below[i] = p[i]
  BY <1>1
<1>3. less \in Frames
  BY <1>1 DEF Frames, Pushed
<1>4. CASE Top.names = {name}
  <2>1. Without(name) = below
    BY <1>4 DEF Without
  <2>2. \A i \in DOMAIN below : i \in DOMAIN p /\ below[i] = p[i]
    BY <1>1, <1>2
  <2>3. ASSUME NEW n, NEW j \in DOMAIN p, n \in p[j].names, n # name PROVE \E i \in DOMAIN below : n \in below[i].names
    <3>1. j # k
      BY <1>1, <1>4, <2>3
    <3> QED BY <1>1, <1>2, <2>3, <3>1
  <2> HIDE DEF below
  <2> QED BY <1>1, <1>2, <2>1, <2>2, <2>3 DEF Awaits
<1>5. CASE Top.names # {name}
  <2> DEFINE q == Append(below, less)
  <2>1. Without(name) = q
    BY <1>5 DEF Without
  <2>2. q \in Seq(Frames) /\ Len(q) = k /\ DOMAIN q = 1..k /\ q[k] = less
        /\ \A i \in 1..(k - 1) : q[i] = p[i]
    <3> HIDE DEF less
    <3> QED BY <1>1, <1>2, <1>3
  <2>3. less.names = p[k].names \ {name} /\ less.depth = p[k].depth
    BY <1>1 DEF Pushed
  <2> HIDE DEF q, less, below
  <2>4. \A i \in DOMAIN q : /\ i \in DOMAIN p /\ q[i].names \subseteq p[i].names
                            /\ q[i].depth = p[i].depth
                            /\ \A n \in p[i].names : n = name \/ n \in q[i].names
    <3> SUFFICES ASSUME NEW i \in DOMAIN q
                 PROVE  /\ i \in DOMAIN p /\ q[i].names \subseteq p[i].names
                        /\ q[i].depth = p[i].depth
                        /\ \A n \in p[i].names : n = name \/ n \in q[i].names
      OBVIOUS
    <3>1. i = k \/ i \in 1..(k - 1)
      BY <1>1, <2>2
    <3> QED BY <1>1, <2>2, <2>3, <3>1
  <2>5. DOMAIN p = DOMAIN q
    BY <1>1, <2>2
  <2> QED BY <1>1, <2>1, <2>2, <2>4, <2>5 DEF Awaits
<1> QED BY <1>4, <1>5
\* A step of a walk keeps it where it is sound, and whole where it was.
LEMMA VisitKeeps == ASSUME StorageInv, VisitDevice PROVE StorageInv'
<1>1. PICK name \in Top.names : IsNext(name) /\ (Skip(name) \/ FindDisk(name) \/ GoDeeper(name))
  BY DEF VisitDevice
<1>2. /\ walk.running /\ walk.pending # <<>> /\ UNCHANGED <<host, filesystems, storage>>
      /\ host \in Hosts /\ walk.pending \in Seq(Frames)
      /\ walk.visited \subseteq Nodes /\ walk.physical \subseteq Nodes
      /\ StorageTypes /\ WalkIsSound /\ (Within(host, Start) => WalkIsWhole)
      /\ storage = NoReport
  BY DEF VisitDevice, StorageInv, StorageTypes
<1> DEFINE rest == Without(name)
           deeper == Pushed(NextNodes(name), Top.depth + 1)
<1>3. /\ Top \in Frames /\ Len(walk.pending) \in DOMAIN walk.pending
      /\ rest \in Seq(Frames)
      /\ \A i \in DOMAIN rest : \E j \in DOMAIN walk.pending :
            /\ rest[i].names \subseteq walk.pending[j].names
            /\ rest[i].depth = walk.pending[j].depth
      /\ \A n : Awaits(n) => n = name \/ \E i \in DOMAIN rest : n \in rest[i].names
      /\ Top.names \subseteq Nodes /\ name \in Nodes /\ Top.depth \in Nat
  <2>1. Top \in Frames
    BY <1>2, WithoutName
  <2> QED BY <1>2, <2>1, WithoutName DEF Frames
<1>4. Awaits(name)
  BY <1>3 DEF Awaits, Top
<1>5. NextNodes(name) \subseteq host.layout.stack[name] /\ NextNodes(name) \subseteq Nodes
      /\ (host.sysfs => NextNodes(name) = host.layout.stack[name])
  BY <1>2, <1>3, NextOfNode
<1>6. deeper \in Frames
  BY <1>3, <1>5 DEF Frames, Pushed
\* What awaits a visit afterwards.
<1>7. /\ walk' \in [running : BOOLEAN, pending : Seq(Frames),
                    visited : SUBSET Nodes, physical : SUBSET Nodes]
      /\ walk'.running = walk.running
      /\ walk'.visited = walk.visited \/ walk'.visited = walk.visited \cup {name}
      /\ walk'.physical = {n \in walk'.visited : NodeType[n] = "disk"}
      /\ \A i \in DOMAIN walk'.pending :
            \/ \E j \in DOMAIN walk.pending :
                  /\ walk'.pending[i].names \subseteq walk.pending[j].names
                  /\ walk'.pending[i].depth = walk.pending[j].depth
            \/ walk'.pending[i] = deeper /\ NodeType[name] # "disk"
      /\ \A n : Awaits(n) => n = name \/ Awaits(n)'
      /\ name \in walk'.visited \/ Top.depth > MaxDepth
      /\ name \in walk'.visited /\ name \notin walk.visited /\ NodeType[name] # "disk" =>
            \A n \in NextNodes(name) : Awaits(n)'
  <2>1. walk.physical = {n \in walk.visited : NodeType[n] = "disk"}
    BY <1>2 DEF WalkIsSound
  <2>2. walk \in [running : BOOLEAN, pending : Seq(Frames),
                  visited : SUBSET Nodes, physical : SUBSET Nodes]
    BY <1>2 DEF StorageTypes
  <2> HIDE DEF rest, deeper
  <2>3. CASE Skip(name)
    <3>1. walk' = [walk EXCEPT !.pending = rest]
      BY <2>3 DEF Skip, rest
    <3>2. /\ walk'.running = walk.running /\ walk'.visited = walk.visited
          /\ walk'.physical = walk.physical /\ walk'.pending = rest
      BY <2>2, <3>1
    <3>3. \A n : Awaits(n)' <=> \E i \in DOMAIN rest : n \in rest[i].names
      BY <3>2 DEF Awaits
    <3>4. name \in walk.visited \/ Top.depth > MaxDepth
      BY <2>3 DEF Skip
    <3>5. walk' \in [running : BOOLEAN, pending : Seq(Frames),
                     visited : SUBSET Nodes, physical : SUBSET Nodes]
      BY <1>3, <2>2, <3>1
    <3>6. \A i \in DOMAIN walk'.pending : \E j \in DOMAIN walk.pending :
            /\ walk'.pending[i].names \subseteq walk.pending[j].names
            /\ walk'.pending[i].depth = walk.pending[j].depth
      BY <1>3, <3>2
    <3>7. \A n : Awaits(n) => n = name \/ Awaits(n)'
      BY <1>3, <3>3
    <3>8. walk'.physical = {n \in walk'.visited : NodeType[n] = "disk"}
      BY <2>1, <3>2
    <3>9. walk'.visited = walk.visited
      BY <3>2
    <3> QED BY <3>2, <3>4, <3>5, <3>6, <3>7, <3>8, <3>9
  <2>4. CASE FindDisk(name)
    <3>1. walk' = [walk EXCEPT !.pending = rest, !.visited = @ \cup {name},
                              !.physical = @ \cup {name}] /\ NodeType[name] = "disk"
      BY <2>4 DEF FindDisk, rest
    <3>2. /\ walk'.running = walk.running /\ walk'.visited = walk.visited \cup {name}
          /\ walk'.physical = walk.physical \cup {name} /\ walk'.pending = rest
      BY <2>2, <3>1
    <3>3. \A n : Awaits(n)' <=> \E i \in DOMAIN rest : n \in rest[i].names
      BY <3>2 DEF Awaits
    <3>5. walk' \in [running : BOOLEAN, pending : Seq(Frames),
                     visited : SUBSET Nodes, physical : SUBSET Nodes]
      BY <1>3, <2>2, <3>1
    <3>6. \A i \in DOMAIN walk'.pending : \E j \in DOMAIN walk.pending :
            /\ walk'.pending[i].names \subseteq walk.pending[j].names
            /\ walk'.pending[i].depth = walk.pending[j].depth
      BY <1>3, <3>2
    <3>7. \A n : Awaits(n) => n = name \/ Awaits(n)'
      BY <1>3, <3>3
    <3>8. walk'.physical = {n \in walk'.visited : NodeType[n] = "disk"}
      BY <2>1, <3>1, <3>2
    <3> QED BY <3>1, <3>2, <3>5, <3>6, <3>7, <3>8
  <2>5. CASE GoDeeper(name)
    <3> DEFINE pushed == IF NextNodes(name) = {} THEN rest ELSE Append(rest, deeper)
    <3>1. walk' = [walk EXCEPT !.visited = @ \cup {name}, !.pending = pushed] /\ NodeType[name] # "disk"
      BY <2>5 DEF GoDeeper, rest, deeper
    <3>2. /\ walk'.running = walk.running /\ walk'.visited = walk.visited \cup {name}
          /\ walk'.physical = walk.physical /\ walk'.pending = pushed
      BY <2>2, <3>1
    <3>3. /\ pushed \in Seq(Frames)
          /\ \A i \in DOMAIN pushed : (i \in DOMAIN rest /\ pushed[i] = rest[i]) \/ pushed[i] = deeper
          /\ \A i \in DOMAIN rest : i \in DOMAIN pushed /\ pushed[i] = rest[i]
          /\ NextNodes(name) # {} => \E i \in DOMAIN pushed : pushed[i] = deeper
      <4>1. Len(rest) \in Nat /\ DOMAIN rest = 1..Len(rest)
        BY <1>3
      <4>2. CASE NextNodes(name) = {}
        BY <1>3, <4>2
      <4>3. CASE NextNodes(name) # {}
        <5>1. pushed = Append(rest, deeper)
          BY <4>3
        <5>2. /\ pushed \in Seq(Frames) /\ Len(pushed) = Len(rest) + 1
              /\ DOMAIN pushed = 1..(Len(rest) + 1) /\ pushed[Len(rest) + 1] = deeper
              /\ \A i \in 1..Len(rest) : pushed[i] = rest[i]
          BY <1>3, <1>6, <5>1
        <5> HIDE DEF pushed
        <5> QED BY <4>1, <5>2
      <4> QED BY <4>2, <4>3
    <3>4. deeper.names = NextNodes(name)
      BY DEF deeper, Pushed
    <3> HIDE DEF pushed
    <3>5. /\ \A n : Awaits(n) => n = name \/ Awaits(n)'
          /\ \A n \in NextNodes(name) : Awaits(n)'
      BY <1>3, <3>2, <3>3, <3>4 DEF Awaits
    <3>6. walk' \in [running : BOOLEAN, pending : Seq(Frames),
                     visited : SUBSET Nodes, physical : SUBSET Nodes]
      BY <1>3, <2>2, <3>1, <3>3
    <3>7. \A i \in DOMAIN walk'.pending :
            \/ \E j \in DOMAIN walk.pending :
                  /\ walk'.pending[i].names \subseteq walk.pending[j].names
                  /\ walk'.pending[i].depth = walk.pending[j].depth
            \/ walk'.pending[i] = deeper
      <4> SUFFICES ASSUME NEW i \in DOMAIN pushed
                   PROVE  \/ \E j \in DOMAIN walk.pending :
                                /\ pushed[i].names \subseteq walk.pending[j].names
                                /\ pushed[i].depth = walk.pending[j].depth
                          \/ pushed[i] = deeper
        BY <3>2
      <4>1. CASE i \in DOMAIN rest /\ pushed[i] = rest[i]
        BY <1>3, <4>1
      <4> QED BY <3>3, <4>1
    <3>8. walk'.physical = {n \in walk'.visited : NodeType[n] = "disk"}
      BY <2>1, <3>1, <3>2
    <3>9. name \in walk'.visited /\ walk'.visited = walk.visited \cup {name}
      BY <3>2
    <3> QED BY <3>1, <3>2, <3>5, <3>6, <3>7, <3>8, <3>9
  <2> QED BY <1>1, <2>3, <2>4, <2>5
<1>8. deeper.names = NextNodes(name) /\ deeper.depth = Top.depth + 1
  BY DEF Pushed
<1>9. /\ Start' = Start /\ MoreProbes' = MoreProbes /\ ThisProbe' = ThisProbe /\ Listed' = Listed
      /\ Within(host, Start)' = Within(host, Start)
      /\ FilesystemsHold' <=> FilesystemsHold
      /\ \A set \in SUBSET Nodes : ClosedBelow(set)' <=> ClosedBelow(set)
  BY <1>2 DEF Start, MoreProbes, ThisProbe, Listed, Within, FilesystemsHold, ClosedBelow
<1> HIDE DEF rest, deeper
<1>10. WalkIsSound'
  <2>1. ASSUME NEW set \in SUBSET Nodes, Start \in set, ClosedBelow(set), NEW n \in Nodes, Reached(n)'
        PROVE  n \in set
    <3>1. \A m \in Nodes : Reached(m) => m \in set
      BY <1>2, <2>1 DEF WalkIsSound
    <3>2. name \in set
      BY <1>3, <1>4, <3>1 DEF Reached
    <3>3. CASE n \in walk'.visited
      BY <1>7, <2>1, <3>1, <3>2, <3>3 DEF Reached
    <3>4. CASE Awaits(n)'
      <4>1. PICK i \in DOMAIN walk'.pending : n \in walk'.pending[i].names
        BY <3>4 DEF Awaits
      <4>2. CASE \E j \in DOMAIN walk.pending : walk'.pending[i].names \subseteq walk.pending[j].names
        BY <2>1, <3>1, <4>1, <4>2 DEF Reached, Awaits
      <4>3. CASE walk'.pending[i] = deeper /\ NodeType[name] # "disk"
        BY <1>5, <1>8, <2>1, <3>2, <4>1, <4>3 DEF ClosedBelow
      <4> QED BY <1>7, <4>1, <4>2, <4>3
    <3> QED BY <2>1, <3>3, <3>4 DEF Reached
  <2> QED BY <1>2, <1>7, <1>9, <2>1 DEF WalkIsSound
<1>11. Within(host, Start) => WalkIsWhole'
  <2> SUFFICES ASSUME Within(host, Start) PROVE WalkIsWhole'
    OBVIOUS
  <2>1. /\ WalkIsWhole /\ host.sysfs /\ Start \in Nodes /\ host.layout.height[Start] <= MaxDepth
        /\ host.layout.height[Start] \in Nat /\ host.layout.height[name] \in Nat /\ MaxDepth \in Nat
    BY <1>2, <1>3, HostFacts, StorageAssumption DEF Within
  <2>2. Top.depth + host.layout.height[name] <= host.layout.height[Start]
    BY <1>3, <2>1 DEF WalkIsWhole, Top
  <2>3. name \in walk'.visited
    BY <1>3, <1>7, <2>1, <2>2
  <2>4. \A n : Reached(n) => Reached(n)'
    BY <1>7, <2>3 DEF Reached
  <2>5. \A m \in walk'.visited : NodeType[m] # "disk" => \A n \in host.layout.stack[m] : Reached(n)'
    <3> SUFFICES ASSUME NEW m \in walk'.visited, NodeType[m] # "disk", NEW n \in host.layout.stack[m]
                 PROVE  Reached(n)'
      OBVIOUS
    <3>1. CASE m \in walk.visited
      BY <2>1, <2>4, <3>1 DEF WalkIsWhole
    <3>2. CASE m \notin walk.visited
      <4>1. m = name
        BY <1>7, <3>2
      <4> QED BY <1>5, <1>7, <2>1, <2>3, <3>2, <4>1 DEF Reached
    <3> QED BY <3>1, <3>2
  <2>6. ASSUME NEW i \in DOMAIN walk'.pending, NEW n \in walk'.pending[i].names
        PROVE  walk'.pending[i].depth + host.layout.height[n] <= host.layout.height[Start]
    <3>1. CASE walk'.pending[i] = deeper /\ NodeType[name] # "disk"
      <4>1. n \in host.layout.stack[name] /\ n \in Nodes
        BY <1>5, <1>8, <2>6, <3>1
      <4>2. host.layout.height[name] <= MaxDepth
        BY <1>3, <2>1, <2>2
      <4>3. host.layout.height[n] < host.layout.height[name] /\ host.layout.height[n] \in Nat
        BY <1>2, <1>3, <4>1, <4>2, HostFacts, StorageAssumption
      <4> QED BY <1>3, <1>8, <2>1, <2>2, <3>1, <4>3
    <3>2. CASE \E j \in DOMAIN walk.pending :
                  /\ walk'.pending[i].names \subseteq walk.pending[j].names
                  /\ walk'.pending[i].depth = walk.pending[j].depth
      BY <2>1, <2>6, <3>2 DEF WalkIsWhole
    <3> QED BY <1>7, <3>1, <3>2
  <2>7. Reached(Start)'
    <3>1. Reached(Start)
      BY <2>1 DEF WalkIsWhole
    <3>2. \A n : n = Start => Reached(n)'
      BY <2>4, <3>1
    <3> QED BY <1>9, <3>2 DEF Reached, Awaits
  <2> QED BY <1>2, <1>9, <2>5, <2>6, <2>7 DEF WalkIsWhole
<1>12. StorageTypes'
  BY <1>2, <1>7 DEF StorageTypes
<1> QED BY <1>2, <1>9, <1>10, <1>11, <1>12 DEF StorageInv
-----------------------------------------------------------------------------
(* The first of a set in an order. *)

StrictOrder(order, set) ==
    /\ \A d \in set : <<d, d>> \notin order
    /\ \A c, d \in set : c # d => <<c, d>> \in order \/ <<d, c>> \in order
    /\ \A b, c, d \in set : <<b, c>> \in order /\ <<c, d>> \in order => <<b, d>> \in order

\* The first of a set that is no larger than the limit are all of it.
LEMMA ForemostAll ==
  ASSUME NEW S, IsFiniteSet(S), NEW order, StrictOrder(order, S), NEW limit \in Nat,
         Cardinality(S) <= limit
  PROVE  Foremost(order, S, limit) = S
<1> SUFFICES ASSUME NEW d \in S PROVE Cardinality({c \in S : <<c, d>> \in order}) < limit
  BY DEF Foremost
<1> DEFINE before == {c \in S : <<c, d>> \in order}
<1>1. before \subseteq S \ {d}
  BY DEF StrictOrder
<1>2. IsFiniteSet(S \ {d}) /\ Cardinality(S \ {d}) = Cardinality(S) - 1
  BY FS_RemoveElement
<1>3. Cardinality(before) <= Cardinality(S \ {d}) /\ Cardinality(before) \in Nat
  <2> HIDE DEF before
  <2> QED BY <1>1, <1>2, FS_Subset, FS_CardinalityType
<1> QED BY <1>2, <1>3, FS_CardinalityType

\* The first of a set are no more than the limit, exactly as many when any is cut, and
\* what comes before one of them is one.
LEMMA ForemostCount ==
  ASSUME NEW S, IsFiniteSet(S), NEW order, StrictOrder(order, S), NEW limit \in Nat
  PROVE  LET F == Foremost(order, S, limit) IN
         /\ F \subseteq S
         /\ Cardinality(F) <= limit
         /\ F # S => Cardinality(F) = limit
         /\ \A c \in S, d \in F : <<c, d>> \in order => c \in F
<1> DEFINE before(d) == {c \in S : <<c, d>> \in order}
           n == Cardinality(S)
           f == [d \in S |-> Cardinality(before(d))]
           F == Foremost(order, S, limit)
<1>1. n \in Nat
  BY FS_CardinalityType
<1>2. \A d \in S : IsFiniteSet(before(d)) /\ f[d] \in Nat /\ f[d] = Cardinality(before(d))
  <2> SUFFICES ASSUME NEW d \in S
               PROVE  IsFiniteSet(before(d)) /\ Cardinality(before(d)) \in Nat
    OBVIOUS
  <2>1. before(d) \subseteq S
    OBVIOUS
  <2> HIDE DEF before
  <2> QED BY <2>1, FS_Subset, FS_CardinalityType
<1>3. \A c, d \in S : <<c, d>> \in order => f[c] < f[d]
  <2> SUFFICES ASSUME NEW c \in S, NEW d \in S, <<c, d>> \in order
               PROVE  Cardinality(before(c)) < Cardinality(before(d))
    OBVIOUS
  <2>1. before(c) \subseteq before(d) \ {c} /\ c \in before(d)
    BY DEF StrictOrder
  <2>2. IsFiniteSet(before(d)) /\ Cardinality(before(d)) \in Nat
    BY <1>2
  <2> HIDE DEF before
  <2>3. IsFiniteSet(before(d) \ {c}) /\ Cardinality(before(d) \ {c}) = Cardinality(before(d)) - 1
    BY <2>1, <2>2, FS_RemoveElement
  <2>4. Cardinality(before(c)) <= Cardinality(before(d) \ {c}) /\ Cardinality(before(c)) \in Nat
    BY <2>1, <2>3, FS_Subset, FS_CardinalityType
  <2> QED BY <2>2, <2>3, <2>4
<1>4. \A d \in S : f[d] <= n - 1
  <2> SUFFICES ASSUME NEW d \in S PROVE Cardinality(before(d)) <= n - 1
    OBVIOUS
  <2>1. before(d) \subseteq S \ {d}
    BY DEF StrictOrder
  <2>2. IsFiniteSet(S \ {d}) /\ Cardinality(S \ {d}) = n - 1
    BY FS_RemoveElement
  <2> HIDE DEF before
  <2> QED BY <2>1, <2>2, FS_Subset
<1>5. F = {d \in S : f[d] < limit}
  BY DEF Foremost
<1>55. \A d \in S : f[d] \in Nat
  BY <1>2
<1> HIDE DEF f, F, before, n
<1>6. f \in [S -> 0..(n - 1)]
  <2>1. f = [d \in S |-> f[d]]
    BY DEF f
  <2>2. \A d \in S : f[d] \in 0..(n - 1)
    BY <1>1, <1>4, <1>55
  <2> QED BY <2>1, <2>2
<1>7. \A c, d \in S : f[c] = f[d] => c = d
  <2> SUFFICES ASSUME NEW c \in S, NEW d \in S, c # d PROVE f[c] # f[d]
    OBVIOUS
  <2>1. <<c, d>> \in order \/ <<d, c>> \in order
    BY DEF StrictOrder
  <2>2. f[c] < f[d] \/ f[d] < f[c]
    BY <1>3, <2>1
  <2> QED BY <1>55, <2>2
<1>8. f \in Injection(S, 0..(n - 1))
  BY <1>6, <1>7 DEF Injection, IsInjective
<1>9. f \in Surjection(S, 0..(n - 1))
  <2>1. IsFiniteSet(0..(n - 1)) /\ Cardinality(0..(n - 1)) = n
    BY <1>1, FS_Interval
  <2> QED BY <1>1, <1>8, <2>1, FS_Injection DEF n
<1> DEFINE g == [d \in F |-> f[d]]
<1>10. g \in Injection(F, 0..(limit - 1))
  <2>1. \A d \in F : g[d] = f[d] /\ d \in S /\ f[d] \in 0..(limit - 1)
    BY <1>55, <1>5
  <2>2. g \in [F -> 0..(limit - 1)]
    BY <2>1
  <2> HIDE DEF g
  <2> QED BY <1>7, <2>1, <2>2 DEF Injection, IsInjective
<1>11. IsFiniteSet(0..(limit - 1)) /\ Cardinality(0..(limit - 1)) = limit
  BY FS_Interval
<1>12. ASSUME F # S PROVE g \in Surjection(F, 0..(limit - 1))
  <2>1. PICK d \in S : f[d] >= limit
    BY <1>55, <1>5, <1>12
  <2>2. ASSUME NEW k \in 0..(limit - 1) PROVE \E c \in F : g[c] = k
    <3>1. k \in 0..(n - 1)
      BY <1>1, <1>4, <1>55, <2>1
    <3>2. PICK c \in S : f[c] = k
      BY <1>9, <3>1 DEF Surjection
    <3> QED BY <1>5, <2>2, <3>2
  <2> HIDE DEF g
  <2> QED BY <1>10, <2>2 DEF Injection, Surjection
<1>13. Cardinality(F) <= limit /\ (F # S => Cardinality(F) = limit)
  <2> HIDE DEF g
  <2> QED BY <1>10, <1>11, <1>12, FS_Injection
<1>14. \A c \in S, d \in F : <<c, d>> \in order => c \in F
  BY <1>55, <1>3, <1>5
<1> QED BY <1>5, <1>13, <1>14 DEF F

\* Names are in an order.
LEMMA NamesOrdered == StrictOrder(ByName, Range(NameOrder))
<1> DEFINE R == Range(NameOrder)
           N == DOMAIN NameOrder
<1>1. /\ \A d \in R : \E i \in N : NameOrder[i] = d
      /\ \A i \in N : i \in Int
      /\ \A i, j \in N : NameOrder[i] = NameOrder[j] => i = j
  BY StorageAssumption DEF Range
<1>2. ASSUME NEW i \in N, NEW j \in N
      PROVE  <<NameOrder[i], NameOrder[j]>> \in ByName <=> i < j
  <2>1. ASSUME i < j PROVE <<NameOrder[i], NameOrder[j]>> \in ByName
    <3>1. <<i, j>> \in {q \in N \X N : q[1] < q[2]}
      BY <2>1
    <3> QED BY <3>1 DEF ByName
  <2>2. ASSUME <<NameOrder[i], NameOrder[j]>> \in ByName PROVE i < j
    <3>1. PICK p \in N \X N : p[1] < p[2] /\ <<NameOrder[i], NameOrder[j]>> = <<NameOrder[p[1]], NameOrder[p[2]]>>
      BY <2>2 DEF ByName
    <3>2. p[1] = i /\ p[2] = j
      BY <1>1, <3>1
    <3> QED BY <3>1, <3>2
  <2> QED BY <2>1, <2>2
<1> HIDE DEF N
<1>3. \A d \in R : <<d, d>> \notin ByName
  BY <1>1, <1>2
<1>4. \A c, d \in R : c # d => <<c, d>> \in ByName \/ <<d, c>> \in ByName
  <2> SUFFICES ASSUME NEW c \in R, NEW d \in R, c # d PROVE <<c, d>> \in ByName \/ <<d, c>> \in ByName
    OBVIOUS
  <2>1. PICK i \in N, j \in N : NameOrder[i] = c /\ NameOrder[j] = d
    BY <1>1
  <2>2. i < j \/ j < i
    BY <1>1, <2>1
  <2> QED BY <1>2, <2>1, <2>2
<1>5. \A b, c, d \in R : <<b, c>> \in ByName /\ <<c, d>> \in ByName => <<b, d>> \in ByName
  <2> SUFFICES ASSUME NEW b \in R, NEW c \in R, NEW d \in R, <<b, c>> \in ByName, <<c, d>> \in ByName
               PROVE  <<b, d>> \in ByName
    OBVIOUS
  <2>1. PICK i \in N, j \in N, k \in N : NameOrder[i] = b /\ NameOrder[j] = c /\ NameOrder[k] = d
    BY <1>1
  <2>2. i < j /\ j < k
    BY <1>2, <2>1
  <2>3. i < k
    BY <1>1, <2>2
  <2> QED BY <1>2, <2>1, <2>3
<1> QED BY <1>3, <1>4, <1>5 DEF StrictOrder
-----------------------------------------------------------------------------
(* The steps of a report. *)

\* What is found below a source is finitely many of the nodes.
LEMMA BelowFinite == ASSUME NEW layout, NEW source
                     PROVE  Below(layout, source) \subseteq Nodes /\ IsFiniteSet(Below(layout, source))
<1>1. Below(layout, source) \subseteq Nodes
  BY DEF Below
<1> QED BY <1>1, FiniteNames, FS_Subset

\* One more file system that holds what it must.
LEMMA FilesystemAppended ==
  ASSUME StorageTypes, MoreProbes, FilesystemsHold,
         NEW f, filesystems' = Append(filesystems, f), host' = host,
         walk' = walk \/ walk' = NoWalk,
         f = CollectFilesystem(ThisProbe, f.backing),
         f.source = Start,
         f.backing \subseteq Below(host.layout, Start), f.backing # {} => host.lsblk,
         Within(host, Start) /\ ThisProbe.kind # "btrfs" /\ Cardinality(Below(host.layout, Start)) <= MaxBacking
            => f.backing = Below(host.layout, Start)
  PROVE  StorageTypes' /\ FilesystemsHold'
<1>1. /\ filesystems \in Seq(Range(filesystems)) /\ Len(filesystems) < Len(host.probes)
      /\ host \in Hosts /\ Len(host.probes) \in Nat
  BY HostFacts DEF StorageTypes, MoreProbes
<1> DEFINE k == Len(filesystems) + 1
<1>2. /\ k \in Nat /\ Len(filesystems) \in Nat /\ k <= Len(host.probes)
      /\ DOMAIN filesystems = 1..Len(filesystems)
      /\ Len(filesystems') = k /\ DOMAIN filesystems' = 1..k
      /\ filesystems'[k] = f /\ \A i \in DOMAIN filesystems : filesystems'[i] = filesystems[i]
  BY <1>1
<1>3. filesystems' \in Seq(Range(filesystems'))
  <2>1. \A i \in 1..k : filesystems'[i] \in Range(filesystems')
    BY <1>2 DEF Range
  <2>2. filesystems' \in Seq(Range(filesystems) \cup {f})
    BY <1>1
  <2> QED BY <1>2, <2>1, <2>2
<1>4. StorageTypes'
  <2>1. NoWalk \in [running : BOOLEAN, pending : Seq(Frames),
                    visited : SUBSET Nodes, physical : SUBSET Nodes]
    BY DEF NoWalk
  <2> QED BY <1>1, <1>2, <1>3, <2>1 DEF StorageTypes
<1>5. \A i \in DOMAIN filesystems : FilesystemHolds(host', host'.probes[i], filesystems'[i])
  BY <1>2 DEF FilesystemsHold
<1>6. FilesystemHolds(host', host'.probes[k], filesystems'[k])
  BY <1>2 DEF FilesystemHolds, ThisProbe
<1>7. \A i \in DOMAIN filesystems' : i \in DOMAIN filesystems \/ i = k
  BY <1>2
<1> QED BY <1>4, <1>5, <1>6, <1>7 DEF FilesystemsHold

\* A file system begins its walk, or has none.
LEMMA ProbeKeeps == ASSUME StorageInv, ProbeFilesystem PROVE StorageInv'
<1>1. /\ ~walk.running /\ MoreProbes /\ UNCHANGED <<host, storage>> /\ StorageTypes /\ host \in Hosts
      /\ storage = NoReport
      /\ filesystems \in Seq(Range(filesystems)) /\ Len(filesystems) < Len(host.probes)
      /\ FilesystemsHold
  BY DEF ProbeFilesystem, StorageInv, StorageTypes, MoreProbes
<1>2. CASE ThisProbe.kind # "btrfs" /\ Start \in Listed
  <2> DEFINE first == Pushed({Start}, 0)
  <2>1. walk' = [NoWalk EXCEPT !.running = TRUE, !.pending = <<first>>] /\ UNCHANGED filesystems
    BY <1>2 DEF ProbeFilesystem, Start
  <2>2. Start \in Nodes /\ first \in Frames /\ first.names = {Start} /\ first.depth = 0
    BY <1>1, <1>2, HostFacts DEF Frames, Pushed
  <2> HIDE DEF first
  <2>3. <<first>> \in Seq(Frames) /\ DOMAIN <<first>> = {1} /\ <<first>>[1] = first
    BY <2>2
  <2>4. /\ walk'.running = TRUE /\ walk'.pending = <<first>> /\ walk'.visited = {} /\ walk'.physical = {}
        /\ walk' \in [running : BOOLEAN, pending : Seq(Frames),
                       visited : SUBSET Nodes, physical : SUBSET Nodes]
    BY <2>1, <2>3 DEF NoWalk
  <2>5. /\ Start' = Start /\ MoreProbes' = MoreProbes /\ ThisProbe' = ThisProbe /\ Listed' = Listed
        /\ Within(host, Start)' = Within(host, Start)
        /\ FilesystemsHold' <=> FilesystemsHold
    BY <1>1, <2>1 DEF Start, MoreProbes, ThisProbe, Listed, Within, FilesystemsHold
  <2>6. \A n : Reached(n)' <=> n = Start
    BY <2>2, <2>3, <2>4 DEF Reached, Awaits
  <2>7. WalkIsSound'
    <3>1. \A set : Start' \in set => \A n \in Nodes : Reached(n)' => n \in set
      BY <2>5, <2>6
    <3>2. walk'.physical = {n \in walk'.visited : NodeType[n] = "disk"}
      BY <2>4
    <3> QED BY <1>1, <1>2, <2>5, <3>1, <3>2 DEF WalkIsSound
  <2>8. WalkIsWhole'
    <3>1. Reached(Start)'
      BY <2>2, <2>3, <2>4, <2>5 DEF Reached, Awaits
    <3>2. host'.layout.height[Start] \in Nat /\ host' = host
      BY <1>1, <2>2, HostFacts
    <3>3. ASSUME NEW i \in DOMAIN walk'.pending, NEW n \in walk'.pending[i].names
          PROVE  walk'.pending[i].depth + host'.layout.height[n] <= host'.layout.height[Start']
      <4>1. n = Start /\ walk'.pending[i].depth = 0
        BY <2>2, <2>3, <2>4, <3>3
      <4> QED BY <2>5, <3>2, <4>1
    <3> QED BY <2>4, <3>1, <3>3 DEF WalkIsWhole
  <2>9. StorageTypes'
    BY <1>1, <2>1, <2>4 DEF StorageTypes
  <2> QED BY <1>1, <2>1, <2>5, <2>7, <2>8, <2>9 DEF StorageInv
<1>3. CASE ~(ThisProbe.kind # "btrfs" /\ Start \in Listed)
  <2> DEFINE f == CollectFilesystem(ThisProbe, {})
  <2>1. filesystems' = Append(filesystems, f) /\ walk' = walk
    BY <1>3 DEF ProbeFilesystem, Start
  <2>2. f.backing = {} /\ f.source = Start
    BY DEF CollectFilesystem, Start
  <2>3. ~(Within(host, f.source) /\ ThisProbe.kind # "btrfs")
    BY <1>1, <1>3, <2>2, HostFacts DEF Within, Listed
  <2>4. f = CollectFilesystem(ThisProbe, f.backing)
    BY <2>2
  <2> HIDE DEF f
  <2>5. StorageTypes' /\ FilesystemsHold'
    BY <1>1, <2>1, <2>2, <2>3, <2>4, FilesystemAppended
  <2> QED BY <1>1, <2>1, <2>5 DEF StorageInv
<1> QED BY <1>2, <1>3

\* The walk that has ended found the disks below its source.
LEMMA FinishKeeps == ASSUME StorageInv, FinishFilesystem PROVE StorageInv'
<1>1. /\ walk.running /\ walk.pending = <<>> /\ walk' = NoWalk /\ UNCHANGED <<host, storage>>
      /\ StorageTypes /\ host \in Hosts /\ WalkIsSound /\ (Within(host, Start) => WalkIsWhole)
      /\ storage = NoReport /\ MoreProbes
      /\ walk.visited \subseteq Nodes
      /\ filesystems \in Seq(Range(filesystems)) /\ Len(filesystems) < Len(host.probes)
      /\ FilesystemsHold
  BY DEF FinishFilesystem, StorageInv, StorageTypes, MoreProbes, WalkIsSound
<1> DEFINE backing == Foremost(ByName, walk.physical, MaxBacking)
           f == CollectFilesystem(ThisProbe, backing)
<1>2. filesystems' = Append(filesystems, f)
  BY DEF FinishFilesystem
<1>3. f.backing = backing /\ f.source = Start
  BY DEF CollectFilesystem, Start
<1>4. backing \subseteq walk.physical
  BY DEF Foremost
<1>5. \A n : Reached(n) <=> n \in walk.visited
  BY <1>1 DEF Reached, Awaits
<1>6. walk.physical \subseteq Below(host.layout, Start) /\ walk.physical \subseteq Nodes /\ host.lsblk
      /\ walk.physical = {n \in walk.visited : NodeType[n] = "disk"}
  BY <1>1, <1>5 DEF WalkIsSound, Below, ClosedBelow, Listed
<1>7. Within(host, Start) => Below(host.layout, Start) \subseteq walk.physical
  <2> SUFFICES ASSUME Within(host, Start), NEW n \in Below(host.layout, Start) PROVE n \in walk.physical
    OBVIOUS
  <2>1. Start \in walk.visited /\ ClosedBelow(walk.visited)
    BY <1>1, <1>5 DEF WalkIsWhole, ClosedBelow
  <2> QED BY <1>1, <1>6, <2>1 DEF Below, ClosedBelow
<1>8. Within(host, Start) /\ Cardinality(Below(host.layout, Start)) <= MaxBacking => backing = Below(host.layout, Start)
  <2> SUFFICES ASSUME Within(host, Start), Cardinality(Below(host.layout, Start)) <= MaxBacking PROVE backing = Below(host.layout, Start)
    OBVIOUS
  <2>1. walk.physical = Below(host.layout, Start)
    BY <1>6, <1>7
  <2>2. StrictOrder(ByName, Below(host.layout, Start))
    BY NamesOrdered, BelowFinite, StorageAssumption DEF StrictOrder
  <2> QED BY <2>1, <2>2, BelowFinite, ForemostAll, StorageAssumption
<1>9. f = CollectFilesystem(ThisProbe, f.backing)
  BY <1>3
<1> HIDE DEF f, backing
<1>10. StorageTypes' /\ FilesystemsHold'
  <2>1. NoWalk \in [running : BOOLEAN, pending : Seq(Frames),
                    visited : SUBSET Nodes, physical : SUBSET Nodes]
    BY DEF NoWalk
  <2> QED BY <1>1, <1>2, <1>3, <1>4, <1>6, <1>8, <1>9, <2>1, FilesystemAppended
<1> QED BY <1>1, <1>10 DEF StorageInv, NoWalk

\* Which part of the list a disk belongs to, and its place there.
DiskClass(id) == ReportPlace(id)[1]
ClassPlace(id) == ReportPlace(id)[2]

\* What may be listed has a place and a name.
LEMMA SelectableFacts ==
  ASSUME StorageTypes
  PROVE  /\ SmartIds \subseteq Range(NameOrder) /\ Selectable \subseteq Range(NameOrder)
         /\ IsFiniteSet(Selectable)
         /\ \A id \in Selectable :
               /\ DiskClass(id) \in Int /\ ClassPlace(id) \in Int
               /\ ReportPlace(id) = <<DiskClass(id), ClassPlace(id)>>
               /\ id \in SmartIds => DiskClass(id) = 1
               /\ id \in Related \ SmartIds => DiskClass(id) = 2
               /\ id \notin SmartIds \cup Related => DiskClass(id) = 3
<1>1. /\ host.smart \in Seq(Range(host.smart)) /\ DOMAIN host.smart \subseteq Nat
      /\ \A i \in DOMAIN host.smart : host.smart[i].target \in Range(NameOrder)
      /\ Listed \subseteq Nodes /\ Nodes \subseteq Range(NameOrder)
      /\ DOMAIN filesystems \subseteq Nat
  <2>1. /\ host.smart \in Seq(Range(host.smart)) /\ Listed \subseteq Nodes
        /\ \A r \in Range(host.smart) : r.target \in Range(NameOrder)
    BY HostFacts DEF StorageTypes
  <2>2. DOMAIN host.smart \subseteq Nat /\ DOMAIN filesystems \subseteq Nat
    BY <2>1 DEF StorageTypes
  <2>3. \A i \in DOMAIN host.smart : host.smart[i] \in Range(host.smart)
    BY DEF Range
  <2> QED BY <2>1, <2>2, <2>3, StorageAssumption
<1>2. \A t \in Range(NameOrder) : TopologyDiskId(t) \in Range(NameOrder)
  <2> SUFFICES ASSUME NEW t \in Range(NameOrder) PROVE TopologyDiskId(t) \in Range(NameOrder)
    OBVIOUS
  <2> DEFINE exposed == Namespaces[t] \cap Listed
  <2>1. Cardinality(exposed) = 1 => exposed # {}
    BY FS_EmptySet
  <2>2. TopologyDiskId(t) = t \/ (exposed # {} /\ TopologyDiskId(t) = CHOOSE d \in exposed : TRUE)
    BY <2>1 DEF TopologyDiskId
  <2>3. (CHOOSE d \in exposed : TRUE) \in exposed \/ exposed = {}
    OBVIOUS
  <2> QED BY <1>1, <2>2, <2>3
<1>3. SmartIds \subseteq Range(NameOrder)
  BY <1>1, <1>2 DEF SmartIds
<1>4. Selectable \subseteq Range(NameOrder)
  BY <1>1, <1>3 DEF Selectable, Related
<1>5. IsFiniteSet(Selectable)
  BY <1>4, FiniteNames, FS_Subset
<1>6. ASSUME NEW id \in SmartIds PROVE SmartPlace(id) \in Nat
  <2>1. RecordsOf(id) \in SUBSET Nat /\ RecordsOf(id) # {}
    BY <1>1 DEF RecordsOf, SmartIds
  <2>2. \E i \in RecordsOf(id) : \A j \in RecordsOf(id) : i <= j
    BY <2>1, Least
  <2> QED BY <2>1, <2>2 DEF SmartPlace
<1>7. ASSUME NEW id \in Related PROVE FilesystemPlace(id) \in Nat
  <2>1. Holders(id) \in SUBSET Nat /\ Holders(id) # {}
    BY <1>1 DEF Holders, Related
  <2>2. \E i \in Holders(id) : \A j \in Holders(id) : i <= j
    BY <2>1, Least
  <2> QED BY <2>1, <2>2 DEF FilesystemPlace
<1>8. ASSUME NEW id \in Selectable
      PROVE  /\ id \in SmartIds => ReportPlace(id) = <<1, SmartPlace(id)>>
             /\ id \in Related \ SmartIds => ReportPlace(id) = <<2, FilesystemPlace(id)>>
             /\ id \notin SmartIds \cup Related => ReportPlace(id) = <<3, 0>>
  BY DEF ReportPlace
<1>9. ASSUME NEW id \in Selectable
      PROVE  /\ DiskClass(id) \in Int /\ ClassPlace(id) \in Int
             /\ ReportPlace(id) = <<DiskClass(id), ClassPlace(id)>>
             /\ id \in SmartIds => DiskClass(id) = 1
             /\ id \in Related \ SmartIds => DiskClass(id) = 2
             /\ id \notin SmartIds \cup Related => DiskClass(id) = 3
  <2>1. CASE id \in SmartIds
    BY <1>6, <1>8, <2>1 DEF DiskClass, ClassPlace
  <2>2. CASE id \in Related \ SmartIds
    BY <1>7, <1>8, <2>2 DEF DiskClass, ClassPlace
  <2>3. CASE id \notin SmartIds \cup Related
    BY <1>8, <2>3 DEF DiskClass, ClassPlace
  <2> QED BY <2>1, <2>2, <2>3
<1> QED BY <1>3, <1>4, <1>5, <1>9

\* The order of the list: two disks of one place are told apart by their names.
LEMMA ReportOrdered == ASSUME StorageTypes PROVE StrictOrder(ReportOrder, Selectable)
<1> DEFINE Less(a, b) == \/ DiskClass(a) < DiskClass(b)
                         \/ DiskClass(a) = DiskClass(b) /\ ClassPlace(a) < ClassPlace(b)
           Same(a, b) == DiskClass(a) = DiskClass(b) /\ ClassPlace(a) = ClassPlace(b)
<1>1. /\ \A id \in Selectable :
            /\ DiskClass(id) \in Int /\ ClassPlace(id) \in Int
            /\ ReportPlace(id) = <<DiskClass(id), ClassPlace(id)>>
      /\ Selectable \subseteq Range(NameOrder)
  BY SelectableFacts
<1>2. ASSUME NEW c \in Selectable, NEW d \in Selectable
      PROVE  <<c, d>> \in ReportOrder <=> Less(c, d) \/ (Same(c, d) /\ <<c, d>> \in ByName)
  <2>1. ReportPlace(c) = ReportPlace(d) <=> Same(c, d)
    BY <1>1
  <2> QED BY <2>1 DEF ReportOrder, DiskClass, ClassPlace
<1>3. StrictOrder(ByName, Selectable)
  BY <1>1, NamesOrdered DEF StrictOrder
<1>4. \A c, d \in Selectable : ~Same(c, d) => Less(c, d) \/ Less(d, c)
  BY <1>1
<1>5. \A c \in Selectable : ~Less(c, c)
  BY <1>1
<1>6. \A b, c, d \in Selectable : Less(b, c) /\ Less(c, d) => Less(b, d)
  BY <1>1
<1>10. \A b, c, d \in Selectable :
          /\ Same(b, c) /\ Same(c, d) => Same(b, d)
          /\ Same(b, c) /\ Less(c, d) => Less(b, d)
          /\ Less(b, c) /\ Same(c, d) => Less(b, d)
  BY <1>1
<1>11. \A c, d \in Selectable : Same(c, d) => ~Less(c, d)
  BY <1>1
<1> HIDE DEF Less, Same
<1>7. \A d \in Selectable : <<d, d>> \notin ReportOrder
  BY <1>2, <1>3, <1>5 DEF StrictOrder
<1>8. \A c, d \in Selectable : c # d => <<c, d>> \in ReportOrder \/ <<d, c>> \in ReportOrder
  BY <1>2, <1>3, <1>4 DEF StrictOrder
<1>9. \A b, c, d \in Selectable :
         <<b, c>> \in ReportOrder /\ <<c, d>> \in ReportOrder => <<b, d>> \in ReportOrder
  <2> SUFFICES ASSUME NEW b \in Selectable, NEW c \in Selectable, NEW d \in Selectable,
                      <<b, c>> \in ReportOrder, <<c, d>> \in ReportOrder
               PROVE  <<b, d>> \in ReportOrder
    OBVIOUS
  <2>1. CASE Same(b, c)
    <3>1. CASE Same(c, d)
      <4>1. ~Less(b, c) /\ ~Less(c, d)
        BY <1>11, <2>1, <3>1
      <4>2. <<b, c>> \in ByName /\ <<c, d>> \in ByName
        BY <1>2, <4>1
      <4>3. <<b, d>> \in ByName
        BY <1>3, <4>2 DEF StrictOrder
      <4>4. Same(b, d)
        BY <1>10, <2>1, <3>1
      <4> QED BY <1>2, <4>3, <4>4
    <3>2. CASE ~Same(c, d)
      BY <1>2, <1>10, <2>1, <3>2
    <3> QED BY <3>1, <3>2
  <2>2. CASE ~Same(b, c)
    <3>1. Less(b, c)
      BY <1>2, <2>2
    <3>2. CASE Same(c, d)
      BY <1>2, <1>10, <3>1, <3>2
    <3>3. CASE ~Same(c, d)
      BY <1>2, <1>6, <3>1, <3>3
    <3> QED BY <3>2, <3>3
  <2> QED BY <2>1, <2>2
<1> QED BY <1>7, <1>8, <1>9 DEF StrictOrder

\* The list is cut at its end, where the disks come that nobody asked for.
LEMMA ListedFirst ==
  ASSUME StorageTypes
  PROVE  /\ PhysicalDiskIds \subseteq Selectable
         /\ Cardinality(PhysicalDiskIds) <= MaxDisks
         /\ \A d \in Selectable \ PhysicalDiskIds :
               /\ Cardinality(PhysicalDiskIds) = MaxDisks
               /\ d \in SmartIds => PhysicalDiskIds \subseteq SmartIds
               /\ d \in Related => PhysicalDiskIds \subseteq SmartIds \cup Related
<1>1. /\ IsFiniteSet(Selectable) /\ StrictOrder(ReportOrder, Selectable) /\ MaxDisks \in Nat
  BY SelectableFacts, ReportOrdered, StorageAssumption
<1>2. /\ PhysicalDiskIds \subseteq Selectable /\ Cardinality(PhysicalDiskIds) <= MaxDisks
      /\ PhysicalDiskIds # Selectable => Cardinality(PhysicalDiskIds) = MaxDisks
      /\ \A c \in Selectable, d \in PhysicalDiskIds : <<c, d>> \in ReportOrder => c \in PhysicalDiskIds
  BY <1>1, ForemostCount DEF PhysicalDiskIds
<1>3. ASSUME NEW d \in Selectable \ PhysicalDiskIds, NEW c \in PhysicalDiskIds
      PROVE  DiskClass(c) <= DiskClass(d)
  <2>1. <<d, c>> \notin ReportOrder
    BY <1>2, <1>3
  <2>2. ~(DiskClass(d) < DiskClass(c))
    BY <1>2, <2>1 DEF ReportOrder, DiskClass
  <2>3. DiskClass(c) \in Int /\ DiskClass(d) \in Int
    BY <1>2, SelectableFacts
  <2> QED BY <2>2, <2>3
<1>4. \A c \in PhysicalDiskIds :
         /\ DiskClass(c) <= 1 => c \in SmartIds
         /\ DiskClass(c) <= 2 => c \in SmartIds \cup Related
  BY <1>2, SelectableFacts
<1>5. \A d \in Selectable :
         /\ d \in SmartIds => DiskClass(d) = 1
         /\ d \in Related => DiskClass(d) <= 2
  BY SelectableFacts
<1>6. \A c \in PhysicalDiskIds : DiskClass(c) \in Int
  BY <1>2, SelectableFacts
<1>7. \A d \in Selectable : DiskClass(d) \in Int
  BY SelectableFacts
<1> QED BY <1>2, <1>3, <1>4, <1>5, <1>6, <1>7

\* The report holds what it must.
LEMMA ReportKeeps == ASSUME StorageInv, CollectHardware PROVE StorageInv'
<1>1. /\ StorageTypes /\ ~walk.running /\ ~MoreProbes /\ UNCHANGED <<host, walk, filesystems>>
      /\ FilesystemsHold
  BY DEF StorageInv, CollectHardware
<1>2. /\ DOMAIN storage'.disks = PhysicalDiskIds
      /\ storage'.filesystems = [i \in DOMAIN filesystems |->
             [filesystems[i] EXCEPT !.backing = @ \cap PhysicalDiskIds]]
  BY DEF CollectHardware
<1>3. DOMAIN storage'.filesystems = DOMAIN filesystems
  BY <1>2
<1>4. ASSUME NEW i \in DOMAIN filesystems
      PROVE  /\ storage'.filesystems[i].backing = filesystems[i].backing \cap PhysicalDiskIds
             /\ storage'.filesystems[i].source = filesystems[i].source
  <2>1. filesystems[i] = CollectFilesystem(host.probes[i], filesystems[i].backing)
    BY <1>1 DEF FilesystemsHold, FilesystemHolds
  <2>2. DOMAIN filesystems[i] = {"backing", "source", "healthy", "error"}
    BY <2>1 DEF CollectFilesystem
  <2> QED BY <1>2, <2>2
<1>5. Shown' = PhysicalDiskIds
  BY <1>2 DEF Shown
<1>6. BackingIsComplete'
  <2>1. \A i \in DOMAIN filesystems : FilesystemHolds(host, host.probes[i], filesystems[i])
    BY <1>1 DEF FilesystemsHold
  <2>2. ASSUME NEW i \in DOMAIN filesystems
        PROVE  LET f == storage'.filesystems[i] IN
               /\ f.backing \subseteq Below(host.layout, f.source)
               /\ /\ Within(host, f.source) /\ host.probes[i].kind # "btrfs"
                  /\ Cardinality(Below(host.layout, f.source)) <= MaxBacking
                  => f.backing = Below(host.layout, f.source) \cap PhysicalDiskIds
    BY <1>4, <2>1 DEF FilesystemHolds
  <2> QED BY <1>1, <1>3, <1>5, <2>2 DEF BackingIsComplete, Within
<1>7. InventoryWithinBounds'
  <2>1. /\ SmartIds' = SmartIds /\ Related' = Related
    BY <1>1 DEF SmartIds, Related, TopologyDiskId, Holders, ListedDisk, Listed
  <2>2. /\ SmartIds \ Volatile \subseteq Selectable /\ Related \subseteq Selectable
    BY DEF Selectable
  <2>3. host.mode = "allowlist" =>
           \A d \in PhysicalDiskIds : d \in SmartIds \cup Related \cup BootMedia \/ Transport[d] = "usb"
    BY <1>1, ListedFirst DEF Selectable, InInventory
  <2>4. \A i \in DOMAIN storage'.filesystems : storage'.filesystems[i].backing \subseteq PhysicalDiskIds
    BY <1>3, <1>4
  <2> QED BY <1>1, <1>5, <2>1, <2>2, <2>3, <2>4, ListedFirst DEF InventoryWithinBounds
<1>8. StorageTypes'
  BY <1>1 DEF StorageTypes
<1>9. FilesystemsHold' /\ ~walk'.running /\ ~MoreProbes'
  BY <1>1 DEF FilesystemsHold, MoreProbes
<1> QED BY <1>6, <1>7, <1>8, <1>9 DEF StorageInv

\* The four steps keep the invariant.
LEMMA StorageInvariant == StorageSpec => []StorageInv
<1>1. StorageInit => StorageInv
  <2> SUFFICES ASSUME StorageInit PROVE StorageInv
    OBVIOUS
  <2>1. NoWalk \in [running : BOOLEAN, pending : Seq(Frames),
                    visited : SUBSET Nodes, physical : SUBSET Nodes] /\ ~NoWalk.running
    BY DEF NoWalk
  <2>2. Len(host.probes) \in Nat
    BY HostFacts DEF StorageInit
  <2>3. filesystems = <<>> /\ DOMAIN filesystems = {} /\ Len(filesystems) = 0
        /\ filesystems \in Seq(Range(filesystems))
    BY DEF StorageInit
  <2> QED BY <2>1, <2>2, <2>3 DEF StorageInit, StorageInv, StorageTypes, FilesystemsHold
<1>2. StorageInv /\ [StorageNext]_storageVars => StorageInv'
  <2> SUFFICES ASSUME StorageInv, [StorageNext]_storageVars PROVE StorageInv'
    OBVIOUS
  <2>1. CASE StorageNext
    BY <2>1, ProbeKeeps, VisitKeeps, FinishKeeps, ReportKeeps DEF StorageNext
  <2>2. CASE UNCHANGED storageVars
    <3>1. UNCHANGED <<host, walk, filesystems, storage>>
      BY <2>2 DEF storageVars
    <3>2. StorageTypes' /\ FilesystemsHold'
      BY <3>1 DEF StorageInv, StorageTypes, FilesystemsHold
    <3>3. walk'.running => WalkIsSound' /\ (Within(host, Start)' => WalkIsWhole')
      BY <3>1 DEF StorageInv, WalkIsSound, WalkIsWhole, Within, Start, MoreProbes, ThisProbe, Listed,
                  Reached, Awaits, ClosedBelow
    <3>4. storage' # NoReport => /\ ~walk'.running /\ ~MoreProbes'
                                 /\ BackingIsComplete' /\ InventoryWithinBounds'
      <4>1. Shown' = Shown /\ SmartIds' = SmartIds /\ Related' = Related
        BY <3>1 DEF Shown, SmartIds, Related, TopologyDiskId, Holders, ListedDisk, Listed
      <4>2. BackingIsComplete => BackingIsComplete'
        BY <3>1, <4>1 DEF BackingIsComplete
      <4>3. InventoryWithinBounds => InventoryWithinBounds'
        BY <3>1, <4>1 DEF InventoryWithinBounds
      <4> QED BY <3>1, <4>2, <4>3 DEF StorageInv, MoreProbes
    <3> QED BY <3>2, <3>3, <3>4 DEF StorageInv
  <2> QED BY <2>1, <2>2
<1> QED BY <1>1, <1>2, PTL DEF StorageSpec

\* Whatever devices are built on, and over any cycle, the disks shown for a file system
\* are below it; where sysfs is visible they are all the listed ones below it, unless the
\* stack is higher than the walk goes, the disks are more than one relation may name, or
\* it is a btrfs (resolve_backing_physical_disks, src/clients/host_collector.py).
THEOREM StorageBackingComplete == StorageSpec => []BackingIsComplete
<1>1. StorageInv => BackingIsComplete
  BY DEF StorageInv, BackingIsComplete
<1> QED BY <1>1, StorageInvariant, PTL

\* For any disks, file systems and limits, a relation is to a listed disk, and the limit
\* cuts what nobody asked for first (_physical_disk_ids_for_report,
\* src/clients/host_collector.py).
THEOREM StorageInventoryWithinBounds == StorageSpec => []InventoryWithinBounds
<1>1. StorageInv => InventoryWithinBounds
  BY DEF StorageInv, InventoryWithinBounds
<1> QED BY <1>1, StorageInvariant, PTL

-----------------------------------------------------------------------------
(* SMART over the transports of a bridge. *)

\* A verdict taken from an answer is the disk's own, if the answers are honest.
LEMMA HonestProbe ==
  ASSUME bridge \in [Disks -> Bridges], NEW d \in Disks, NEW type \in Types, NEW awake,
         Probe(d, type, awake).health \in Verdicts
  PROVE  Probe(d, type, awake).health = TrueHealth
<1> DEFINE answer == IF d \in awake THEN bridge[d][type] ELSE NoAnswer
<1>1. SmartHealth(answer) \in Verdicts \ {TrueHealth} => answer.incomplete /\ ~answer.table
  <2>1. CASE d \in awake
    BY <2>1, SmartAssumption DEF Honest
  <2>2. CASE d \notin awake
    BY <2>2 DEF NoAnswer, SmartHealth, Verdicts, Nothing
  <2> QED BY <2>1, <2>2
<1>2. Probe(d, type, awake) = CollectSmartCandidate(answer)
  BY DEF Probe
<1> HIDE DEF answer
<1>3. "unknown" \notin Verdicts
  BY DEF Verdicts
<1>4. CollectSmartCandidate(answer).health
        \in {"unknown", IF answer.incomplete /\ ~AttributeFallback(answer)
                         THEN "unknown" ELSE SmartHealth(answer)}
  BY DEF CollectSmartCandidate, NotRead
<1>5. CollectSmartCandidate(answer).health = SmartHealth(answer)
      /\ ~(answer.incomplete /\ ~AttributeFallback(answer))
  BY <1>2, <1>3, <1>4
<1> QED BY <1>1, <1>2, <1>5 DEF AttributeFallback

\* The transports tried: three, or four with a hint of another kind.
LEMMA CandidateTypes ==
  ASSUME NEW hint
  PROVE  LET types == TransportCandidates(hint) IN
         /\ Len(types) \in {3, 4} /\ DOMAIN types = 1..Len(types)
         /\ \A i \in DOMAIN types : types[i] \in {"sat", "ata", "scsi", hint}
         /\ types[1] = "sat" /\ types[2] = "ata"
         /\ \E i \in DOMAIN types : types[i] = "scsi"
<1> DEFINE generic == <<"sat", "ata">>
           own == IF hint \in {AnyType} \cup Range(generic) THEN <<>> ELSE <<hint>>
           rest == IF hint = "scsi" THEN <<>> ELSE <<"scsi">>
<1>1. Range(generic) = {"sat", "ata"}
  BY DEF Range
<1>2. TransportCandidates(hint) = generic \o own \o rest
  BY Zenon DEF TransportCandidates
<1>3. \/ own = <<>> /\ rest = <<"scsi">>
      \/ own = <<"scsi">> /\ rest = <<>>
      \/ own = <<hint>> /\ rest = <<"scsi">>
  BY <1>1 DEF AnyType
<1> DEFINE S == {"sat", "ata", "scsi", hint}
           two == generic \o own
           all == two \o rest
<1> HIDE DEF own, rest
<1>4. own \in Seq(S)
  <2>1. <<>> \in Seq(S) /\ <<"scsi">> \in Seq(S) /\ <<hint>> \in Seq(S)
    OBVIOUS
  <2> QED BY <1>3, <2>1
<1>5. rest \in Seq(S)
  <2>1. <<>> \in Seq(S) /\ <<"scsi">> \in Seq(S)
    OBVIOUS
  <2> QED BY <1>3, <2>1
<1>6. generic \in Seq(S) /\ Len(generic) = 2 /\ generic[1] = "sat" /\ generic[2] = "ata"
  OBVIOUS
<1>7. Len(own) \in {0, 1} /\ Len(rest) \in {0, 1}
  BY <1>3
<1>8. \/ Len(rest) = 1 /\ rest[1] = "scsi"
      \/ Len(rest) = 0 /\ Len(own) = 1 /\ own[1] = "scsi"
  BY <1>3
<1> HIDE DEF generic, S
<1>9. /\ two \in Seq(S) /\ Len(two) = 2 + Len(own)
      /\ \A i \in 1..2 + Len(own) : two[i] = IF i <= 2 THEN generic[i] ELSE own[i - 2]
  <2>1. /\ two \in Seq(S) /\ Len(two) = Len(generic) + Len(own)
        /\ \A i \in 1..Len(generic) + Len(own) :
             two[i] = IF i <= Len(generic) THEN generic[i] ELSE own[i - Len(generic)]
    BY <1>4, <1>6, ConcatProperties
  <2> HIDE DEF two
  <2> QED BY <1>6, <2>1
<1>10. two[1] = "sat" /\ two[2] = "ata" /\ (Len(own) = 1 => two[3] = own[1])
  BY <1>6, <1>7, <1>9
<1> HIDE DEF two
<1>11. /\ all \in Seq(S) /\ Len(all) = Len(two) + Len(rest)
       /\ \A i \in 1..Len(two) + Len(rest) :
            all[i] = IF i <= Len(two) THEN two[i] ELSE rest[i - Len(two)]
  BY <1>5, <1>9, ConcatProperties
<1> HIDE DEF all
<1>12. all[1] = "sat" /\ all[2] = "ata"
  BY <1>7, <1>9, <1>10, <1>11
<1>13. Len(own) = 1 => all[3] = two[3]
  BY <1>7, <1>9, <1>11
<1>14. Len(rest) = 1 => all[Len(two) + 1] = rest[1]
  BY <1>7, <1>9, <1>11
<1>15. all = TransportCandidates(hint)
  BY <1>2 DEF two, all
<1>16. Len(all) \in {3, 4}
  <2>1. Len(own) = 1 \/ Len(rest) = 1
    BY <1>8
  <2> DEFINE a == Len(own)
             b == Len(rest)
  <2>2. a \in {0, 1} /\ b \in {0, 1} /\ (a = 1 \/ b = 1) /\ Len(all) = (2 + a) + b
    BY <1>7, <1>9, <1>11, <2>1
  <2> HIDE DEF a, b
  <2> QED BY <2>2
<1>17. DOMAIN all = 1..Len(all) /\ \A i \in DOMAIN all : all[i] \in S
  BY <1>11
<1>18. \E i \in DOMAIN all : all[i] = "scsi"
  <2>1. CASE Len(rest) = 1 /\ rest[1] = "scsi"
    <3>1. Len(two) + 1 \in DOMAIN all /\ all[Len(two) + 1] = "scsi"
      BY <1>7, <1>9, <1>11, <1>14, <1>17, <2>1
    <3> QED BY <3>1
  <2>2. CASE Len(rest) = 0 /\ Len(own) = 1 /\ own[1] = "scsi"
    <3>1. 3 \in DOMAIN all /\ all[3] = "scsi"
      BY <1>9, <1>10, <1>11, <1>13, <1>17, <2>2
    <3> QED BY <3>1
  <2> QED BY <1>8, <2>1, <2>2
<1> QED BY <1>12, <1>15, <1>16, <1>17, <1>18 DEF S

\* A few numbers have a least and a greatest.
LEMMA LeastAndGreatest ==
  ASSUME NEW S \in SUBSET (1..4), S # {}
  PROVE  /\ \E i \in S : \A j \in S : i <= j
         /\ \E i \in S : \A j \in S : j <= i
<1>1. \A i \in S : i = 1 \/ i = 2 \/ i = 3 \/ i = 4
  OBVIOUS
<1>2. 1 \in S \/ 2 \in S \/ 3 \in S \/ 4 \in S
  BY <1>1
<1>3. \E i \in S : \A j \in S : i <= j
  BY <1>1, <1>2
<1>4. \E i \in S : \A j \in S : j <= i
  <2>1. CASE 4 \in S
    BY <1>1, <2>1
  <2>2. CASE 4 \notin S /\ 3 \in S
    BY <1>1, <2>2
  <2>3. CASE 4 \notin S /\ 3 \notin S /\ 2 \in S
    BY <1>1, <2>3
  <2>4. CASE 4 \notin S /\ 3 \notin S /\ 2 \notin S
    BY <1>1, <1>2, <2>4
  <2> QED BY <2>1, <2>2, <2>3, <2>4
<1> QED BY <1>3, <1>4

\* Probing all yields the first that can be used, if any can.
LEMMA ProbeAllStep ==
  ASSUME NEW d, NEW hint \in Types, NEW awake
  PROVE  /\ \E type \in Types : \E as, how :
               ProbeAll(d, hint, awake).shown = Reported(Probe(d, type, awake), as, how)
         /\ ProbeAll(d, hint, awake).entry = NoEntry
            \/ \E type \in Types : ProbeAll(d, hint, awake).entry = CacheEntry(type, 0)
         /\ WouldAnswer(d, awake) => ~AvailabilityFailure(ProbeAll(d, hint, awake).shown)
<1> DEFINE types == TransportCandidates(hint)
           n == Len(types)
           probe(i) == Probe(d, types[i], awake)
           usable == {i \in DOMAIN types : ProbeIsUsable(probe(i))}
           answered == {i \in DOMAIN types :
                          probe(i).error \notin {Nothing, "smartctl_unavailable"}}
           first == CHOOSE i \in usable : \A j \in usable : i <= j
           last == IF answered = {} THEN n
                   ELSE CHOOSE i \in answered : \A j \in answered : j <= i
<1>1. /\ n \in {3, 4} /\ DOMAIN types = 1..n
      /\ \A i \in 1..n : types[i] \in Types
      /\ {"sat", "ata", "scsi"} \subseteq {types[i] : i \in 1..n}
  <2>1. {"sat", "ata", "scsi", hint} \subseteq Types
    BY DEF Types, Generic, Range
  <2>2. /\ n \in {3, 4} /\ DOMAIN types = 1..n
        /\ \A i \in DOMAIN types : types[i] \in {"sat", "ata", "scsi", hint}
        /\ types[1] = "sat" /\ types[2] = "ata"
        /\ \E i \in DOMAIN types : types[i] = "scsi"
    BY CandidateTypes
  <2> HIDE DEF types, n
  <2> QED BY <2>1, <2>2
<1>2. ProbeAll(d, hint, awake) =
        IF usable # {}
        THEN [shown |-> Reported(probe(first), types[first], "qualified_probe"),
              entry |-> CacheEntry(types[first], 0)]
        ELSE [shown |-> Reported(probe(last), Nothing, Nothing), entry |-> NoEntry]
  BY DEF ProbeAll
<1>3. usable \subseteq 1..4 /\ answered \subseteq 1..4 /\ usable \subseteq 1..n
      /\ answered \subseteq 1..n
  BY <1>1
<1>4. usable # {} => first \in usable
  <2> HIDE DEF usable
  <2> SUFFICES ASSUME usable # {} PROVE \E i \in usable : \A j \in usable : i <= j
    OBVIOUS
  <2> QED BY <1>3, LeastAndGreatest
<1>5. last \in 1..n
  <2> HIDE DEF answered
  <2>1. ASSUME answered # {} PROVE \E i \in answered : \A j \in answered : j <= i
    BY <1>3, <2>1, LeastAndGreatest
  <2>2. n \in 1..n
    BY <1>1
  <2> HIDE DEF n
  <2> QED BY <1>3, <2>1, <2>2
<1>6. \A i \in usable : ~AvailabilityFailure(probe(i))
  BY DEF ProbeIsUsable, AvailabilityFailure, Nothing
<1>7. WouldAnswer(d, awake) => usable # {}
  <2> SUFFICES ASSUME NEW type \in Range(Generic), ProbeIsUsable(Probe(d, type, awake))
               PROVE  usable # {}
    BY DEF WouldAnswer
  <2>1. type \in {"sat", "ata", "scsi"}
    BY DEF Range, Generic
  <2>2. PICK i \in 1..n : types[i] = type
    BY <1>1, <2>1
  <2> QED BY <1>1, <2>2
<1> HIDE DEF usable, answered, first, last, n, types
<1>8. CASE usable # {}
  <2>1. /\ ProbeAll(d, hint, awake).shown = Reported(probe(first), types[first], "qualified_probe")
        /\ ProbeAll(d, hint, awake).entry = CacheEntry(types[first], 0)
    BY <1>2, <1>8
  <2>2. types[first] \in Types /\ ~AvailabilityFailure(probe(first))
    BY <1>1, <1>3, <1>4, <1>6, <1>8
  <2>3. ~AvailabilityFailure(Reported(probe(first), types[first], "qualified_probe"))
    BY <2>2 DEF AvailabilityFailure, Reported
  <2> QED BY <2>1, <2>2, <2>3
<1>9. CASE usable = {}
  <2>1. /\ ProbeAll(d, hint, awake).shown = Reported(probe(last), Nothing, Nothing)
        /\ ProbeAll(d, hint, awake).entry = NoEntry
    BY <1>2, <1>9
  <2>2. types[last] \in Types
    BY <1>1, <1>5
  <2> QED BY <1>7, <1>9, <2>1, <2>2
<1> QED BY <1>8, <1>9

\* The transport of a disk is found by probing.
Probed(d) == setup.synology /\ (setup.explicit => setup.types[d] = AnyType)

\* A cached transport has been silent for as long as the disk has, and not for long.
SmartInv ==
    /\ bridge \in [Disks -> Bridges]
    /\ setup \in Setups
    /\ silent \in [Disks -> Nat]
    /\ \A d \in Disks :
          /\ transportCache[d] = NoEntry
             \/ \E type \in Types, streak \in 0..(Threshold - 1) :
                   transportCache[d] = CacheEntry(type, streak)
          /\ Probed(d) => silent[d] <= transportCache[d].streak
    /\ NoInventedVerdict

\* A streak stops short of the threshold.
LEMMA StreakType ==
  ASSUME NEW entry,
         entry = NoEntry \/ \E type \in Types, streak \in 0..(Threshold - 1) :
                              entry = CacheEntry(type, streak)
  PROVE  entry.streak \in Nat /\ entry.streak < Threshold
<1>1. CASE entry = NoEntry
  BY <1>1 DEF NoEntry, CacheEntry, Threshold
<1>2. ASSUME NEW type \in Types, NEW streak \in 0..(Threshold - 1), entry = CacheEntry(type, streak)
      PROVE  entry.streak \in Nat /\ entry.streak < Threshold
  <2>1. entry.streak = streak
    BY <1>2 DEF CacheEntry
  <2> QED BY <2>1 DEF Threshold
<1> QED BY <1>1, <1>2

\* One disk: what is shown of it was probed, and it counts as silent only while its
\* transport is given another chance.
LEMMA SmartDevice ==
  ASSUME SmartInv, NEW d \in Disks, NEW hint \in Types, NEW awake,
         setup.explicit => d \in DOMAIN setup.types /\ setup.types[d] \in Types
  PROVE  LET result == CollectSmartDevice(d, hint, awake) IN
         /\ \E type \in Types : \E as, how :
               result.shown = Reported(Probe(d, type, awake), as, how)
         /\ result.entry = NoEntry
            \/ \E type \in Types, streak \in 0..(Threshold - 1) :
                  result.entry = CacheEntry(type, streak)
         /\ Probed(d) /\ WouldAnswer(d, awake) /\ AvailabilityFailure(result.shown)
              => result.entry.streak = transportCache[d].streak + 1
<1> DEFINE result == CollectSmartDevice(d, hint, awake)
           entry == transportCache[d]
           cached == Probe(d, entry.type, awake)
<1>1. /\ entry = NoEntry \/ \E type \in Types, streak \in 0..(Threshold - 1) :
                               entry = CacheEntry(type, streak)
      /\ Threshold = 2
  BY DEF SmartInv, Threshold
<1>2. CASE ~Probed(d)
  <2>1. \E type \in Types : \E how : result = [shown |-> Reported(Probe(d, type, awake), type, how),
                                         entry |-> entry]
    BY <1>2 DEF Probed, CollectSmartDevice
  <2> QED BY <1>1, <1>2, <2>1
<1>3. CASE Probed(d)
  <2>1. result = QualifySmartTransport(d, hint, awake)
    BY <1>3 DEF Probed, CollectSmartDevice
  <2>2. CASE result = ProbeAll(d, hint, awake)
    BY <1>1, <2>2, ProbeAllStep
  <2>3. ASSUME result # ProbeAll(d, hint, awake) PROVE entry # NoEntry
    BY <2>1, <2>3 DEF QualifySmartTransport
  <2>4. ASSUME NEW type \in Types, NEW streak \in 0..(Threshold - 1), entry = CacheEntry(type, streak),
               result # ProbeAll(d, hint, awake)
        PROVE  \E s \in 0..(Threshold - 1) :
                 /\ result = [shown |-> Reported(cached, type, "cached_probe"),
                              entry |-> CacheEntry(type, s)]
                 /\ AvailabilityFailure(cached) => s = streak + 1
    <3>1. entry.type = type /\ entry.streak = streak
      BY <2>4 DEF CacheEntry
    <3>2. \/ /\ ~AvailabilityFailure(cached)
             /\ \E s \in {0, streak} : result = [shown |-> Reported(cached, type, "cached_probe"),
                                                entry |-> CacheEntry(type, s)]
          \/ /\ streak + 1 < Threshold
             /\ result = [shown |-> Reported(cached, type, "cached_probe"),
                          entry |-> CacheEntry(type, streak + 1)]
      BY <2>1, <2>3, <2>4, <3>1
      DEF QualifySmartTransport, ProbeIsUsable, AvailabilityFailure, Nothing
    <3> QED BY <1>1, <3>2
  <2>5. ASSUME result # ProbeAll(d, hint, awake)
        PROVE  \E type \in Types, s \in 0..(Threshold - 1) :
                 /\ result = [shown |-> Reported(Probe(d, type, awake), type, "cached_probe"),
                              entry |-> CacheEntry(type, s)]
                 /\ AvailabilityFailure(Probe(d, type, awake)) => s = entry.streak + 1
    <3>1. PICK type \in Types, streak \in 0..(Threshold - 1) : entry = CacheEntry(type, streak)
      BY <1>1, <2>3, <2>5
    <3>2. entry.type = type /\ entry.streak = streak
      BY <3>1 DEF CacheEntry
    <3>3. cached = Probe(d, type, awake)
      BY <3>2
    <3> QED BY <2>4, <2>5, <3>1, <3>2, <3>3
  <2>6. CASE result # ProbeAll(d, hint, awake)
    <3>1. PICK type \in Types, s \in 0..(Threshold - 1) :
                 /\ result = [shown |-> Reported(Probe(d, type, awake), type, "cached_probe"),
                              entry |-> CacheEntry(type, s)]
                 /\ AvailabilityFailure(Probe(d, type, awake)) => s = entry.streak + 1
      BY <2>5, <2>6
    <3>2. AvailabilityFailure(result.shown) => AvailabilityFailure(Probe(d, type, awake))
      BY <3>1 DEF AvailabilityFailure, Reported
    <3> QED BY <3>1, <3>2 DEF CacheEntry
  <2> QED BY <2>2, <2>6
<1> QED BY <1>2, <1>3

\* The targets are disks, each with a transport smartctl knows, and a configured path
\* has a configured transport, or none.
LEMMA TargetTypes ==
  ASSUME SmartInv, NEW scan \in Scans
  PROVE  /\ DOMAIN Candidates(scan) \subseteq Disks
         /\ \A d \in DOMAIN Candidates(scan) :
               /\ Candidates(scan)[d] \in Types
               /\ setup.explicit => d \in DOMAIN setup.types /\ setup.types[d] \in Types
<1>1. /\ scan \in [Disks -> Types]
      /\ {AnyType, "sat"} \subseteq Types
  BY DEF Scans, Types, Generic, Range
<1>2. setup.explicit => setup.types \in [Disks -> {AnyType, "sat"}]
  BY DEF SmartInv, Setups
<1> QED BY <1>1, <1>2 DEF Candidates, ExplicitSmartCandidates, SmartCandidates

\* A collection keeps all of it.
LEMMA CollectStep ==
  ASSUME SmartInv, NEW scan \in Scans, NEW awake, CollectSmartDevices(scan, awake)
  PROVE  SmartInv'
<1> DEFINE candidates == Candidates(scan)
           result(d) == CollectSmartDevice(d, candidates[d], awake)
<1>1. /\ transportCache' = [d \in Disks |-> IF d \in DOMAIN candidates
                                 THEN result(d).entry ELSE transportCache[d]]
      /\ smartShown' = [d \in Disks |-> IF d \in DOMAIN candidates
                             THEN result(d).shown ELSE NotCollected]
      /\ silent' = [d \in Disks |->
              IF /\ d \in DOMAIN candidates
                 /\ WouldAnswer(d, awake)
                 /\ AvailabilityFailure(result(d).shown)
              THEN silent[d] + (IF silent[d] < Threshold THEN 1 ELSE 0)
              ELSE 0]
      /\ UNCHANGED <<bridge, swaps, setup>>
  BY DEF CollectSmartDevices
<1>2. ASSUME NEW d \in Disks, d \in DOMAIN candidates
      PROVE  /\ \E type \in Types : \E as, how :
                   result(d).shown = Reported(Probe(d, type, awake), as, how)
             /\ result(d).entry = NoEntry
                \/ \E type \in Types, streak \in 0..(Threshold - 1) :
                      result(d).entry = CacheEntry(type, streak)
             /\ Probed(d) /\ WouldAnswer(d, awake) /\ AvailabilityFailure(result(d).shown)
                  => result(d).entry.streak = transportCache[d].streak + 1
  BY <1>2, SmartDevice, TargetTypes
<1> HIDE DEF candidates, result
<1>3. silent' \in [Disks -> Nat]
  BY <1>1 DEF SmartInv
<1>4. ASSUME NEW d \in Disks
      PROVE  transportCache'[d] = NoEntry
             \/ \E type \in Types, streak \in 0..(Threshold - 1) :
                   transportCache'[d] = CacheEntry(type, streak)
  BY <1>1, <1>2 DEF SmartInv
<1>5. ASSUME NEW d \in Disks, Probed(d) PROVE silent'[d] <= transportCache'[d].streak
  <2>1. silent[d] \in Nat /\ silent[d] <= transportCache[d].streak
    BY <1>5 DEF SmartInv
  <2>2. transportCache'[d].streak \in Nat /\ transportCache[d].streak \in Nat
    BY <1>4, StreakType DEF SmartInv
  <2>3. CASE d \in DOMAIN candidates /\ WouldAnswer(d, awake) /\ AvailabilityFailure(result(d).shown)
    <3>1. transportCache'[d].streak = transportCache[d].streak + 1
      BY <1>1, <1>2, <1>5, <2>3
    <3>2. silent'[d] \in {silent[d], silent[d] + 1}
      BY <1>1, <2>1, <2>3
    <3> QED BY <2>1, <2>2, <3>1, <3>2
  <2>4. CASE ~(d \in DOMAIN candidates /\ WouldAnswer(d, awake) /\ AvailabilityFailure(result(d).shown))
    <3>1. silent'[d] = 0
      BY <1>1, <2>4
    <3> QED BY <2>2, <3>1
  <2> QED BY <2>3, <2>4
<1>6. ASSUME NEW d \in Disks, smartShown'[d].health \in Verdicts
      PROVE  smartShown'[d].health = TrueHealth
  <2>1. CASE d \in DOMAIN candidates
    <3>1. PICK type \in Types :
                 \E as, how : smartShown'[d] = Reported(Probe(d, type, awake), as, how)
      BY <1>1, <1>2, <2>1
    <3>2. smartShown'[d].health = Probe(d, type, awake).health
      BY <3>1 DEF Reported
    <3> QED BY <1>6, <3>2, HonestProbe DEF SmartInv
  <2>2. CASE d \notin DOMAIN candidates
    <3>1. smartShown'[d].health = "unknown"
      BY <1>1, <2>2 DEF NotCollected, Reported, NotRead
    <3> QED BY <1>6, <3>1 DEF Verdicts
  <2> QED BY <2>1, <2>2
<1>7. \A d \in Disks : Probed(d)' <=> Probed(d)
  BY <1>1 DEF Probed
<1> QED BY <1>1, <1>3, <1>4, <1>5, <1>6, <1>7 DEF SmartInv, NoInventedVerdict

\* The inductive invariant of the SMART readings.
LEMMA SmartInvariant == SmartSpec => []SmartInv
<1>1. SmartInit => SmartInv
  <2> SUFFICES ASSUME SmartInit PROVE SmartInv
    OBVIOUS
  <2>1. NotCollected.health \notin Verdicts /\ NoEntry.streak = 0
    BY DEF NotCollected, Reported, NotRead, Verdicts, NoEntry, CacheEntry
  <2> QED BY <2>1 DEF SmartInit, SmartInv, NoInventedVerdict
<1>2. SmartInv /\ [SmartNext]_smartVars => SmartInv'
  <2> SUFFICES ASSUME SmartInv, [SmartNext]_smartVars PROVE SmartInv'
    OBVIOUS
  <2>1. ASSUME NEW scan \in Scans, NEW awake \in SUBSET Disks, CollectSmartDevices(scan, awake)
        PROVE  SmartInv'
    BY <2>1, CollectStep
  <2>2. ASSUME NEW disk \in Disks, SwapBridge(disk) PROVE SmartInv'
    <3>1. /\ bridge' \in [Disks -> Bridges] /\ silent' \in [Disks -> Nat]
          /\ \A d \in Disks : silent'[d] \in {0, silent[d]}
          /\ UNCHANGED <<setup, transportCache, smartShown>>
      BY <2>2 DEF SwapBridge, SmartInv
    <3>2. \A d \in Disks : transportCache[d].streak \in Nat
      BY StreakType DEF SmartInv
    <3>3. ASSUME NEW d \in Disks, Probed(d)' PROVE silent'[d] <= transportCache[d].streak
      <4>1. Probed(d)
        BY <3>1, <3>3 DEF Probed
      <4>2. silent[d] <= transportCache[d].streak /\ transportCache[d].streak \in Nat
        BY <3>2, <4>1 DEF SmartInv
      <4> QED BY <3>1, <4>2
    <3> QED BY <3>1, <3>3 DEF SmartInv, NoInventedVerdict
  <2>3. CASE UNCHANGED smartVars
    BY <2>3 DEF smartVars, SmartInv, NoInventedVerdict, Probed
  <2>4. [d \in Disks |-> AnyType] \in Scans
    BY DEF Scans, Types
  <2> QED BY <2>1, <2>2, <2>3, <2>4 DEF SmartNext
<1> QED BY <1>1, <1>2, PTL DEF SmartSpec

\* A verdict that is shown is the disk's own, whatever bridges come and go: a made-up
\* one stands without a table (_collect_smart_candidate, src/clients/host_collector.py).
THEOREM SmartNoInventedVerdict == SmartSpec => []NoInventedVerdict
<1>1. SmartInv => NoInventedVerdict
  BY DEF SmartInv
<1> QED BY <1>1, SmartInvariant, PTL

\* A transport that has gone silent is replaced before its second silence is shown
\* (_qualify_smart_transport, src/clients/host_collector.py).
THEOREM SmartSilentReplaced == SmartSpec => []SilentTransportReplaced
<1>1. SmartInv => SilentTransportReplaced
  <2> SUFFICES ASSUME SmartInv, NEW d \in Disks, Probed(d) PROVE silent[d] < Threshold
    BY DEF SilentTransportReplaced, Probed
  <2>1. /\ silent[d] \in Nat /\ silent[d] <= transportCache[d].streak
        /\ transportCache[d].streak \in Nat /\ transportCache[d].streak < Threshold
    BY StreakType DEF SmartInv
  <2> QED BY <2>1 DEF Threshold
<1> QED BY <1>1, SmartInvariant, PTL

-----------------------------------------------------------------------------
(* Lucky: each module's endpoint fails by itself. *)

LuckyRow == [enabled : BOOLEAN, state : STRING, listed : BOOLEAN, records : Seq(DdnsStates),
             claimed : Nat \cup {-1}, claimedUpdated : Nat \cup {-1}]
LuckyRules == {"200", "empty", "unreadable", "spoiled"} \cup HttpFailures
LuckyAnswers == {"200", "unreadable"} \cup HttpFailures

\* What is collected, for modules that are asked.
LuckyInputs ==
    /\ lucky.setup \in {"disabled", "invalid", "ready"}
    /\ lucky.rows \in Seq(LuckyRow)
    /\ lucky.rules \in Seq(LuckyRules)
    /\ lucky.answer \in [{"version", "info", "status", "ddns", "web", "web_lite", "forward", "ssl"}
                           -> LuckyAnswers \cup {"302"}]
    /\ lucky.setup = "ready" /\ lucky.answer["version"] = "200" =>
          \A e \in {"status", "ddns", "web", "web_lite", "forward", "ssl"} :
              lucky.answer[e] \in LuckyAnswers

\* Every failure has a code.
LEMMA FailureHasCode ==
  ASSUME NEW answer \in LuckyAnswers, Failed(answer)
  PROVE  ErrorOf(answer) # "none"
<1>1. answer \in {"401", "403", "404", "timeout", "refused", "large", "no_object", "500",
                 "no_json", "ret", "unreadable"}
  BY LuckyAssumption DEF LuckyAnswers, Failed
<1> QED BY <1>1 DEF ErrorOf

\* A list has finitely many places.
LEMMA FiniteDomain == ASSUME NEW S, NEW s \in Seq(S) PROVE IsFiniteSet(DOMAIN s)
<1>1. Len(s) \in Nat /\ DOMAIN s = 1..Len(s)
  OBVIOUS
<1>2. IsFiniteSet(1..Len(s))
  BY <1>1, FS_Interval
<1> QED BY <1>1, <1>2

\* Parts of a finite set that have nothing in common.
LEMMA DisjointParts ==
  ASSUME NEW S, IsFiniteSet(S), NEW A, NEW B, A \cap B = {}, A \cup B \subseteq S
  PROVE  Cardinality(A) + Cardinality(B) <= Cardinality(S)
<1> DEFINE a == Cardinality(A)
           b == Cardinality(B)
           both == Cardinality(A \cup B)
           size == Cardinality(S)
<1>1. A \subseteq S /\ B \subseteq S
  OBVIOUS
<1>2. IsFiniteSet(A) /\ IsFiniteSet(B)
  BY <1>1, FS_Subset
<1>3. both = a + b - Cardinality(A \cap B)
  BY <1>2, FS_Union
<1>4. Cardinality(A \cap B) = 0
  <2>1. Cardinality({}) = 0
    BY FS_EmptySet
  <2> QED BY <2>1
<1>5. both <= size
  BY FS_Subset
<1>6. a \in Nat /\ b \in Nat /\ size \in Nat
  BY <1>2, FS_CardinalityType
<1> HIDE DEF a, b, both, size
<1>7. a + b <= size
  BY <1>3, <1>4, <1>5, <1>6
<1> QED BY <1>7 DEF a, b, size

\* The rows that are objects, and those that run.
Objects(rows) == {i \in DOMAIN rows : rows[i].state # "no_object"}
Running(rows) == {i \in DOMAIN rows : rows[i].state = "running"}

\* A list that was answered is fresh and without an error, and its counts are within
\* its total (_normalize_collection).
LEMMA CollectionCounts ==
  ASSUME NEW rows, IsFiniteSet(DOMAIN rows), NEW m, m = NormalizeCollection(rows)
  PROVE  /\ m.error = "none" /\ m.stale = FALSE
         /\ m.enabled + m.disabled = m.total
         /\ m.healthy + m.errors <= m.total
         /\ m.total = Cardinality(Objects(rows)) /\ m.healthy = Cardinality(Running(rows))
         /\ m.items = [i \in Objects(rows) |-> rows[i]]
         /\ DOMAIN m = {"status", "stale", "error", "total", "enabled", "disabled", "healthy",
                        "errors", "items"}
<1> DEFINE objects == {i \in DOMAIN rows : rows[i].state # "no_object"}
           enabled == {i \in objects : rows[i].enabled}
           errors == {i \in objects : rows[i].state = "error"}
           running == {i \in objects : rows[i].state = "running"}
<1> DEFINE total == Cardinality(objects)
           on == Cardinality(enabled)
           bad == Cardinality(errors)
           good == Cardinality(running)
           status == IF errors = {} THEN Ok ELSE "degraded"
           items == [i \in objects |-> rows[i]]
<1>0. m = [status |-> status, stale |-> FALSE, error |-> "none", total |-> total,
           enabled |-> on, disabled |-> total - on, healthy |-> good, errors |-> bad,
           items |-> items]
  BY Zenon DEF NormalizeCollection
<1>1. /\ m.error = "none" /\ m.stale = FALSE /\ m.enabled = on
      /\ m.disabled = total - on /\ m.total = total /\ m.healthy = good
      /\ m.errors = bad /\ m.items = items
      /\ DOMAIN m = {"status", "stale", "error", "total", "enabled", "disabled", "healthy",
                     "errors", "items"}
  <2> HIDE DEF total, on, bad, good, status, items
  <2> QED BY <1>0
<1>2. IsFiniteSet(objects)
  BY FS_Subset
<1>3. IsFiniteSet(enabled) /\ IsFiniteSet(errors) /\ IsFiniteSet(running)
  BY <1>2, FS_Subset
<1>4. errors \cap running = {} /\ errors \cup running \subseteq objects
  OBVIOUS
<1>5. bad + good <= total
  BY <1>2, <1>4, DisjointParts
<1>6. total \in Nat /\ on \in Nat /\ bad \in Nat /\ good \in Nat
  BY <1>2, <1>3, FS_CardinalityType
<1>7. objects = Objects(rows) /\ running = Running(rows)
  BY DEF Objects, Running
<1>8. m.enabled + m.disabled = m.total /\ m.healthy + m.errors <= m.total
  <2> HIDE DEF total, on, bad, good
  <2> QED BY <1>1, <1>5, <1>6
<1> QED BY <1>1, <1>7, <1>8, Zenon

\* What is said of a module, by itself.
ModuleHolds(m, fresh) ==
    /\ m.stale = ~fresh
    /\ m.error = "none" <=> fresh
    /\ m.enabled + m.disabled = m.total
    /\ m.healthy + m.errors <= m.total

\* An endpoint that failed has an empty module, with its error.
LEMMA EmptyHolds ==
  ASSUME NEW answer \in LuckyAnswers, Failed(answer)
  PROVE  ModuleHolds(EmptyModule(answer), FALSE) /\ EmptyModule(answer).items = <<>>
<1>1. ErrorOf(answer) # "none"
  BY FailureHasCode
<1> DEFINE m == EmptyModule(answer)
<1>2. /\ m.stale = TRUE /\ m.error # "none" /\ m.enabled + m.disabled = m.total
      /\ m.healthy + m.errors <= m.total /\ m.items = <<>>
  BY <1>1 DEF EmptyModule
<1> QED BY <1>2, Zenon DEF ModuleHolds

\* No count of records is above the total it is of (_record).
LEMMA RecordCounts ==
  ASSUME NEW row \in LuckyRow
  PROVE  DdnsRecord(row).total # Unsaid => DdnsRecord(row).updated <= DdnsRecord(row).total
<1> DEFINE total == DdnsRecord(row).total
           summary == DdnsSummary(row.records)
           updated == IF row.claimedUpdated # Unsaid THEN row.claimedUpdated ELSE summary.updated
<1>1. DdnsRecord(row).updated = IF total # Unsaid /\ updated > total THEN Unsaid ELSE updated
  BY DEF DdnsRecord
<1>2. total \in Nat \cup {-1}
  BY DEF DdnsRecord, LuckyRow, Unsaid
<1>3. updated \in Nat \cup {-1}
  <2> DEFINE changed == {i \in DOMAIN row.records : row.records[i] = "changed"}
  <2>1. row.claimedUpdated \in Nat \cup {-1} /\ row.records \in Seq(DdnsStates)
    BY DEF LuckyRow
  <2>2. IsFiniteSet(changed)
    <3>1. IsFiniteSet(DOMAIN row.records)
      BY <2>1, FiniteDomain
    <3> QED BY <3>1, FS_Subset
  <2>3. Cardinality(changed) \in Nat
    BY <2>2, FS_CardinalityType
  <2>4. summary.updated \in {Unsaid, Cardinality(changed)}
    BY DEF DdnsSummary
  <2> HIDE DEF changed, summary
  <2> QED BY <2>1, <2>3, <2>4 DEF Unsaid
<1> HIDE DEF total, updated
<1>4. total # Unsaid =>
        (IF total # Unsaid /\ updated > total THEN Unsaid ELSE updated) <= total
  BY <1>2, <1>3 DEF Unsaid
<1> QED BY <1>1, <1>4 DEF total

\* A record's counts.
CountsWithin(record) == record.total # Unsaid => record.updated <= record.total

\* Dynamic DNS and port forwarding (_collect_module).
LEMMA ModuleCollected ==
  ASSUME LuckyInputs, NEW e \in {"ddns", "forward"}, lucky.answer[e] \in LuckyAnswers
  PROVE  /\ ModuleHolds(CollectModule(e), ~Failed(lucky.answer[e]))
         /\ e = "ddns" => \A i \in DOMAIN CollectModule(e).items :
                CountsWithin(CollectModule(e).items[i])
<1>1. CASE Failed(lucky.answer[e])
  <2>1. CollectModule(e) = EmptyModule(lucky.answer[e])
    BY <1>1, Zenon DEF CollectModule
  <2>2. DOMAIN <<>> = {}
    OBVIOUS
  <2> QED BY <1>1, <2>1, <2>2, EmptyHolds, Zenon
<1>2. CASE ~Failed(lucky.answer[e])
  <2> DEFINE module == NormalizeCollection(lucky.rows)
             records == [i \in DOMAIN module.items |-> DdnsRecord(module.items[i])]
  <2>1. IsFiniteSet(DOMAIN lucky.rows)
    <3>1. lucky.rows \in Seq(LuckyRow)
      BY DEF LuckyInputs
    <3> QED BY <3>1, FiniteDomain
  <2>2. ModuleHolds(module, TRUE)
        /\ module.items = [i \in Objects(lucky.rows) |-> lucky.rows[i]]
        /\ DOMAIN module = {"status", "stale", "error", "total", "enabled", "disabled",
                            "healthy", "errors", "items"}
    BY <2>1, CollectionCounts DEF ModuleHolds
  <2>3. CollectModule(e) = IF e = "ddns" THEN [module EXCEPT !.items = records] ELSE module
    BY <1>2, Zenon DEF CollectModule
  <2>4. \A i \in DOMAIN records : CountsWithin(records[i])
    <3> SUFFICES ASSUME NEW i \in DOMAIN records PROVE CountsWithin(records[i])
      OBVIOUS
    <3>1. i \in DOMAIN lucky.rows /\ records[i] = DdnsRecord(lucky.rows[i])
      <4>1. records[i] = DdnsRecord(module.items[i]) /\ i \in DOMAIN module.items
        OBVIOUS
      <4>2. module.items = [j \in Objects(lucky.rows) |-> lucky.rows[j]]
        BY <2>2
      <4> HIDE DEF module, records
      <4> QED BY <4>1, <4>2 DEF Objects
    <3>2. lucky.rows[i] \in LuckyRow
      BY <3>1 DEF LuckyInputs
    <3> HIDE DEF records
    <3> QED BY <3>1, <3>2, RecordCounts DEF CountsWithin
  <2> HIDE DEF module, records
  <2>5. CASE e = "ddns"
    <3>1. /\ CollectModule(e).items = records
          /\ CollectModule(e).stale = module.stale /\ CollectModule(e).error = module.error
          /\ CollectModule(e).total = module.total
          /\ CollectModule(e).enabled = module.enabled
          /\ CollectModule(e).disabled = module.disabled
          /\ CollectModule(e).healthy = module.healthy
          /\ CollectModule(e).errors = module.errors
      BY <2>2, <2>3, <2>5
    <3> QED BY <1>2, <2>2, <2>4, <3>1 DEF ModuleHolds
  <2> QED BY <1>2, <2>2, <2>3, <2>5
<1> QED BY <1>1, <1>2

\* The list of web services, or the rules one by one (_collect_web_services).
LEMMA WebCollected ==
  ASSUME LuckyInputs, lucky.answer["web"] \in LuckyAnswers, lucky.answer["web_lite"] \in LuckyAnswers,
         Failed(lucky.answer["web"]) /\ ~Failed(lucky.answer["web_lite"])
           => "spoiled" \notin Range(lucky.rules)
  PROVE  LET m == CollectWebServices
             own == ~Failed(lucky.answer["web"])
             lite == ~Failed(lucky.answer["web_lite"])
         IN  /\ m.stale = ~(own \/ lite)
             /\ m.error = "none"
                  <=> own \/ (lite /\ Range(lucky.rules) \subseteq {"200", "empty"})
             /\ m.enabled + m.disabled = m.total
             /\ m.healthy + m.errors <= m.total
<1> DEFINE m == CollectWebServices
           primary == lucky.answer["web"]
           lite == lucky.answer["web_lite"]
           prepared == [i \in DOMAIN lucky.rules |-> PrepareWebService(i)]
           rules == NormalizeCollection(prepared)
           failures == {i \in DOMAIN lucky.rules : lucky.rules[i] \notin {"200", "empty"}}
           first == CHOOSE i \in failures : \A j \in failures : i <= j
<1>1. CASE ~Failed(primary)
  <2>1. m = NormalizeCollection(lucky.rows)
    BY <1>1, Zenon DEF CollectWebServices
  <2>2. IsFiniteSet(DOMAIN lucky.rows)
    <3>1. lucky.rows \in Seq(LuckyRow)
      BY DEF LuckyInputs
    <3> QED BY <3>1, FiniteDomain
  <2>3. /\ m.stale = FALSE /\ m.error = "none" /\ m.enabled + m.disabled = m.total
        /\ m.healthy + m.errors <= m.total
    BY <2>1, <2>2, CollectionCounts, Zenon
  <2> QED BY <1>1, <2>3, Zenon
<1>2. CASE Failed(primary) /\ Failed(lite)
  <2> DEFINE answer == IF primary = "unreadable" THEN lite ELSE primary
  <2>1. m = EmptyModule(answer)
    BY <1>2, Zenon DEF CollectWebServices
  <2>2. answer \in LuckyAnswers /\ Failed(answer)
    BY <1>2
  <2>3. ModuleHolds(m, FALSE)
    BY <2>1, <2>2, EmptyHolds, Zenon
  <2> QED BY <1>2, <2>3, Zenon DEF ModuleHolds
<1>3. CASE Failed(primary) /\ ~Failed(lite)
  <2>1. m = IF failures = {} THEN rules
            ELSE [rules EXCEPT !.status = "degraded", !.errors = Cardinality(failures),
                               !.error = ErrorOf(lucky.rules[first])]
    BY <1>3, Zenon DEF CollectWebServices
  <2>2. IsFiniteSet(DOMAIN lucky.rules)
    <3>1. lucky.rules \in Seq(LuckyRules)
      BY DEF LuckyInputs
    <3> QED BY <3>1, FiniteDomain
  <2>3. DOMAIN prepared = DOMAIN lucky.rules
    OBVIOUS
  <2>4. /\ rules.error = "none" /\ rules.stale = FALSE
        /\ rules.enabled + rules.disabled = rules.total
        /\ rules.healthy + rules.errors <= rules.total
        /\ rules.total = Cardinality(Objects(prepared))
        /\ rules.healthy = Cardinality(Running(prepared))
        /\ DOMAIN rules = {"status", "stale", "error", "total", "enabled", "disabled",
                           "healthy", "errors", "items"}
    <3>1. IsFiniteSet(DOMAIN prepared)
      BY <2>2, <2>3
    <3>2. rules = NormalizeCollection(prepared)
      OBVIOUS
    <3> HIDE DEF prepared, rules
    <3> QED BY <3>1, <3>2, CollectionCounts, Zenon
  <2>5. failures = {} <=> Range(lucky.rules) \subseteq {"200", "empty"}
    BY DEF Range
  <2>6. CASE failures = {}
    <3>1. m = rules
      BY <2>1, <2>6
    <3> HIDE DEF m, rules, failures
    <3>2. /\ m.stale = FALSE /\ m.error = "none" /\ m.enabled + m.disabled = m.total
          /\ m.healthy + m.errors <= m.total
      BY <2>4, <3>1
    <3>3. Range(lucky.rules) \subseteq {"200", "empty"}
      BY <2>5, <2>6
    <3> QED BY <1>3, <3>2, <3>3, Zenon DEF m
  <2>7. CASE failures # {}
    <3> DEFINE running == Running(prepared)
               listed == Objects(prepared)
    <3>1. first \in failures
      <4>1. DOMAIN lucky.rules \subseteq Nat
        BY DEF LuckyInputs
      <4>2. failures \subseteq Nat
        BY <4>1
      <4> HIDE DEF failures
      <4>3. \E i \in failures : \A j \in failures : i <= j
        BY <2>7, <4>2, Least
      <4> QED BY <4>3
    <3>2. ErrorOf(lucky.rules[first]) # "none"
      <4> HIDE DEF first
      <4>1. lucky.rules[first] \in LuckyRules /\ lucky.rules[first] # "spoiled"
        BY <1>3, <3>1 DEF LuckyInputs, Range
      <4>2. lucky.rules[first] \in LuckyAnswers /\ Failed(lucky.rules[first])
        BY <3>1, <4>1 DEF LuckyRules, LuckyAnswers, Failed
      <4> QED BY <4>2, FailureHasCode
    <3>3. running \cap failures = {} /\ running \cup failures \subseteq listed
      BY DEF PrepareWebService, Failed, Objects, Running
    <3>4. IsFiniteSet(listed) /\ IsFiniteSet(running) /\ IsFiniteSet(failures)
      BY <2>2, <2>3, FS_Subset DEF Objects, Running
    <3>5. Cardinality(running) + Cardinality(failures) <= Cardinality(listed)
      BY <3>3, <3>4, DisjointParts
    <3> DEFINE bad == Cardinality(failures)
               code == ErrorOf(lucky.rules[first])
    <3>6. m = [rules EXCEPT !.status = "degraded", !.errors = bad, !.error = code]
      BY <2>1, <2>7
    <3>7. code # "none" /\ rules.healthy + bad <= rules.total
      BY <2>4, <3>2, <3>5
    <3> HIDE DEF m, rules, failures, bad, code
    <3>8. /\ m.stale = rules.stale /\ m.enabled = rules.enabled /\ m.disabled = rules.disabled
          /\ m.total = rules.total /\ m.healthy = rules.healthy /\ m.errors = bad
          /\ m.error = code
      BY <2>4, <3>6
    <3>9. /\ m.stale = FALSE /\ m.error # "none" /\ m.enabled + m.disabled = m.total
          /\ m.healthy + m.errors <= m.total
      BY <2>4, <3>7, <3>8
    <3> QED BY <1>3, <2>5, <2>7, <3>9, Zenon DEF m
  <2> QED BY <2>6, <2>7
<1> QED BY <1>1, <1>2, <1>3

\* The certificates (_collect_module).
LEMMA CertificatesCollected ==
  ASSUME lucky.answer["ssl"] \in LuckyAnswers
  PROVE  /\ CollectCertificates.stale = Failed(lucky.answer["ssl"])
         /\ CollectCertificates.error = "none" <=> ~Failed(lucky.answer["ssl"])
<1> DEFINE m == CollectCertificates
<1>1. CASE Failed(lucky.answer["ssl"])
  <2>1. m = EmptyModule(lucky.answer["ssl"])
    BY <1>1, Zenon DEF CollectCertificates
  <2>2. m.stale = TRUE /\ m.error # "none"
    BY <1>1, <2>1, FailureHasCode DEF EmptyModule
  <2> QED BY <1>1, <2>2 DEF Failed
<1>2. CASE ~Failed(lucky.answer["ssl"])
  <2>1. m.stale = FALSE /\ m.error = "none"
    BY <1>2 DEF CollectCertificates
  <2> QED BY <1>2, <2>1 DEF Failed
<1> QED BY <1>1, <1>2

\* Once the version is known and nothing raised, all modules are collected, each by
\* itself.
LEMMA LuckyCollected ==
  ASSUME LuckyInputs, lucky.setup = "ready", lucky.answer["version"] = "200",
         ~Raises, luckyShown' = LuckyPayload, UNCHANGED lucky
  PROVE  FailuresStayInModules'
<1> DEFINE modules == [ddns |-> CollectModule("ddns"), web |-> CollectWebServices,
                       forward |-> CollectModule("forward"), ssl |-> CollectCertificates]
           healthy == (\A m \in LuckyModules : modules[m].error = "none")
                      /\ ~Failed(lucky.answer["status"])
           own(e) == ~Failed(lucky.answer[e])
           answered == Range(lucky.rules) \subseteq {"200", "empty"}
           ddns == CollectModule("ddns")
           forward == CollectModule("forward")
           web == CollectWebServices
           ssl == CollectCertificates
           ip == IpResolution
<1>1. \A e \in {"status", "ddns", "web", "web_lite", "forward", "ssl"} :
          lucky.answer[e] \in LuckyAnswers
  BY DEF LuckyInputs
<1>2. ModuleHolds(ddns, own("ddns")) /\ ModuleHolds(forward, own("forward"))
      /\ \A i \in DOMAIN ddns.items : CountsWithin(ddns.items[i])
  BY <1>1, ModuleCollected, Zenon
<1>3. /\ web.stale = ~(own("web") \/ own("web_lite"))
      /\ web.error = "none" <=> own("web") \/ (own("web_lite") /\ answered)
      /\ web.enabled + web.disabled = web.total /\ web.healthy + web.errors <= web.total
  <2>1. Failed(lucky.answer["web"]) /\ ~Failed(lucky.answer["web_lite"])
          => "spoiled" \notin Range(lucky.rules)
    BY DEF Raises, Failed
  <2> QED BY <1>1, <2>1, WebCollected, Zenon
<1>4. ssl.stale = ~own("ssl") /\ (ssl.error = "none" <=> own("ssl"))
  <2> HIDE DEF ssl
  <2>1. (ssl.stale = Failed(lucky.answer["ssl"])) /\ (ssl.error = "none" <=> own("ssl"))
    BY <1>1, CertificatesCollected DEF ssl
  <2> QED BY <2>1 DEF Failed
<1>5. ip.stale = ~own("ddns")
  BY Zenon DEF IpResolution, Failed
<1>6. /\ luckyShown'.status = IF healthy THEN Ok ELSE "degraded"
      /\ luckyShown'.modules = modules /\ luckyShown'.ip = ip
      /\ "modules" \in DOMAIN luckyShown'
  BY Zenon DEF LuckyPayload
<1>7. /\ modules.ddns = ddns /\ modules.web = web /\ modules.forward = forward
      /\ modules.ssl = ssl
  OBVIOUS
<1> HIDE DEF modules, ddns, forward, web, ssl, ip
<1>8. healthy <=> /\ own("ddns") /\ own("forward") /\ own("ssl")
                  /\ own("web") \/ (own("web_lite") /\ answered)
                  /\ own("status")
  <2>1. (\A m \in LuckyModules : modules[m].error = "none")
          <=> /\ modules.ddns.error = "none" /\ modules.web.error = "none"
              /\ modules.forward.error = "none" /\ modules.ssl.error = "none"
    BY DEF LuckyModules
  <2> QED BY <1>2, <1>3, <1>4, <1>7, <2>1, Zenon DEF ModuleHolds
<1>9. luckyShown'.status = Ok <=> healthy
  BY <1>6 DEF Ok
<1>10. /\ \A e \in {"ddns", "forward", "ssl"} : modules[e].stale = ~own(e)
       /\ modules.web.stale = ~(own("web") \/ own("web_lite"))
       /\ ip.stale = modules.ddns.stale
  BY <1>2, <1>3, <1>4, <1>5, <1>7, Zenon DEF ModuleHolds
<1>11. \A e \in LuckyModules \ {"ssl"} :
          /\ modules[e].enabled + modules[e].disabled = modules[e].total
          /\ modules[e].healthy + modules[e].errors <= modules[e].total
  BY <1>2, <1>3, <1>7 DEF ModuleHolds, LuckyModules
<1>12. healthy <=> /\ \A e \in LuckyModules : ~modules[e].stale
                   /\ own("status")
                   /\ ~own("web") => answered
  BY <1>2, <1>3, <1>4, <1>7, <1>8 DEF ModuleHolds, LuckyModules
<1> HIDE DEF healthy, answered
<1>13. /\ own("version") /\ lucky.answer["status"] # "unreadable"
       /\ ~(~own("web") /\ own("web_lite") /\ "spoiled" \in Range(lucky.rules))
  BY DEF Raises, Failed
<1>14. \A i \in DOMAIN modules.ddns.items :
          LET d == modules.ddns.items[i] IN d.total # Unsaid => d.updated <= d.total
  BY <1>2, <1>7 DEF CountsWithin
<1> QED BY <1>6, <1>9, <1>10, <1>11, <1>12, <1>13, <1>14 DEF FailuresStayInModules, answered

\* Whichever requests fail, and however many rows, rules and certificates there are:
\* unless the version request failed or something unreadable came from a place not
\* guarded, a module shows data exactly when its own endpoint, or the list of rules,
\* answered, and "ok" means that no request failed, except that of the web services
\* when all rules of the fallback were answered; else no module is shown, and the
\* status is "unavailable" (collect, src/clients/lucky_collector.py;
\* collect_lucky_once, src/clients/host_collector.py).
THEOREM LuckyFailuresStay == LuckySpec => []FailuresStayInModules
<1> DEFINE Inv == LuckyInputs /\ FailuresStayInModules
<1>1. LuckyInit => Inv
  <2> SUFFICES ASSUME LuckyInit PROVE Inv
    OBVIOUS
  <2>1. FailuresStayInModules
    BY DEF LuckyInit, FailuresStayInModules, NoLucky
  <2> DEFINE Asked(given, process, version, info, status, ddns, web, forward, ssl, lite) ==
                 /\ lucky \in [setup : {given}, process : {process}, rows : RowLists,
                              certs : CertLists,
                              rules : IF Failed(web) THEN RuleLists ELSE {<<>>},
                              answer : {[version |-> version, info |-> info, status |-> status,
                                         ddns |-> ddns, web |-> web, web_lite |-> lite,
                                         forward |-> forward, ssl |-> ssl]}]
                 /\ luckyShown = NoLucky
             Failing == {"unreadable"} \cup HttpFailures
             Versions(given) == IF given = "ready" THEN {"200", "302"} \cup Failing ELSE {"200"}
             Infos(version) == IF version = "302" THEN {"200"} \cup Failing ELSE {"200"}
             Answers(given, version) == IF given = "ready" /\ version = "200"
                                        THEN {"200"} \cup Failing ELSE {"200"}
  <2>2. \E given \in {"disabled", "invalid", "ready"}, process \in {"found", "absent", "unreadable"} :
        \E version \in Versions(given) : \E info \in Infos(version) :
        \E status, ddns, web, forward, ssl \in Answers(given, version) :
        \E lite \in IF Failed(web) THEN Answers(given, version) ELSE {"200"} :
            Asked(given, process, version, info, status, ddns, web, forward, ssl, lite)
    BY Zenon DEF LuckyInit
  <2>9. /\ \A given, version : Answers(given, version) \subseteq LuckyAnswers
        /\ \A given : Versions(given) \subseteq LuckyAnswers \cup {"302"}
        /\ \A version : Infos(version) \subseteq LuckyAnswers
        /\ "200" \in LuckyAnswers
    <3>1. "200" \in LuckyAnswers /\ Failing \subseteq LuckyAnswers
      BY DEF LuckyAnswers
    <3> HIDE DEF Failing
    <3> QED BY <3>1
  <2> HIDE DEF Asked, Versions, Infos, Answers, Failing
  <2>3. PICK given \in {"disabled", "invalid", "ready"}, process \in {"found", "absent", "unreadable"},
             version \in LuckyAnswers \cup {"302"}, info \in LuckyAnswers,
             status \in LuckyAnswers, ddns \in LuckyAnswers, web \in LuckyAnswers,
             forward \in LuckyAnswers, ssl \in LuckyAnswers, lite \in LuckyAnswers :
           Asked(given, process, version, info, status, ddns, web, forward, ssl, lite)
    <3>1. PICK given \in {"disabled", "invalid", "ready"}, process \in {"found", "absent", "unreadable"} :
        \E version \in Versions(given) : \E info \in Infos(version) :
        \E status, ddns, web, forward, ssl \in Answers(given, version) :
        \E lite \in IF Failed(web) THEN Answers(given, version) ELSE {"200"} :
            Asked(given, process, version, info, status, ddns, web, forward, ssl, lite)
      BY <2>2, Zenon
    <3>2. PICK version \in Versions(given) : \E info \in Infos(version) :
        \E status, ddns, web, forward, ssl \in Answers(given, version) :
        \E lite \in IF Failed(web) THEN Answers(given, version) ELSE {"200"} :
            Asked(given, process, version, info, status, ddns, web, forward, ssl, lite)
      BY <3>1, Zenon
    <3>3. PICK info \in Infos(version) :
        \E status, ddns, web, forward, ssl \in Answers(given, version) :
        \E lite \in IF Failed(web) THEN Answers(given, version) ELSE {"200"} :
            Asked(given, process, version, info, status, ddns, web, forward, ssl, lite)
      BY <3>2, Zenon
    <3>4. PICK status \in Answers(given, version), ddns \in Answers(given, version), web \in Answers(given, version),
               forward \in Answers(given, version), ssl \in Answers(given, version) :
        \E lite \in IF Failed(web) THEN Answers(given, version) ELSE {"200"} :
            Asked(given, process, version, info, status, ddns, web, forward, ssl, lite)
      BY <3>3, Zenon
    <3>5. PICK lite \in LuckyAnswers :
            Asked(given, process, version, info, status, ddns, web, forward, ssl, lite)
      BY <3>4, <2>9
    <3>6. /\ {status, ddns, web, forward, ssl} \subseteq LuckyAnswers
          /\ version \in LuckyAnswers \cup {"302"} /\ info \in LuckyAnswers
      BY <2>9
    <3> QED BY <3>5, <3>6, Zenon
  <2>4. /\ lucky.rows \in RowLists /\ lucky.rules \in RuleLists \cup {<<>>}
        /\ lucky.answer = [version |-> version, info |-> info, status |-> status,
                           ddns |-> ddns, web |-> web, web_lite |-> lite,
                           forward |-> forward, ssl |-> ssl]
        /\ lucky.setup \in {"disabled", "invalid", "ready"}
    BY <2>3 DEF Asked
  <2>5. lucky.answer \in [{"version", "info", "status", "ddns", "web", "web_lite", "forward", "ssl"}
                            -> LuckyAnswers \cup {"302"}]
    BY <2>4 DEF LuckyAnswers
  <2>6. \A e \in {"status", "ddns", "web", "web_lite", "forward", "ssl"} :
            lucky.answer[e] \in LuckyAnswers
    BY <2>4
  <2>7. lucky.rows \in Seq(LuckyRow)
    BY <2>4, LuckyAssumption DEF LuckyRow
  <2>8. lucky.rules \in Seq(LuckyRules)
    <3>1. <<>> \in Seq(LuckyRules)
      BY EmptySeq
    <3> QED BY <3>1, <2>4, LuckyAssumption DEF LuckyRules
  <2> QED BY <2>1, <2>4, <2>5, <2>6, <2>7, <2>8 DEF LuckyInputs
<1>2. Inv /\ [CollectLucky]_luckyVars => Inv'
  <2> SUFFICES ASSUME Inv, [CollectLucky]_luckyVars PROVE Inv'
    OBVIOUS
  <2>1. CASE UNCHANGED luckyVars
    BY <2>1 DEF luckyVars, LuckyInputs, FailuresStayInModules
  <2>2. CASE CollectLucky
    <3>1. UNCHANGED lucky /\ LuckyInputs'
      BY <2>2 DEF CollectLucky, LuckyInputs
    <3>2. CASE lucky.setup = "ready" /\ ~Raises /\ ~Failed(lucky.answer["version"])
      <4>1. luckyShown' = LuckyPayload
        BY <2>2, <3>2 DEF CollectLucky, CollectedLucky
      <4> QED BY <3>1, <3>2, <4>1, LuckyCollected DEF Failed
    <3>3. CASE lucky.setup = "ready" /\ (Raises \/ Failed(lucky.answer["version"]))
      <4>1. luckyShown' \in {InternalError, UnavailableLucky(ErrorOf(VersionFailure))}
        BY <2>2, <3>3 DEF CollectLucky, CollectedLucky
      <4>2. luckyShown'.status = "unavailable" /\ "modules" \notin DOMAIN luckyShown'
        BY <4>1 DEF InternalError, UnavailableLucky
      <4>3. \/ Failed(lucky.answer["version"]) \/ lucky.answer["status"] = "unreadable"
            \/ /\ Failed(lucky.answer["web"]) /\ ~Failed(lucky.answer["web_lite"])
               /\ "spoiled" \in Range(lucky.rules)
        BY <3>3 DEF Raises, Failed
      <4> QED BY <3>1, <4>2, <4>3, Zenon DEF FailuresStayInModules
    <3>4. CASE lucky.setup # "ready"
      BY <3>1, <3>4 DEF FailuresStayInModules
    <3> QED BY <3>2, <3>3, <3>4
  <2> QED BY <2>1, <2>2
<1> QED BY <1>1, <1>2, PTL DEF LuckySpec
-----------------------------------------------------------------------------
(* The exporter of Hermes profiles. *)

\* Of the places of a list, one has each rank: it is the least with as many up to it.
LEMMA Ranked ==
  ASSUME NEW N \in Nat, NEW S \in SUBSET (1..N), NEW n \in 1..Cardinality(S)
  PROVE  \E i \in S : Rank(S, i) = n
<1> DEFINE Upto(i) == {j \in S : j <= i}
           T == {i \in S : Rank(S, i) >= n}
<1>1. IsFiniteSet(S) /\ Cardinality(S) \in Nat
  <2>1. IsFiniteSet(1..N)
    BY FS_Interval
  <2> QED BY <2>1, FS_Subset, FS_CardinalityType
<1>2. \A i \in S : /\ i \in Nat /\ IsFiniteSet(Upto(i)) /\ Rank(S, i) \in Nat
                   /\ Rank(S, i) = Cardinality(Upto(i))
  <2> SUFFICES ASSUME NEW i \in S
               PROVE  /\ i \in Nat /\ IsFiniteSet(Upto(i)) /\ Rank(S, i) \in Nat
                      /\ Rank(S, i) = Cardinality(Upto(i))
    OBVIOUS
  <2>1. IsFiniteSet(Upto(i))
    <3>1. Upto(i) \subseteq S
      OBVIOUS
    <3> QED BY <1>1, <3>1, FS_Subset
  <2>2. Rank(S, i) = Cardinality(Upto(i))
    BY DEF Rank
  <2> QED BY <2>1, <2>2, FS_CardinalityType
<1>3. S # {}
  <2>1. CASE S = {}
    <3>1. Cardinality(S) = 0
      BY <2>1, FS_EmptySet
    <3> QED BY <3>1
  <2> QED BY <2>1
<1>4. PICK last \in S : \A j \in S : j <= last
  BY <1>3, Greatest
<1>5. last \in T
  <2>1. Upto(last) = S
    BY <1>4
  <2> QED BY <1>1, <1>2, <2>1
<1>6. PICK i \in S : /\ n \in Nat /\ Rank(S, i) >= n
                     /\ \A j \in S : Rank(S, j) >= n => i <= j
  <2>1. T \in SUBSET Nat /\ T # {}
    BY <1>2, <1>5
  <2>2. PICK i \in T : \A j \in T : i <= j
    BY <2>1, Least
  <2> QED BY <1>1, <2>2
<1>7. Rank(S, i) <= n
  <2> DEFINE below == {j \in S : j < i}
  <2>1. Upto(i) = below \cup {i}
    <3>1. \A j \in S : j <= i <=> j < i \/ j = i
      BY <1>2
    <3> QED BY <3>1
  <2>2. i \notin below
    BY <1>2
  <2>3. IsFiniteSet(below)
    <3>1. below \subseteq S
      OBVIOUS
    <3> QED BY <1>1, <3>1, FS_Subset
  <2>4. Cardinality(below) \in Nat /\ Rank(S, i) = Cardinality(below) + 1
    <3>1. Cardinality(below \cup {i}) = Cardinality(below) + 1
      <4> HIDE DEF below
      <4> QED BY <2>2, <2>3, FS_AddElement
    <3> QED BY <1>2, <2>1, <2>3, <3>1, FS_CardinalityType
  <2>5. CASE below = {}
    <3>1. Cardinality(below) = 0
      BY <2>5, FS_EmptySet
    <3> QED BY <1>1, <2>4, <3>1
  <2>6. CASE below # {}
    <3>1. PICK k \in below : \A j \in below : j <= k
      BY <2>6, Greatest
    <3>2. k \in S /\ k < i
      OBVIOUS
    <3>3. Upto(k) = below
      <4>1. \A j \in S : j <= k <=> j < i
        BY <1>2, <3>1, <3>2
      <4> QED BY <4>1
    <3>4. Rank(S, k) = Cardinality(below)
      BY <1>2, <3>2, <3>3
    <3>5. ~(Rank(S, k) >= n)
      BY <1>2, <1>6, <3>2
    <3> HIDE DEF below
    <3> QED BY <1>1, <1>6, <2>4, <3>4, <3>5
  <2> QED BY <2>5, <2>6
<1>8. Rank(S, i) = n
  <2>1. Rank(S, i) \in Nat
    BY <1>2
  <2> QED BY <1>6, <1>7, <2>1
<1> QED BY <1>8

\* A run exports names of profiles, each once.
LEMMA RegisteredOnce ==
  ASSUME NEW raw \in RawLists
  PROVE  /\ NormalizeProfiles(raw) \in Seq(ProfileNames)
         /\ \A m, n \in 1..Len(NormalizeProfiles(raw)) :
               NormalizeProfiles(raw)[m] = NormalizeProfiles(raw)[n] => m = n
<1> DEFINE S == Kept(raw)
           count == Min2(Cardinality(S), MaxProfiles)
           at(n) == CHOOSE i \in S : Rank(S, i) = n
<1>1. Len(raw) \in Nat /\ S \in SUBSET (1..Len(raw))
  <2>1. raw \in Seq(Range(raw))
    BY HermesAssumption
  <2> QED BY <2>1 DEF Kept
<1>2. Cardinality(S) \in Nat /\ count \in Nat /\ 1..count \subseteq 1..Cardinality(S)
  <2>1. IsFiniteSet(1..Len(raw))
    BY <1>1, FS_Interval
  <2>2. Cardinality(S) \in Nat
    BY <1>1, <2>1, FS_Subset, FS_CardinalityType
  <2> QED BY <2>2, HermesAssumption DEF Min2
<1>3. \A n \in 1..count : at(n) \in S /\ Rank(S, at(n)) = n
  <2> SUFFICES ASSUME NEW n \in 1..count PROVE at(n) \in S /\ Rank(S, at(n)) = n
    OBVIOUS
  <2>1. \E i \in S : Rank(S, i) = n
    BY <1>1, <1>2, Ranked
  <2> QED BY <2>1
<1>4. NormalizeProfiles(raw) = [n \in 1..count |-> raw[at(n)]]
  BY DEF NormalizeProfiles
<1>5. \A i \in S : raw[i] \in ProfileNames
  BY DEF Kept
<1>6. \A i, k \in S : raw[i] = raw[k] => i = k
  <2> SUFFICES ASSUME NEW i \in S, NEW k \in S, raw[i] = raw[k], i < k PROVE FALSE
    BY <1>1
  <2>1. i \in 1..(k - 1)
    BY <1>1
  <2> QED BY <2>1 DEF Kept
<1> HIDE DEF S, count, at
<1>7. NormalizeProfiles(raw) \in Seq(ProfileNames) /\ Len(NormalizeProfiles(raw)) = count
  BY <1>2, <1>3, <1>4, <1>5
<1> SUFFICES ASSUME NEW m \in 1..count, NEW n \in 1..count,
                    NormalizeProfiles(raw)[m] = NormalizeProfiles(raw)[n]
             PROVE  m = n
  BY <1>7
<1>8. at(m) = at(n)
  BY <1>3, <1>4, <1>6
<1> QED BY <1>3, <1>8

\* What the file of a profile says, and a record that will be its file.
Told == {"profile", "updated", "received", "stale", "error", "seen", "first"}
Written(record, fresh) ==
    /\ Told \subseteq DOMAIN record
    /\ record.updated \in Nat /\ record.received \in Nat
    /\ record.updated <= record.received /\ record.received <= hermesRun
    /\ record.updated = fresh
    /\ record.stale \in BOOLEAN
    /\ record.stale <=> record.received # record.updated
    /\ ~record.stale => record.seen \/ record.first

FilesHold ==
    \A p \in ProfileNames :
        /\ files[p] = NoFile => observed[p] = 0
        /\ files[p] # NoFile => files[p].profile = p /\ Written(files[p], observed[p])

\* hermes.json, which is as old as its parts.
RootHolds ==
    files[Root] # NoFile =>
        LET root == files[Root] IN
        /\ root.received \in Nat /\ root.received <= hermesRun
        /\ \A i \in DOMAIN root.profiles :
              /\ root.profiles[i].profile \in ProfileNames
              /\ root.profiles[i].received = root.received
              /\ root.profiles[i].updated <= root.updated
              /\ ~root.stale => \E j \in DOMAIN root.profiles : ~root.profiles[j].stale
              /\ files[root.profiles[i].profile] # NoFile =>
                    files[root.profiles[i].profile].received >= root.received

HermesTypes ==
    /\ hermesRun \in Nat
    /\ exporter = [pc |-> exporter.pc, registered |-> exporter.registered,
                   done |-> exporter.done, staged |-> exporter.staged]
    /\ exporter.pc \in {"idle", "profiles", "replace", "root"}
    /\ exporter.registered \in Seq(ProfileNames)
    /\ exporter.done \in Seq(Range(exporter.done))
    /\ files = [f \in ProfileNames \cup {Root} |-> files[f]]
    /\ observed \in [ProfileNames -> Nat]

\* The names of a run differ, its files are written in their order, and of those not
\* reached the last fresh run is an earlier one: a profile written twice in one run
\* would be stale and of its age at once.
ExporterHolds ==
    exporter.pc # "idle" =>
        /\ \A m, n \in 1..Len(exporter.registered) :
              exporter.registered[m] = exporter.registered[n] => m = n
        /\ Len(exporter.done) <= Len(exporter.registered)
        /\ \A k \in 1..Len(exporter.done) :
              /\ exporter.done[k].received = hermesRun
              /\ exporter.done[k].profile = exporter.registered[k]
              /\ files[exporter.registered[k]] = exporter.done[k]
        /\ \A k \in 1..Len(exporter.registered) :
              k > Len(exporter.done) => observed[exporter.registered[k]] < hermesRun

\* The staged file is that of the next profile.
StagedHolds ==
    exporter.pc = "replace" =>
        LET k == Len(exporter.done) + 1
            p == exporter.registered[k]
            staged == exporter.staged
        IN  /\ k <= Len(exporter.registered)
            /\ staged.profile = p
            /\ staged.received = hermesRun
            /\ Written(staged, IF staged.seen \/ staged.first THEN hermesRun ELSE observed[p])

HermesInv == HermesTypes /\ FilesHold /\ RootHolds /\ ExporterHolds /\ StagedHolds

\* The exporter at rest.
LEMMA RestingRecord ==
  /\ Resting = [pc |-> "idle", registered |-> <<>>, done |-> <<>>, staged |-> NoFile]
  /\ <<>> \in Seq(ProfileNames) /\ <<>> \in Seq(Range(<<>>))
<1>1. <<>> \in Seq(Range(<<>>))
  BY EmptySeq
<1>2. <<>> \in Seq(ProfileNames)
  BY EmptySeq
<1> QED BY <1>1, <1>2 DEF Resting

\* Nothing was fresh in a later run.
LEMMA ObservedBefore ==
  ASSUME HermesInv, NEW p \in ProfileNames PROVE observed[p] \in Nat /\ observed[p] <= hermesRun
<1>1. observed[p] \in Nat /\ hermesRun \in Nat
  BY DEF HermesInv, HermesTypes
<1>2. CASE files[p] = NoFile
  BY <1>1, <1>2 DEF HermesInv, FilesHold
<1>3. CASE files[p] # NoFile
  BY <1>1, <1>3 DEF HermesInv, FilesHold, Written
<1> QED BY <1>1, <1>2, <1>3

\* A run that starts is later than all that was written.
LEMMA StartStep == HermesInv /\ StartExport => HermesInv'
<1> SUFFICES ASSUME HermesInv, StartExport PROVE HermesInv'
  OBVIOUS
<1>1. hermesRun \in Nat /\ hermesRun' = hermesRun + 1 /\ UNCHANGED <<files, observed>>
  BY DEF HermesInv, HermesTypes, StartExport
<1>2. PICK raw \in RawLists :
         exporter' = [pc |-> "profiles", registered |-> NormalizeProfiles(raw),
                      done |-> <<>>, staged |-> NoFile]
  BY DEF StartExport, Resting
<1>3. HermesTypes'
  BY <1>1, <1>2, RegisteredOnce, RestingRecord DEF HermesInv, HermesTypes
<1>4. FilesHold'
  BY <1>1 DEF HermesInv, FilesHold, Written
<1>5. RootHolds'
  BY <1>1 DEF HermesInv, RootHolds
<1>6. ExporterHolds'
  <2> DEFINE names == NormalizeProfiles(raw)
  <2>1. names \in Seq(ProfileNames) /\ \A m, n \in 1..Len(names) : names[m] = names[n] => m = n
    BY RegisteredOnce
  <2>2. \A k \in 1..Len(names) : observed'[names[k]] < hermesRun'
    BY <1>1, <2>1, ObservedBefore
  <2>3. exporter'.registered = names /\ exporter'.done = <<>>
    BY <1>2
  <2> HIDE DEF names
  <2> QED BY <2>1, <2>2, <2>3 DEF ExporterHolds
<1>7. StagedHolds'
  BY <1>2 DEF StagedHolds
<1> QED BY <1>3, <1>4, <1>5, <1>6, <1>7 DEF HermesInv

\* What is observed in a run is current; what is kept is not, and of its time.
LEMMA WrittenFresh ==
  ASSUME NEW record, Told \subseteq DOMAIN record, hermesRun \in Nat, hermesRun > 0,
         record.received = hermesRun, record.updated = hermesRun, record.stale = FALSE,
         record.seen \/ record.first
  PROVE  Written(record, IF record.seen \/ record.first THEN hermesRun ELSE 0)
<1>1. hermesRun <= hermesRun
  OBVIOUS
<1>2. Written(record, hermesRun)
  BY <1>1, Zenon DEF Written
<1>3. hermesRun = IF record.seen \/ record.first THEN hermesRun ELSE 0
  OBVIOUS
<1> QED BY <1>2, <1>3, Zenon

\* A record kept from an earlier run keeps its time and is stale.
LEMMA WrittenKept ==
  ASSUME NEW record, Told \subseteq DOMAIN record, hermesRun \in Nat, NEW fresh \in Nat,
         fresh < hermesRun, record.received = hermesRun, record.updated = fresh,
         record.stale = TRUE, ~(record.seen \/ record.first)
  PROVE  Written(record, IF record.seen \/ record.first THEN hermesRun ELSE fresh)
<1>1. fresh = IF record.seen \/ record.first THEN hermesRun ELSE fresh
  OBVIOUS
<1>2. fresh <= hermesRun /\ hermesRun # fresh /\ hermesRun <= hermesRun
  OBVIOUS
<1>3. Written(record, fresh)
  BY <1>2, Zenon DEF Written
<1> QED BY <1>1, <1>3, Zenon

\* What a run writes of a profile it has not reached: current when it was seen or new,
\* of the time of the file before it otherwise.
LEMMA ProfileRecord ==
  ASSUME HermesInv, NEW p \in ProfileNames, NEW o \in Observations, observed[p] < hermesRun
  PROVE  LET record == IF o.dir THEN ProfileStats(p, o, files[p]) ELSE MissingProfile(p, files[p])
         IN  /\ record.profile = p /\ record.received = hermesRun
             /\ Written(record, IF record.seen \/ record.first THEN hermesRun ELSE observed[p])
<1> DEFINE file == files[p]
           old == observed[p]
           stats == ProfileStats(p, o, file)
           missing == MissingProfile(p, file)
<1>1. /\ hermesRun \in Nat /\ hermesRun > 0 /\ old \in Nat /\ old < hermesRun
      /\ file = NoFile => old = 0
      /\ file # NoFile => file.profile = p /\ file.updated = old /\ Told \subseteq DOMAIN file
  BY DEF HermesInv, HermesTypes, FilesHold, Written
<1>2. file.profile = p <=> file # NoFile
  BY <1>1, HermesAssumption DEF NoFile
<1>3. /\ stats.profile = p /\ stats.received = hermesRun
      /\ Written(stats, IF stats.seen \/ stats.first THEN hermesRun ELSE old)
  <2> DEFINE first == file.profile # p
             seen == HttpJson(o.api, o.api.health) = "ok" \/ o.cli.found
             kept == ~seen /\ ~first
  <2>1. /\ stats.profile = p /\ stats.received = hermesRun /\ Told \subseteq DOMAIN stats
        /\ stats.first = first /\ stats.seen = seen
        /\ stats.updated = IF kept THEN file.updated ELSE hermesRun
        /\ stats.stale = (kept \/ stats.updated = 0)
    BY DEF ProfileStats, Told
  <2>2. ~first <=> file # NoFile
    BY <1>2
  <2> HIDE DEF seen, first, stats, old
  <2>3. CASE kept
    <3>1. stats.updated = old /\ stats.stale = TRUE /\ ~(stats.seen \/ stats.first)
      BY <1>1, <2>1, <2>2, <2>3
    <3> QED BY <1>1, <2>1, <3>1, WrittenKept
  <2>4. CASE ~kept
    <3>1. stats.updated = hermesRun /\ (stats.seen \/ stats.first)
      BY <2>1, <2>4
    <3>2. stats.stale = FALSE
      <4>1. stats.updated # 0
        BY <1>1, <3>1
      <4> QED BY <2>1, <2>4, <4>1, Zenon
    <3>3. (IF stats.seen \/ stats.first THEN hermesRun ELSE old)
            = IF stats.seen \/ stats.first THEN hermesRun ELSE 0
      BY <3>1
    <3> QED BY <1>1, <2>1, <3>1, <3>2, <3>3, WrittenFresh
  <2> QED BY <2>3, <2>4
<1>4. /\ missing.profile = p /\ missing.received = hermesRun
      /\ Written(missing, IF missing.seen \/ missing.first THEN hermesRun ELSE old)
  <2> DEFINE base == IF file = NoFile THEN Unknown(p) ELSE file
  <2>1. Told \subseteq DOMAIN base /\ base.profile = p /\ base.updated = old
    BY <1>1 DEF Unknown, Told
  <2>2. missing = [base EXCEPT !.received = hermesRun, !.stale = TRUE,
                      !.error = "profile_unavailable", !.seen = FALSE, !.first = FALSE]
    BY DEF MissingProfile
  <2> HIDE DEF base, missing, old
  <2>3. /\ missing.profile = p /\ missing.received = hermesRun /\ missing.updated = old
        /\ missing.stale = TRUE /\ missing.seen = FALSE /\ missing.first = FALSE
        /\ Told \subseteq DOMAIN missing
    BY <2>1, <2>2 DEF Told
  <2> QED BY <1>1, <2>3, WrittenKept
<1> QED BY <1>3, <1>4

\* The next profile is staged.
LEMMA CollectProfileStep == HermesInv /\ CollectProfile => HermesInv'
<1> SUFFICES ASSUME HermesInv, CollectProfile PROVE HermesInv'
  OBVIOUS
<1> DEFINE k == Len(exporter.done) + 1
           p == exporter.registered[k]
<1>1. /\ exporter.pc = "profiles" /\ k \in 1..Len(exporter.registered) /\ p \in ProfileNames
      /\ UNCHANGED <<hermesRun, files, observed>>
  BY DEF HermesInv, HermesTypes, CollectProfile
<1>2. observed[p] < hermesRun
  <2>1. k > Len(exporter.done)
    BY DEF HermesInv, HermesTypes
  <2> QED BY <1>1, <2>1 DEF HermesInv, ExporterHolds
<1>3. PICK o \in Observations :
         exporter' = [exporter EXCEPT !.pc = "replace", !.staged =
            IF o.dir THEN ProfileStats(p, o, files[p]) ELSE MissingProfile(p, files[p])]
  BY DEF CollectProfile
<1>4. PICK record :
         /\ record.profile = p /\ record.received = hermesRun
         /\ Written(record, IF record.seen \/ record.first THEN hermesRun ELSE observed[p])
         /\ exporter' = [exporter EXCEPT !.pc = "replace", !.staged = record]
  BY <1>1, <1>2, <1>3, ProfileRecord
<1>5. exporter' = [pc |-> "replace", registered |-> exporter.registered,
                   done |-> exporter.done, staged |-> record]
  BY <1>4 DEF HermesInv, HermesTypes
<1>6. HermesTypes'
  BY <1>1, <1>5 DEF HermesInv, HermesTypes
<1>7. FilesHold'
  BY <1>1 DEF HermesInv, FilesHold, Written
<1>8. RootHolds'
  BY <1>1 DEF HermesInv, RootHolds
<1>9. ExporterHolds'
  <2>1. exporter'.registered = exporter.registered /\ exporter'.done = exporter.done
    BY <1>5
  <2> QED BY <1>1, <2>1 DEF HermesInv, ExporterHolds
<1>10. StagedHolds'
  <2>1. exporter'.registered = exporter.registered /\ exporter'.done = exporter.done
        /\ exporter'.staged = record
    BY <1>5
  <2> SUFFICES Written(exporter.staged,
                       IF exporter.staged.seen \/ exporter.staged.first THEN hermesRun
                       ELSE observed[exporter.registered[Len(exporter.done) + 1]])'
    BY <1>1, <1>4, <2>1 DEF StagedHolds
  <2> QED BY <1>1, <1>4, <2>1, Zenon DEF Written
<1> QED BY <1>6, <1>7, <1>8, <1>9, <1>10 DEF HermesInv

\* Appending keeps a sequence of what it holds.
LEMMA AppendKeeps ==
  ASSUME NEW s, s \in Seq(Range(s)), NEW e
  PROVE  /\ Append(s, e) \in Seq(Range(Append(s, e))) /\ Len(Append(s, e)) = Len(s) + 1
         /\ \A i \in 1..Len(s) : Append(s, e)[i] = s[i]
         /\ Append(s, e)[Len(s) + 1] = e
<1> DEFINE both == Range(s) \cup {e}
<1>1. s \in Seq(both) /\ e \in both /\ Len(s) \in Nat
  <2>1. Range(s) \subseteq both /\ e \in both
    OBVIOUS
  <2> HIDE DEF both
  <2> QED BY <2>1
<1> HIDE DEF both
<1>2. /\ Append(s, e) \in Seq(both) /\ Len(Append(s, e)) = Len(s) + 1
      /\ \A i \in 1..Len(s) : Append(s, e)[i] = s[i]
      /\ Append(s, e)[Len(s) + 1] = e
  BY <1>1
<1> DEFINE t == Append(s, e)
<1> HIDE DEF t
<1>3. t \in Seq(both) => t \in Seq(Range(t))
  BY DEF Range
<1> QED BY <1>2, <1>3 DEF t

\* The staged file takes the place of the one before it.
LEMMA ReplaceProfileStep == HermesInv /\ ReplaceProfile => HermesInv'
<1> SUFFICES ASSUME HermesInv, ReplaceProfile PROVE HermesInv'
  OBVIOUS
<1> DEFINE n == Len(exporter.done)
           p == exporter.registered[n + 1]
           staged == exporter.staged
           fresh == IF staged.seen \/ staged.first THEN hermesRun ELSE observed[p]
<1>1. /\ hermesRun \in Nat /\ hermesRun' = hermesRun
      /\ exporter.pc = "replace" /\ n \in Nat /\ n + 1 \in 1..Len(exporter.registered)
      /\ p \in ProfileNames /\ p # Root
      /\ staged.profile = p /\ staged.received = hermesRun /\ Written(staged, fresh)
  <2>1. hermesRun \in Nat /\ hermesRun' = hermesRun /\ exporter.pc = "replace"
    BY DEF HermesInv, HermesTypes, ReplaceProfile
  <2>2. exporter.registered \in Seq(ProfileNames) /\ exporter.done \in Seq(Range(exporter.done))
    BY DEF HermesInv, HermesTypes
  <2>3. n \in Nat /\ Len(exporter.registered) \in Nat
    BY <2>2
  <2>4. /\ n + 1 <= Len(exporter.registered)
        /\ staged.profile = p /\ staged.received = hermesRun /\ Written(staged, fresh)
    BY <2>1, Zenon DEF HermesInv, StagedHolds
  <2>5. n + 1 \in 1..Len(exporter.registered)
    <3> DEFINE m == Len(exporter.registered)
    <3> HIDE DEF n, m
    <3> QED BY <2>3, <2>4 DEF m
  <2>6. p \in ProfileNames
    <3> HIDE DEF n
    <3> QED BY <2>2, <2>5
  <2>7. p # Root
    BY <2>6, HermesAssumption
  <2> QED BY <2>1, <2>3, <2>4, <2>5, <2>6, <2>7
<1>2. files' = [f \in ProfileNames \cup {Root} |-> IF f = p THEN staged ELSE files[f]]
  BY <1>1 DEF HermesInv, HermesTypes, ReplaceProfile
<1>3. observed' \in [ProfileNames -> Nat] /\ observed'[p] = fresh
      /\ \A q \in ProfileNames : q # p => observed'[q] = observed[q]
  <2>1. observed \in [ProfileNames -> Nat]
    BY DEF HermesInv, HermesTypes
  <2>2. CASE staged.seen \/ staged.first
    <3>1. observed' = [observed EXCEPT ![p] = hermesRun]
      BY <1>1, <2>2 DEF ReplaceProfile
    <3> HIDE DEF p
    <3> QED BY <1>1, <2>1, <2>2, <3>1
  <2>3. CASE ~(staged.seen \/ staged.first)
    BY <1>1, <2>1, <2>3 DEF ReplaceProfile
  <2> QED BY <2>2, <2>3
<1>4. exporter' = [pc |-> "profiles", registered |-> exporter.registered,
                   done |-> Append(exporter.done, staged), staged |-> NoFile]
  BY DEF HermesInv, HermesTypes, ReplaceProfile
<1>5. exporter.done \in Seq(Range(exporter.done)) /\ exporter.registered \in Seq(ProfileNames)
  BY DEF HermesInv, HermesTypes
<1> DEFINE done == exporter.done
           names == exporter.registered
           next == Append(done, staged)
<1>6. /\ next \in Seq(Range(next)) /\ Len(next) = n + 1
      /\ \A i \in 1..n : next[i] = done[i]
      /\ next[n + 1] = staged
  BY <1>5, AppendKeeps
<1>7. exporter'.pc = "profiles" /\ exporter'.registered = names /\ exporter'.done = next
      /\ exporter'.staged = NoFile
  BY <1>4
<1>8. /\ \A i, j \in 1..Len(names) : names[i] = names[j] => i = j
      /\ \A i \in 1..n : done[i].received = hermesRun /\ done[i].profile = names[i]
                         /\ files[names[i]] = done[i]
      /\ \A i \in 1..Len(names) : i > n => observed[names[i]] < hermesRun
      /\ \A i \in 1..Len(names) : names[i] \in ProfileNames
  BY <1>1, <1>5 DEF HermesInv, ExporterHolds
<1> HIDE DEF p, n, staged, fresh, done, names, next
<1>9. HermesTypes'
  <2>1. exporter' = [pc |-> exporter'.pc, registered |-> exporter'.registered,
                     done |-> exporter'.done, staged |-> exporter'.staged]
    BY <1>4, <1>7 DEF next, done, names, staged
  <2>2. files' = [f \in ProfileNames \cup {Root} |-> files'[f]]
    BY <1>2
  <2> QED BY <1>1, <1>3, <1>5, <1>6, <1>7, <2>1, <2>2 DEF HermesTypes, names
<1>10. FilesHold'
  <2> SUFFICES ASSUME NEW q \in ProfileNames
               PROVE  /\ files'[q] = NoFile => observed'[q] = 0
                      /\ files'[q] # NoFile =>
                            files'[q].profile = q /\ Written(files[q], observed[q])'
    BY DEF FilesHold
  <2>1. CASE q = p
    <3>1. files'[q] = staged /\ observed'[q] = fresh
      BY <1>1, <1>2, <1>3, <2>1
    <3>2. staged # NoFile
      BY <1>1, HermesAssumption DEF NoFile
    <3>3. Written(files[q], observed[q])'
      BY <1>1, <3>1, Zenon DEF Written
    <3> QED BY <1>1, <2>1, <3>1, <3>2, <3>3
  <2>2. CASE q # p
    <3>1. files'[q] = files[q] /\ observed'[q] = observed[q]
      BY <1>2, <1>3, <2>2
    <3> QED BY <1>1, <3>1 DEF HermesInv, FilesHold, Written
  <2> QED BY <2>1, <2>2
<1>11. RootHolds'
  <2>1. files'[Root] = files[Root]
    BY <1>1, <1>2
  <2> SUFFICES ASSUME files[Root] # NoFile, NEW i \in DOMAIN files[Root].profiles,
                      files'[files[Root].profiles[i].profile] # NoFile
               PROVE  files'[files[Root].profiles[i].profile].received >= files[Root].received
    BY <1>1, <2>1 DEF HermesInv, RootHolds
  <2> DEFINE q == files[Root].profiles[i].profile
  <2>2. /\ files[Root].received \in Nat /\ files[Root].received <= hermesRun
        /\ q \in ProfileNames
        /\ files[q] # NoFile => files[q].received >= files[Root].received
    BY DEF HermesInv, RootHolds
  <2> HIDE DEF q
  <2>3. CASE q = p
    <3>1. files'[q].received = hermesRun
      BY <1>1, <1>2, <2>2, <2>3
    <3> QED BY <1>1, <2>2, <3>1 DEF q
  <2>4. CASE q # p
    <3>1. files'[q] = files[q]
      BY <1>2, <2>2, <2>4
    <3> QED BY <2>2, <3>1 DEF q
  <2> QED BY <2>3, <2>4
<1>12. ExporterHolds'
  <2>1. \A i \in 1..Len(names) : i # n + 1 => names[i] # p
    BY <1>1, <1>8 DEF p, names
  <2>2. \A i \in 1..n + 1 : /\ next[i].received = hermesRun /\ next[i].profile = names[i]
                            /\ files'[names[i]] = next[i]
    <3> SUFFICES ASSUME NEW i \in 1..n + 1
                 PROVE  /\ next[i].received = hermesRun /\ next[i].profile = names[i]
                        /\ files'[names[i]] = next[i]
      OBVIOUS
    <3>1. CASE i = n + 1
      <4>1. names[i] = p
        BY <3>1 DEF p, names
      <4> QED BY <1>1, <1>2, <1>6, <3>1, <4>1
    <3>2. CASE i # n + 1
      <4>1. i \in 1..n /\ i \in 1..Len(names) /\ names[i] # p
        BY <1>1, <2>1, <3>2 DEF names
      <4> QED BY <1>2, <1>6, <1>8, <4>1
    <3> QED BY <3>1, <3>2
  <2>3. \A i \in 1..Len(names) : i > n + 1 => observed'[names[i]] < hermesRun
    <3> SUFFICES ASSUME NEW i \in 1..Len(names), i > n + 1
                 PROVE  observed'[names[i]] < hermesRun
      OBVIOUS
    <3>1. i > n /\ i # n + 1
      BY <1>1
    <3> QED BY <1>3, <1>8, <2>1, <3>1
  <2>4. n + 1 <= Len(names)
    BY <1>1 DEF names
  <2> QED BY <1>1, <1>6, <1>7, <1>8, <2>2, <2>3, <2>4 DEF ExporterHolds
<1>13. StagedHolds'
  BY <1>7 DEF StagedHolds
<1> QED BY <1>9, <1>10, <1>11, <1>12, <1>13 DEF HermesInv

\* The files that go are of profiles this run does not export.
LEMMA RemoveStep == HermesInv /\ RemoveUnregistered => HermesInv'
<1> SUFFICES ASSUME HermesInv, RemoveUnregistered PROVE HermesInv'
  OBVIOUS
<1>1. PICK gone \in SUBSET (ProfileNames \ Range(exporter.registered)) :
         /\ files' = [f \in DOMAIN files |-> IF f \in gone THEN NoFile ELSE files[f]]
         /\ observed' = [p \in ProfileNames |-> IF p \in gone THEN 0 ELSE observed[p]]
  BY DEF RemoveUnregistered
<1>2. /\ hermesRun \in Nat /\ hermesRun' = hermesRun /\ exporter.pc = "profiles"
      /\ exporter' = [pc |-> "root", registered |-> exporter.registered,
                      done |-> exporter.done, staged |-> exporter.staged]
  BY DEF HermesInv, HermesTypes, RemoveUnregistered
<1>3. /\ DOMAIN files = ProfileNames \cup {Root} /\ Root \notin ProfileNames
      /\ observed \in [ProfileNames -> Nat]
  BY HermesAssumption DEF HermesInv, HermesTypes
<1>4. /\ \A p \in ProfileNames : p \notin gone => files'[p] = files[p] /\ observed'[p] = observed[p]
      /\ \A p \in gone : files'[p] = NoFile /\ observed'[p] = 0
      /\ files'[Root] = files[Root]
  BY <1>1, <1>3
<1>5. /\ exporter'.pc = "root" /\ exporter'.registered = exporter.registered
      /\ exporter'.done = exporter.done /\ exporter'.staged = exporter.staged
  BY <1>2
<1>6. HermesTypes'
  <2>1. files' = [f \in ProfileNames \cup {Root} |-> files'[f]]
    BY <1>1, <1>3
  <2>2. observed' \in [ProfileNames -> Nat]
    BY <1>1, <1>3
  <2> QED BY <1>2, <1>5, <2>1, <2>2 DEF HermesInv, HermesTypes
<1>7. FilesHold'
  <2> SUFFICES ASSUME NEW q \in ProfileNames
               PROVE  /\ files'[q] = NoFile => observed'[q] = 0
                      /\ files'[q] # NoFile =>
                            files'[q].profile = q /\ Written(files[q], observed[q])'
    BY DEF FilesHold
  <2>1. CASE q \in gone
    BY <1>4, <2>1
  <2>2. CASE q \notin gone
    BY <1>2, <1>4, <2>2 DEF HermesInv, FilesHold, Written
  <2> QED BY <2>1, <2>2
<1>8. RootHolds'
  <2> SUFFICES ASSUME files[Root] # NoFile, NEW i \in DOMAIN files[Root].profiles,
                      files'[files[Root].profiles[i].profile] # NoFile
               PROVE  files'[files[Root].profiles[i].profile].received >= files[Root].received
    BY <1>2, <1>4 DEF HermesInv, RootHolds
  <2> DEFINE q == files[Root].profiles[i].profile
  <2>1. q \in ProfileNames /\ (files[q] # NoFile => files[q].received >= files[Root].received)
    BY DEF HermesInv, RootHolds
  <2> HIDE DEF q
  <2>2. files'[q] # NoFile => files'[q] = files[q]
    BY <1>4, <2>1
  <2> QED BY <2>1, <2>2 DEF q
<1>9. ExporterHolds'
  <2>1. \A k \in 1..Len(exporter.registered) :
           exporter.registered[k] \in ProfileNames /\ exporter.registered[k] \notin gone
    <3>1. exporter.registered \in Seq(ProfileNames)
      BY DEF HermesInv, HermesTypes
    <3> QED BY <3>1 DEF Range
  <2>2. \A k \in 1..Len(exporter.registered) :
           /\ files'[exporter.registered[k]] = files[exporter.registered[k]]
           /\ observed'[exporter.registered[k]] = observed[exporter.registered[k]]
    BY <1>4, <2>1
  <2>3. \A k \in 1..Len(exporter.done) : k \in 1..Len(exporter.registered)
    BY <1>2 DEF HermesInv, HermesTypes, ExporterHolds
  <2> QED BY <1>2, <1>5, <2>2, <2>3 DEF HermesInv, ExporterHolds
<1>10. StagedHolds'
  BY <1>5 DEF StagedHolds
<1> QED BY <1>6, <1>7, <1>8, <1>9, <1>10 DEF HermesInv

\* A set of times with none before the first run has a latest.
LEMMA Latest ==
  ASSUME NEW n \in Nat, NEW T \in SUBSET (0..n), T # {} PROVE \E t \in T : \A u \in T : u <= t
<1> DEFINE S == {t + 1 : t \in T}
<1>1. S \in SUBSET (1..(n + 1)) /\ S # {} /\ n + 1 \in Nat
  <2>1. \A t \in T : t + 1 \in 1..(n + 1)
    OBVIOUS
  <2>2. n + 1 \in Nat
    OBVIOUS
  <2>3. S # {}
    OBVIOUS
  <2> QED BY <2>1, <2>2, <2>3, Zenon
<1>2. PICK s \in S : \A r \in S : r <= s
  BY <1>1, Greatest
<1>3. PICK t \in T : s = t + 1
  OBVIOUS
<1>4. \A u \in T : u + 1 <= t + 1
  BY <1>2, <1>3
<1>5. \A u \in T : u \in Nat
  OBVIOUS
<1> QED BY <1>4, <1>5

\* hermes.json is made of the files of this run and replaces the one before it.
LEMMA ReplaceRootStep == HermesInv /\ ReplaceRoot => HermesInv'
<1> SUFFICES ASSUME HermesInv, ReplaceRoot PROVE HermesInv'
  OBVIOUS
<1> DEFINE done == exporter.done
           names == exporter.registered
           times == {done[i].updated : i \in DOMAIN done} \cup {0}
           latest == CHOOSE t \in times : \A u \in times : u <= t
           root == [profile |-> Root, profiles |-> done, received |-> hermesRun,
                    updated |-> latest, stale |-> \A i \in DOMAIN done : done[i].stale,
                    error |-> CASE done = <<>> -> "not_reported"
                                [] \E i \in DOMAIN done : done[i].error # None -> "partial_failure"
                                [] done # <<>> /\ \A i \in DOMAIN done : done[i].error = None
                                      -> None]
<1>1. /\ hermesRun \in Nat /\ hermesRun' = hermesRun /\ observed' = observed
      /\ exporter' = Resting /\ exporter.pc = "root"
  BY DEF HermesInv, HermesTypes, ReplaceRoot
<1>2. /\ files' = [files EXCEPT ![Root] = root]
      /\ root.profiles = done /\ root.received = hermesRun /\ root.updated = latest
  BY DEF ReplaceRoot
<1> DEFINE allStale == \A i \in DOMAIN done : done[i].stale
<1>3a. root.stale = allStale
  OBVIOUS
<1> HIDE DEF root
<1>3. /\ DOMAIN files = ProfileNames \cup {Root} /\ Root \notin ProfileNames
      /\ files = [f \in ProfileNames \cup {Root} |-> files[f]]
  BY HermesAssumption DEF HermesInv, HermesTypes
<1>4. files' = [f \in ProfileNames \cup {Root} |-> IF f = Root THEN root ELSE files[f]]
  BY <1>2, <1>3
<1>5. \A p \in ProfileNames : files'[p] = files[p]
  BY <1>3, <1>4
<1>6. files'[Root] = root
  BY <1>3, <1>4
<1>7. HermesTypes'
  <2>1. files' = [f \in ProfileNames \cup {Root} |-> files'[f]]
    BY <1>4
  <2> QED BY <1>1, <2>1, RestingRecord DEF HermesInv, HermesTypes
<1>8. FilesHold'
  BY <1>1, <1>5 DEF HermesInv, FilesHold, Written
<1>9. \A i \in DOMAIN done :
         /\ names[i] \in ProfileNames /\ done[i].profile = names[i]
         /\ done[i].received = hermesRun /\ files[names[i]] = done[i]
  <2>1. done \in Seq(Range(done)) /\ names \in Seq(ProfileNames)
    BY DEF HermesInv, HermesTypes
  <2>2. DOMAIN done = 1..Len(done) /\ Len(done) <= Len(names)
    BY <1>1, <2>1 DEF HermesInv, ExporterHolds
  <2> QED BY <1>1, <2>1, <2>2 DEF HermesInv, ExporterHolds
<1>10. \A i \in DOMAIN done : done[i].updated \in 0..hermesRun
  <2> SUFFICES ASSUME NEW i \in DOMAIN done PROVE done[i].updated \in 0..hermesRun
    OBVIOUS
  <2>1. done[i] # NoFile
    BY <1>9, HermesAssumption DEF NoFile
  <2> QED BY <1>1, <1>9, <2>1 DEF HermesInv, FilesHold, Written
<1>11. \A i \in DOMAIN done : done[i].updated <= latest
  <2>1. times \in SUBSET (0..hermesRun) /\ times # {}
    BY <1>1, <1>10
  <2>2. \E t \in times : \A u \in times : u <= t
    <3> HIDE DEF times
    <3> QED BY <1>1, <2>1, Latest
  <2>3. \A u \in times : u <= latest
    <3> HIDE DEF times
    <3> QED BY <2>2
  <2>4. \A i \in DOMAIN done : done[i].updated \in times
    OBVIOUS
  <2> HIDE DEF times, latest
  <2> QED BY <2>3, <2>4
<1>12. RootHolds'
  <2> HIDE DEF latest, done
  <2> SUFFICES ASSUME NEW i \in DOMAIN done
               PROVE  /\ done[i].profile \in ProfileNames
                      /\ done[i].received = hermesRun
                      /\ done[i].updated <= latest
                      /\ ~root.stale => \E j \in DOMAIN done : ~done[j].stale
                      /\ files'[done[i].profile] # NoFile =>
                            files'[done[i].profile].received >= hermesRun
    BY <1>1, <1>2, <1>6 DEF RootHolds
  <2>1. ~root.stale => \E j \in DOMAIN done : ~done[j].stale
    BY <1>3a, Zenon
  <2>2. files'[done[i].profile].received = hermesRun
    BY <1>5, <1>9
  <2> QED BY <1>1, <1>9, <1>11, <2>1, <2>2
<1>13. ExporterHolds' /\ StagedHolds'
  BY <1>1 DEF Resting, ExporterHolds, StagedHolds
<1> QED BY <1>7, <1>8, <1>12, <1>13 DEF HermesInv

\* Killed, the exporter leaves the files as they are.
LEMMA DieStep == HermesInv /\ Die => HermesInv'
<1> SUFFICES ASSUME HermesInv, Die PROVE HermesInv'
  OBVIOUS
<1>1. UNCHANGED <<hermesRun, files, observed>> /\ exporter' = Resting
  BY DEF Die
<1>2. HermesTypes'
  BY <1>1, RestingRecord DEF HermesInv, HermesTypes
<1>3. FilesHold'
  BY <1>1 DEF HermesInv, FilesHold, Written
<1>4. RootHolds'
  BY <1>1 DEF HermesInv, RootHolds
<1>5. ExporterHolds' /\ StagedHolds'
  BY <1>1 DEF Resting, ExporterHolds, StagedHolds
<1> QED BY <1>2, <1>3, <1>4, <1>5 DEF HermesInv

\* However runs of the exporter fail and are killed, whatever the profiles answer and
\* whatever lists are configured, a file tells the age of what it shows and
\* hermes.json is as old as its parts (main, src/scripts/export-hermes-status.py).
THEOREM HermesFilesTellTheirAge == HermesSpec => []ExportTellsItsAge
<1>1. HermesInit => HermesInv
  <2> SUFFICES ASSUME HermesInit PROVE HermesInv
    OBVIOUS
  <2>1. HermesTypes
    BY RestingRecord DEF HermesInit, HermesTypes
  <2>2. FilesHold /\ RootHolds
    BY HermesAssumption DEF HermesInit, FilesHold, RootHolds
  <2>3. ExporterHolds /\ StagedHolds
    BY DEF HermesInit, Resting, ExporterHolds, StagedHolds
  <2> QED BY <2>1, <2>2, <2>3 DEF HermesInv
<1>2. HermesInv /\ [HermesNext]_hermesVars => HermesInv'
  <2> SUFFICES ASSUME HermesInv, [HermesNext]_hermesVars PROVE HermesInv'
    OBVIOUS
  <2>1. CASE UNCHANGED hermesVars
    BY <2>1 DEF hermesVars, HermesInv, HermesTypes, FilesHold, Written, RootHolds,
                ExporterHolds, StagedHolds
  <2> QED BY <2>1, StartStep, CollectProfileStep, ReplaceProfileStep, RemoveStep,
             ReplaceRootStep, DieStep DEF HermesNext
<1>3. HermesInv => ExportTellsItsAge
  BY DEF HermesInv, FilesHold, Written, RootHolds, ExportTellsItsAge
<1> QED BY <1>1, <1>2, <1>3, PTL DEF HermesSpec
=============================================================================
