--------------------------- MODULE SmartTransport ---------------------------
(***************************************************************************)
(* SMART readings of the disks of a host (src/clients/host_collector.py).  *)
(*                                                                         *)
(* smartctl reads a disk over one of several transports, and which of them *)
(* the bridge in front of the disk speaks is not known.  On a Synology     *)
(* host the collector probes transports in a fixed order, keeps the first  *)
(* that yields a verdict in a cache, and drops a cached transport after    *)
(* repeated silence.  A step collects every target once, as the hardware   *)
(* thread does; between two steps a disk may be put behind another bridge, *)
(* and in a step it may be asleep and answer nothing.                      *)
(***************************************************************************)
EXTENDS Integers, Sequences, FiniteSets, SequencesExt

CONSTANTS
    Disks,        \* paths of the disks of the host
    Hints,        \* transports only a scan can name, beside sat, ata and scsi
    Bridges,      \* bridges: what smartctl answers over each transport
    TrueHealth,   \* the verdict of the disk itself
    MaxSwaps      \* bound on the bridges replaced

VARIABLES
    bridge,       \* the bridge in front of each disk
    swaps,        \* bridges replaced so far
    setup,        \* how the collector is configured and what the host is
    transportCache, \* _smart_transport_cache
    smartShown,   \* what the last collection reports for each disk
    silent        \* collections in a row, up to Threshold, that read nothing
                  \* of a disk that would answer

smartVars == <<bridge, swaps, setup, transportCache, smartShown, silent>>

AnyType == ""                       \* no -d option: smartctl chooses itself
Generic == <<"sat", "ata", "scsi">>
Types == Range(Generic) \cup Hints \cup {AnyType}
Verdicts == {"passed", "failed"}
Threshold == 2                      \* SMART_TRANSPORT_CACHE_FAILURE_THRESHOLD
Nothing == "none"

-----------------------------------------------------------------------------
(* One target over one transport. *)

\* Nothing in the JSON document nor in the text can be used.
NoAnswer == [json |-> Nothing, text |-> Nothing, incomplete |-> FALSE,
             table |-> FALSE, values |-> "valid"]

\* The text's verdict comes before that of the JSON document.
SmartHealth(answer) ==
    IF answer.text \in Verdicts THEN answer.text
    ELSE IF answer.json \in Verdicts THEN answer.json ELSE "unknown"

\* What the collector must trust: a bridge passes on the disk's own verdict, or owns
\* that it could not get a return status and has no table to show instead.
Honest(answer) ==
    SmartHealth(answer) \in Verdicts \ {TrueHealth} => answer.incomplete /\ ~answer.table

ASSUME SmartAssumption == \A b \in Bridges, type \in Types : Honest(b[type])

\* Mutant: a verdict is taken without the table.
AttributeFallbackNoTable(answer) == answer.incomplete /\ SmartHealth(answer) \in Verdicts

\* A table of attributes stands in for a return status the bridge cannot give.
AttributeFallback(answer) ==
    answer.incomplete /\ answer.table /\ SmartHealth(answer) \in Verdicts

NotRead == [smart |-> Nothing, health |-> "unknown", completeness |-> "unavailable",
            error |-> "smartctl_unavailable"]

CollectSmartCandidate(answer) ==
    LET fallback == AttributeFallback(answer)
        health == IF answer.incomplete /\ ~fallback
                  THEN "unknown" ELSE SmartHealth(answer)
    IN  IF answer.json = Nothing /\ answer.text = Nothing THEN NotRead
        ELSE [smart |-> "read", health |-> health,
              completeness |->
                 IF fallback THEN "partial"
                 ELSE IF health \in Verdicts THEN "complete" ELSE "unavailable",
              error |->
                 IF answer.values = "nosector" THEN "sector_size_unknown"
                 ELSE IF answer.values = "invalid" \/ health \notin Verdicts
                 THEN "smart_value_invalid"
                 ELSE IF fallback THEN "smart_return_status_unavailable" ELSE Nothing]

ProbeIsUsable(probe) ==
    /\ probe.health \in Verdicts
    /\ \/ /\ probe.completeness = "complete"
          /\ probe.error \in {Nothing, "smart_value_invalid", "sector_size_unknown"}
       \/ /\ probe.completeness = "partial"
          /\ probe.error \in {"smart_return_status_unavailable",
                              "smart_value_invalid", "sector_size_unknown"}

AvailabilityFailure(probe) == probe.error = "smartctl_unavailable"

Probe(disk, type, awake) ==
    CollectSmartCandidate(IF disk \in awake THEN bridge[disk][type] ELSE NoAnswer)

Reported(probe, type, how) ==
    [health |-> probe.health, completeness |-> probe.completeness,
     error |-> probe.error, effective |-> type, how |-> how]

NotCollected == Reported(NotRead, Nothing, Nothing)

-----------------------------------------------------------------------------
(* Which transport. *)

\* The hint is tried after sat and ata, before scsi, and once.
TransportCandidates(hint) ==
    LET generic == <<"sat", "ata">>
    IN  generic \o (IF hint \in {AnyType} \cup Range(generic) THEN <<>> ELSE <<hint>>)
                \o (IF hint = "scsi" THEN <<>> ELSE <<"scsi">>)

CacheEntry(type, streak) == [type |-> type, streak |-> streak]
NoEntry == CacheEntry(Nothing, 0)

\* Every candidate in turn up to the first usable one; with none usable, the
\* last that answered at all, else the last.
ProbeAll(disk, hint, awake) ==
    LET types == TransportCandidates(hint)
        probe(i) == Probe(disk, types[i], awake)
        usable == {i \in DOMAIN types : ProbeIsUsable(probe(i))}
        answered == {i \in DOMAIN types :
                        probe(i).error \notin {Nothing, "smartctl_unavailable"}}
        first == CHOOSE i \in usable : \A j \in usable : i <= j
        last == IF answered = {} THEN Len(types)
                ELSE CHOOSE i \in answered : \A j \in answered : j <= i
    IN  IF usable # {}
        THEN [shown |-> Reported(probe(first), types[first], "qualified_probe"),
              entry |-> CacheEntry(types[first], 0)]
        ELSE [shown |-> Reported(probe(last), Nothing, Nothing), entry |-> NoEntry]

\* Mutant: a transport once qualified is kept for good.
QualifyForGood(disk, hint, awake) ==
    LET entry == transportCache[disk] IN
    IF entry = NoEntry THEN ProbeAll(disk, hint, awake)
    ELSE [shown |-> Reported(Probe(disk, entry.type, awake), entry.type, "cached_probe"),
          entry |-> entry]

QualifySmartTransport(disk, hint, awake) ==
    LET entry == transportCache[disk]
        cached == Probe(disk, entry.type, awake)
        kept(streak) == [shown |-> Reported(cached, entry.type, "cached_probe"),
                         entry |-> CacheEntry(entry.type, streak)]
    IN  IF entry = NoEntry THEN ProbeAll(disk, hint, awake)
        ELSE IF ProbeIsUsable(cached) THEN kept(0)
        ELSE IF ~AvailabilityFailure(cached) THEN kept(entry.streak)
        ELSE IF entry.streak + 1 < Threshold THEN kept(entry.streak + 1)
        ELSE ProbeAll(disk, hint, awake)

-----------------------------------------------------------------------------
(* Which targets. *)

\* The transport a scan names for a disk; AnyType when it names none, does not list
\* the disk or fails.  A host has no more disks than a scan may list.
Scans == [Disks -> Types]

\* The targets and the hint for each.  Configured paths are the allowlist: a
\* scan only adds a transport to a path given without one.  Else the disks
\* scanned, those mounted and those with a device node.
SmartCandidates(scan) ==
    IF setup.explicit
    THEN [d \in DOMAIN setup.types |->
             IF setup.types[d] # AnyType THEN setup.types[d] ELSE scan[d]]
    ELSE scan

\* The configured paths alone, with no scan.
ExplicitSmartCandidates == setup.types

Cached == {d \in Disks : transportCache[d] # NoEntry}

\* Discovery scans every time, an allowlist only for a path given without a transport
\* and while no transport is cached.
ScanRuns ==
    setup.explicit => Cached = {} /\ \E d \in DOMAIN setup.types : setup.types[d] = AnyType

Candidates(scan) ==
    IF setup.explicit /\ Cached # {}
    THEN ExplicitSmartCandidates
    ELSE SmartCandidates(scan)

\* A configured transport is never replaced by a hint.
CollectSmartDevice(disk, hint, awake) ==
    LET plain(type, how) == [shown |-> Reported(Probe(disk, type, awake), type, how),
                             entry |-> transportCache[disk]]
    IN  IF setup.explicit /\ setup.types[disk] # AnyType
        THEN plain(setup.types[disk], "explicit")
        ELSE IF setup.synology THEN QualifySmartTransport(disk, hint, awake)
        ELSE plain(hint, Nothing)

\* The disk would give a verdict over a transport the collector tries unasked.
WouldAnswer(disk, awake) ==
    \E type \in Range(Generic) : ProbeIsUsable(Probe(disk, type, awake))

CollectSmartDevices(scan, awake) ==
    LET candidates == Candidates(scan)
        result == [d \in DOMAIN candidates |->
                      CollectSmartDevice(d, candidates[d], awake)]
    IN  /\ transportCache' = [d \in Disks |-> IF d \in DOMAIN candidates
                                 THEN result[d].entry ELSE transportCache[d]]
        /\ smartShown' = [d \in Disks |-> IF d \in DOMAIN candidates
                             THEN result[d].shown ELSE NotCollected]
        /\ silent' = [d \in Disks |->
              IF /\ d \in DOMAIN candidates
                 /\ WouldAnswer(d, awake)
                 /\ AvailabilityFailure(result[d].shown)
              THEN silent[d] + (IF silent[d] < Threshold THEN 1 ELSE 0)
              ELSE 0]
        /\ UNCHANGED <<bridge, swaps, setup>>

-----------------------------------------------------------------------------

\* The allowlist of paths, some with a transport, or automatic discovery.
Setups ==
    [explicit : {TRUE}, synology : BOOLEAN, types : [Disks -> {AnyType, "sat"}]]
    \cup [explicit : {FALSE}, synology : BOOLEAN, types : {<<>>}]

SmartInit ==
    /\ bridge \in [Disks -> Bridges]
    /\ setup \in Setups
    /\ swaps = 0
    /\ transportCache = [d \in Disks |-> NoEntry]
    /\ smartShown = [d \in Disks |-> NotCollected]
    /\ silent = [d \in Disks |-> 0]

\* A disk is put behind another bridge.
SwapBridge(disk) ==
    /\ swaps < MaxSwaps
    /\ swaps' = swaps + 1
    /\ \E b \in Bridges : bridge' = [bridge EXCEPT ![disk] = b]
    /\ silent' = [silent EXCEPT ![disk] = 0]
    /\ UNCHANGED <<setup, transportCache, smartShown>>

SmartNext ==
    \/ \E scan \in IF ScanRuns THEN Scans ELSE {[d \in Disks |-> AnyType]},
          awake \in SUBSET Disks : CollectSmartDevices(scan, awake)
    \/ \E disk \in Disks : SwapBridge(disk)

SmartSpec == SmartInit /\ [][SmartNext]_smartVars

-----------------------------------------------------------------------------

\* A verdict shown for a disk is the disk's own, whatever bridge stands before
\* it: one that cannot return a status and makes one up is not believed, and no
\* transport is kept on the strength of such a verdict.
NoInventedVerdict ==
    \A d \in Disks :
        smartShown[d].health \in Verdicts => smartShown[d].health = TrueHealth

\* A disk that would answer over a transport probed unasked is not reported
\* unavailable twice in a row, although the cached transport has gone silent:
\* the cache of one disk never hides the disk for longer than the threshold.
SilentTransportReplaced ==
    setup.synology => \A d \in Disks :
        (setup.explicit => setup.types[d] = AnyType) => silent[d] < Threshold

\* "Once all configured path-only targets have a qualified transport, use the
\* cache directly and avoid repeating scan hints" (collect_smart_devices,
\* src/clients/host_collector.py): a configured disk with no transport of its
\* own, none qualified yet, is read over the one a scan names for it.
HintsUntilAllQualified ==
    [][\A scan \in Scans, awake \in SUBSET Disks :
          /\ setup.explicit /\ setup.synology
          /\ CollectSmartDevices(scan, awake)
          => \A d \in Disks :
                /\ setup.types[d] = AnyType /\ transportCache[d] = NoEntry
                /\ scan[d] \in Hints /\ ProbeIsUsable(Probe(d, scan[d], awake))
                => smartShown'[d].health \in Verdicts]_smartVars

=============================================================================
