# HardwareStatus in TLA+

HardwareStatus shows the state of a fleet of machines: agents on the devices report to a
Go server, over HTTPS (Device v2) or over a plain TCP session (legacy); the server keeps
the last report of each device, writes them to a state file, and serves a web page. This
directory holds a TLA+ model of the parts of it that are concurrent, survive crashes, or
retry; the configurations that check the model with TLC; and proofs, checked by TLAPS, of
some of its properties for any number of devices, goroutines and requests.

- [The system](#the-system): its parts, their state, and what makes each correct
- [The modules](#the-modules): how the state and the actions correspond to the code
- [The runs](#the-runs): what each shows, its bounds, and the fairness it assumes
- [The proofs](#the-proofs)
- [What the model found](#what-the-model-found)
- [What is not modelled](#what-is-not-modelled)
- [Plan](#plan)

Paths below are relative to the repository's `src/`.

## The system

### Server (`server/`, Go)

| Part | State | Operations | Hard because | Correct when |
|---|---|---|---|---|
| Device v2 ingestion, `device_ingestion.go` | `App.nodes`, `updateID` (atomic), one lock per device, `persistMu`, `nodeMu` | classify a request (newer, replay, conflict, stale), number it, write it, answer, or take it back | three locks in one order; the counter is also advanced outside all of them; a failed write may be visible already; the client retries | an answered report is not lost, not accepted twice, never overwritten by an older one; every request is answered |
| State file, `device_persistence.go` | the file and its backup | snapshot, write the backup, write the primary, each by rename and directory fsync; restore from either | power failure between rename and fsync; damage; a read that fails once | whatever comes back has all that was answered; one misread loses one write at most |
| Stats loop, `app.go` | dirty flag, `stats.json` | once a second writes the state file, and the snapshot readers see | races with commits for the same files | never undoes a commit; writes what legacy agents reported |
| Legacy agents, `tcp_server.go` | one goroutine and connection id per session | handshake, update, disconnect | an old session drains its socket beside a new one, after a reload | a superseded session is silent; generations are unique |
| Registry and reload, `device_runtime.go`, `app.go` | runtime derived from the configuration | copy the nodes to the new runtime | copies while reports are being committed | a restored observation is not shown as live |
| Device endpoint, `device_http_adapter.go` | none of its own | rate limit, authenticate, limit again, ingest, answer | one clock reading, used late | order of checks |
| Rate limiter, `device_rate_limit.go` | table of windows by key | `Allow`, cleanup | full table; idle entries; readings out of order | bounded table, bounded burst, honest `Retry-After` |
| Credentials, `device_credentials.go` | slots with validity windows | authenticate | rotation at the edges of windows | exactly one device answers to a credential |
| Configuration and admin API, `http_server.go`, `fileutil.go` | the document, its file and backups, `mutationMu` | replace, create, update, delete, reload, back up, prune, write | two administrators; errors and crashes in the middle; bind mounts, where no rename is possible; edits by hand | nothing answered is lost; changes add up; what is overwritten is kept |
| Certificate checks, `ssl.go` | `App.certs`, a goroutine per check | reconcile with the configuration, start what is due, finish | a certificate goes and comes back under a check in flight | no certificate is stuck "checking"; those checked are those configured |
| Extensions (`unifi_*.go`, `lucky_*.go`, `easytier_*.go`, `extension_*.go`) | none | decode, validate and normalise observations | many fields | total, bounded, sequential |
| Collection diagnostics, `collection_diagnostics.go` | entries per device | merge, bound | limits | bounded |
| Contracts (`contracts/`), OpenAPI | none | decode documents; static descriptions | ownership with a cutover time | one protocol owns a device at a time |

### Clients (`clients/`, Python), scripts (`scripts/`) and page

| Part | State | Operations | Hard because | Correct when |
|---|---|---|---|---|
| Device v2 client, `device_client_transport.py` | attempt, delay | collect, send, classify the answer, wait | answers are lost; requests arrive late; the clock steps | its own attempts do not shut each other out; it always comes back to reporting |
| Monitor threads, `install_monitor_definitions`, `_monitor_thread` | `monitorServer` under its lock, a thread per monitor | install a list, probe, record | threads outlive the list they were started for | a latency shown is the target's own; old threads end; never two |
| Legacy clients, `client-linux.py`, `client-psutil.py` | TCP session | measure and send every interval | reconnection | |
| Host collector, `host_collector.py` | a payload per domain in memory and in a status file; the transport each disk answered over; per-domain threads; the lock and backoff of UniFi | collect, store, wait; send copies | disks and bridges that fall silent or make up answers; hard limits on lists that refer to each other; a container that is killed; files that cannot be written | a verdict comes from an answer; a list is cut without dangling references; the first report is complete; every domain goes on |
| UniFi, `unifi_*.py` | the previous valid observation; previous samples of port counters | SSH passes and an API pass, normalised; a dozen endpoints under one deadline; rows of ports and WANs put together | refused credentials; one pass of several fails; rows come under several names and move | the account is not locked out; what is measured is shown with its date; "available" means it; a rate is one port's |
| EasyTier, Lucky, `easytier_collector.py`, `lucky_collector.py` | the previous traffic sample | a command or a request per list | each fails by itself; the instance restarts between two | a restart spoils one rate at most; a failure stays in its module |
| Hermes exporter, `export-hermes-status.py` | a file per profile and one for all, from the previous run | observe over API, command line, logs, configuration; fill from the previous file; replace the files | partial answers; a configuration that changes between runs; killed between two files | the age shown is that of the observation; a model belongs to its provider |
| Credential provisioning, `provision_device_credential.py` | record and token file | stage both, put the record, then the token in place | fails or is killed in between, over a rotation | the token in use stays valid |
| Stats migration, `migrate_stats_data.py`, `secure_file.py` | source, target | read, check, publish by a link | the server writes the source meanwhile; two runs; power failure | the target is one whole document, reported only when it is there |
| Release tools (`scripts/`) | none | validate, publish a candidate | sequential | |
| Web page (`web/js/app.js`) | last answer | poll and draw | answers out of order | the newest is shown |

Agents call the endpoint, which calls the limiter twice and then ingestion; ingestion and
the stats loop share the nodes, `persistMu` and the state file; legacy sessions share the
nodes and the counter; a reload, from the admin API or SIGHUP, replaces the runtime all of
them use and reconciles the certificates. A 202 carries the monitors the client installs.

The hazards of this code, at the lines where they bite, with the properties that watch
them, are the list `hazards` of `PROJECT.json`.

## The modules

| Module | Models | Notes |
|---|---|---|
| `StateFiles` | the two state files | each name holds what a process reads (`visible`) and the set of what power loss may leave (`survivors`); a directory fsync collapses the set |
| `DeviceServer` | ingestion, the stats loop, legacy sessions, reload, restart | composes `StateFiles` (`INSTANCE`); one action per critical section or file operation |
| `ReportStore` | abstract: what the server promises | `DeviceServer` implements it, see `ImplementsReportStore` |
| `RateLimiter` | `boundedRateLimiter` and the clock reading shared by its two calls | |
| `DeviceClient` | the client's retries against the server's replay decision | the server is one step here; its detail is in `DeviceServer` |
| `ClientMonitors` | monitor threads of the v2 mode | |
| `ConfigStore` | the configuration's file, backups and changes | composes `CertChecks` |
| `CertChecks` | which certificates exist and are being checked | |
| `HostExtensions` | the extension domains: first collection, threads, status files, kills | |
| `SmartTransport` | which transport a disk is read over, and what its answer means | the bridge in front of a disk is what it answers over each transport |
| `StorageInventory` | block-device graph, backing disks, the bounded list of disks | the walk below each file system's source takes a step for each turn of its loop; no module has a `RECURSIVE` operator |
| `UnifiTelemetry` | SSH and API passes, normalisation, lock and backoff | a measurement is the number of the acquisition it was taken in; `past`, what each acquisition gave, is history |
| `UnifiApi` | the endpoints of one API pass and the status of the whole | |
| `UnifiPorts`, `UnifiWans` | rows of ports with their rates; rows of WANs put together | history variables say whose counters and whose records a row holds |
| `EasyTierMonitor`, `LuckyMonitor` | the two command-line and HTTP observations | the rates whose counters are of two instances are counted in a history variable, `spoiled` |
| `HermesExport` | runs of the exporter over its files | a value is the run that observed it |
| `CredentialRotation` | runs of the provisioning tool | a token is its number |
| `StatsMigration` | runs of the migration beside a writing server | a file has a head and a tail, so that a torn reading shows |
| `MC*` | instances for TLC: definitions a `.cfg` cannot write, and symmetry sets | |
| `DeviceInvariants` | the inductive invariants of the server, shared by its proofs | TLC checked them before they were proved |
| `DeviceServerProofs`, `DurabilityProofs`, `GenerationProofs` | theorems about `DeviceServer`; the second also has the simulation of `ReportStore` | |
| `ConfigStoreProofs`, `RateLimiterProofs` | theorems about the module of the name | invariants stated beside the proofs |
| `ToolProofs`, `ClientProofs`, `CollectorProofs` | theorems about the tools, the clients, and the collectors with the exporter | likewise |

An operator with `Mutant:` above it is a plausible bug, never used by a specification: each
property is seen to fail when the definition it names is replaced by one of them.

### DeviceServer

`node[d]` is the entry of `App.nodes`: when the report was collected, its digest, its
generation, whether it was restored, and the legacy connection. `pc[p]` says where a
goroutine stands, so that the steps between two locks, and each write, rename and fsync,
interleave with all others. A handler passes `Begin`, `LockDevice`, `LockPersist`, then
under `nodeMu` one of `Refuse`, `PreflightFails` and `Accept`, and after `Accept` the writes
(`WriteBackup` or `SkipBackup`, `SyncBackup`, `WritePrimary`, `SyncPrimary`, or `WriteFails`)
and `Commit` or `TakeBackGeneration` and `Rollback`, all as in `ingestDeviceUpdateAt`. The
stats loop takes `persistMu`, reads the nodes under `nodeMu` (a reader) and makes the same
writes. `Connect`, `ReadUpdate`, `Ingest` and `Disconnect` are the legacy session, whose
counter increment holds no lock. `Kill` forgets memory; `PowerFailure` also lets each file
come back as any of its survivors; `Start` and `StartFromBackup` restore.

A report is its `collected_at` and digest. Parsing, authentication and validation happen
before any of this state is touched, so a handler begins where they passed. Readers of the
nodes never write and appear as what they could see (`ShownIsStored`).

### ConfigStore

A document is the set of its items, a certificate being one. `Lock` is `mutationMu`, held
from before the document is read until the request is answered. A write is
`CreateBackup`, `FillBackup` (with `pruneBackups`), `Rename` and `SyncDirectory`; on a
mounted file `Rename` meets EBUSY and `Truncate`, `Rewrite`, `SyncFile` follow. Only then
`Apply` replaces the document and `Answer` reconciles the certificates. `WriteFails` is an
error of any system call. `Edit` is an operator's editor, which does not hold the mutex.
The history variable `wanted` is the last document answered as written with all that
were asked for or edited in since: what "not behind" means when a request that failed may
still have reached the file.

### RateLimiter, DeviceClient, ClientMonitors

`RateLimiter` separates reading the clock (`Arrive`) from the call (`Grant`, `DenyLimit`,
`DenyFull`): the adapter asks the device limiter only when the body has arrived, so
readings come late and out of order, at most `MaxLag` ticks. Its history variable `granted`
records, for each key, the reading of every request that passed and the start of the
window it counted in. `DeviceClient` keeps times as
ages, which makes its state finite with no bound on time: a stamp older than anything the
server accepts needs no exact age. `ClientMonitors` has a thread own its entry only while
the generation agrees, as `_monitor_owned` tests under the lock.

### HostExtensions, SmartTransport, StorageInventory

`HostExtensions` follows `start()` through its domains in order (`mainPc`), then lets each
thread collect, store in memory, write a temporary file and rename it, while the main loop
sends what is in memory. `WriteError` is an unwritable directory, `KillCollector` a kill
anywhere; a payload is the life of the process that collected it and whether it is stale.

One step of `SmartTransport` collects all disks, as the hardware thread does; the answers
are records of what `smartctl` gave (a verdict in JSON or text, a lost return status, a
table of attributes, values without sense), and `SmartCandidates`,
`QualifySmartTransport` and `CollectSmartDevice` are the functions of the source. A scan is
made only where the code makes one (`ScanRuns`) and names any transport for any disk; the
limit on the disks a scan or a collection lists is left to `StorageInventory`.

`StorageInventory` begins with all that `smartctl`, `lsblk`, `findmnt` and `statvfs` say
(`host`), which a collection reads and nothing changes. `ProbeFilesystem` takes up the next
configured file system. Where its source is a listed block device the walk of
`resolve_backing_physical_disks` starts: each `VisitDevice` is one turn of its loop, on the
device pushed last, which is skipped (`Skip`: visited before, or too deep), found to be a
disk (`FindDisk`), or followed to what it is built on (`GoDeeper`); `FinishFilesystem`
records what was found. `CollectHardware` then selects the disks and assembles the report.
A list that the code cuts at a limit is the set of its first elements in an order
(`Foremost`): names for the disks of a file system; for the list of all disks `ReportOrder`,
which is the order in which `_physical_disk_ids_for_report` appends. The nodes are those of
the graph, which holds 256 at most, so the walk's own limit of 256 visits cannot cut.

### The UniFi modules

`UnifiTelemetry` has the scheduler and an immediate refresh ask for an acquisition, which
goes through the core SSH pass, the optional passes and the API pass, each with its own
outcome, to `Normalize` and `FinishAcquisition`, which sets the backoff. A pass that failed
shows the payload of the last success with the API observation of its own (`ApiOf`), and a
value that was refused shows it with the observation it had. `UnifiApi` walks
one pass request by request: what later requests are for is found in the answers to the
first, so a failure there leaves the rest unasked. `UnifiPorts` derives the rates of two
collections, between which the uplink moves, links and counters begin again and the
controller leaves out rows. `UnifiWans` merges records one by one, as `_merge_wans` does. The
branch of `_wans_and_uplinks` that does not merge (`unifi_api.py:964`) is for no further
records at all, and `_telemetry` always passes four lists (line 1467).

### EasyTierMonitor, LuckyMonitor, HermesExport

`EasyTierMonitor` runs the commands of a cycle one by one, and lets the instance restart
between any two: `node_info` may then name another instance than the one whose counters are
read (`of` in a sample is history). A restart always brings an identity of its own; an
EasyTier whose configuration fixes `inst_id` is not distinguished from itself by the code.
When each command last succeeded (`last_success_at`) is left out.

`LuckyMonitor` is one collection, each request failing by itself. Beside the failures that
`LuckyClient` turns into a `LuckyAPIError`, an answer may be `"unreadable"`: broken HTTP, or
a number that is infinite, over which the code raises something else. A module's own
endpoint is guarded against that, and so are the requests of the fallback for web services;
the version, info and status requests and the normalisation of a rule that was read
(`"spoiled"`) are not. There the exception leaves `collect` (`Raises`), and
`collect_lucky_once` shows its own payload (`InternalError`).

`HermesExport` has a run read the previous files, observe, and replace its files one after
the other, killed or out of space anywhere; `by` says where a provider came from. The first
page of the sessions is asked for a second time when it fails: its answer in the model is
the last of the two.

### CredentialRotation, StatsMigration

`CredentialRotation` stages two files and puts them in place, record first; `CommitFails`
leaves open how far the failing operation got and which of the tool's own files could be
removed. The history variable `careless` records that the operator wrote over the slot in
use, or for a window that is not open: no ordering could help then. `StatsMigration` reads
the source in two parts through one descriptor, compares it again before publishing, and
publishes by a hard link, which never replaces; two tools and two servers interleave.

## The runs

| Run | Shows | Bounds, and why they suffice |
|---|---|---|
| `durability` | `AcceptedSurvivesPowerLoss`: no power failure loses a report answered as accepted; `AnsweredSurvivesKill`: no kill loses any report answered; `ShownIsStored`: readers see nothing a restart would not; `MisreadLosesOneReport`: a misread of the primary falls back one write, no more | 2 devices, 2 handlers and the stats loop: the three writers that can overtake each other; one fault, kill, power failure and misread each, in every order; 2 collection times, so that an older and a newer report exist |
| `replay` | `NeverAcceptedTwice`, `ImplementsReportStore` | 1 device, 3 digests (equal, conflicting, mismatched) at 2 times, 2 handlers: a retry concurrent with its first attempt, across failure and restart |
| `legacy` | `GenerationHeadroom`, `GenerationsDistinct`, `LiveMeansReportedSinceStart`, `SupersededConnectionSilent` | a v2 handler with 2 sessions of a legacy device: the three that advance the counter |
| `progress` | `RequestAnswered`, `LegacyEventuallyStored` | no crash; one I/O error |
| `clients` | `AttemptsSupersede`, `ReportingResumes` (the reports), `OneThreadEach`, `LatencyOfCurrentTarget`, `ReplacedThreadsEnd` (the monitors), `FirstPayloadComplete`, `DomainsKeepCollecting` (the domains) | the three parts share no state and run one at a time (`part`). Reports: three clock offsets, lost, late and refused requests, restarts; small delays in the order of the real ones. Monitors: one name, whose target changes, goes and comes back: names are independent of each other, as the proofs show. Domains: two, in every configuration, over two lives |
| `components` | one invariant or two for each of twelve parts, below | the parts share no state and run one at a time |
| `config` | `NeverBehindAnswered`, `TornIsRecoverable`, `OverwrittenIsKept`, `ChangesAddUp`, `NoCertStuck` | 2 goroutines, a certificate and a server, 2 troubles (error, kill, power failure, edit) in any order; 2 backups kept stand for 10: pruning happens from the third write |
| `replay_answer`, `smart_hints`, `hermes_pairing`, `config_backup`, `config_size` | the five findings | the smallest instances that show them |

The parts of `components`:

| Part | Shows | Bounds, and why they suffice |
|---|---|---|
| limiter | `BurstBounded`, `RetryHonoured` | 2 keys for 1 entry, three windows of time, readings up to a window late. What may pass in one window's length is `3*Limit - 2`, which this instance reaches; with no lateness it would be `2*Limit - 1`, the known bound of a fixed window |
| SMART | `NoInventedVerdict`, `SilentTransportReplaced` | 2 disks behind 3 kinds of bridge, one replaced; every scan, disks asleep in any cycle |
| storage | `BackingIsComplete`, `InventoryWithinBounds` | RAID and LVM over partitions, NVMe, USB and zram, stacked, crossed and in a cycle; 2 disks listed at most, 2 for a file system and 2 levels walked, so that all the limits cut |
| UniFi | `RefusedCredentialsRest`, `ShownIsDated` | 3 acquisitions of 2 callers, one for each of two backoff delays after the first: a success, a failure with an API observation and a refused value follow each other; the theorems have no bound |
| UniFi API | `AvailableMeansAll` | every request answered, missing (404) or failed; two WAN groups; lists of sites and devices that name none, one or two |
| ports | `PortRatesOfOnePort` | models with an uplink port, with one port, and unknown; 2 rows, 2 changes and 3 instants |
| WANs | `WansKeptApart` | two WANs and a device, five sets of names, from none to all, that each endpoint may know them by |
| EasyTier | `RestartSpoilsOneRate` | 2 instances, 2 networks, a command of each kind: the restart falls between any two commands or cycles, and a rate is spoiled |
| Lucky | `FailuresStayInModules` | any of the requests fails or cannot be read; up to four rules, one of them spoiled |
| Hermes | `ExportTellsItsAge` | 2 profiles, registered twice and not at all, 2 runs that are killed or fail anywhere, six kinds of observation |
| provisioning | `TokenAccepted` | 4 runs of the tool: both slots rotate and rotate back |
| migration | `MigratedWhole` | 2 runs of the tool, the source replaced or rewritten once, a new server, a power failure |

Deadlock is not checked where the system really stops, or where the bound of a clock or
counter ends a run; each `.cfg` says which.

Symmetry is used in runs with safety properties only (`replay`'s refinement is a safety
property: `ReportStore` states no fairness), over devices, handlers, digests and
goroutines, which the code tells apart by nothing but identity. `Mismatched` digests are not
permuted with others.

**Fairness.** `progress` assumes that each goroutine that has taken up a request, and the
stats loop, runs on (strong fairness of its next step: the scheduler runs it, and a mutex
that is free again and again is obtained, since Go's mutexes hand over to a waiter after a
millisecond), and that a server that is down is started. No request or session has to
arrive, and faults are bounded but may come at any time. `clients` states the fairness of
the part that runs. Reports: time passes, the client's process runs and, once `calm`, the
server answers what reaches it; losses stop then, which `CalmDown` states and no earlier
step assumes. Monitors: a thread that sleeps or probes returns (the connection has a
timeout of a second), whichever other threads run. Domains: a collection, a file operation
and an interval come to an end (every command and request of a collector has a timeout);
each domain's thread is fair by itself, so none waits for another.

## The proofs

TLAPS checks the theorems below for every value of the constants that meets the `ASSUME` of
the module; TLC checks the same formulas on the instances above, and evaluates each `ASSUME`
there. No step is left unproved.

**What is assumed** of the constants, beyond that bounds are natural numbers and sets that
stand for different things are disjoint:

- The server's Device v2 devices are finitely many: they come from a file.
- The limiter: a request reaches it at most a window late, and an idle entry is kept for a
  window and twice that lateness (`MaxLag <= Window`, `TTL >= Window + 2*MaxLag`). In the
  code a window is a minute, an entry is kept for ten, and a request has thirty seconds to
  be read.
- The client's clock is off by less than the skew the server accepts, less a read timeout.
- A USB bridge passes on the disk's own verdict, or admits that it has none and has no
  table of attributes in its stead (`Honest`): what the collector has to trust.
- The optional UniFi requests have names of their own; a UniFi model has finitely many
  ports, the uplinks among them, and no port or row 0.
- Two WANs, or a WAN and a device, are known by no common value, and no device is named like
  a WAN: with such names the code puts them in one row.
- Lucky's requests fail in the ways the code tells apart, and rows, rules and certificates
  are of the kinds it does.
- No Hermes profile is named like the summary's own file.
- Names of block devices differ. `lsblk` names one of the devices a node is built on, and a
  partition is built on one at most. A node of `height` `MaxDepth` at most is higher than
  all it is built on: the length of the longest path below it is such a height, and a node
  in a cycle or on too high a stack has any greater one, so no graph is excluded.

| Theorem | States | By |
|---|---|---|
| `DeviceServerProofs!TypeCorrect`, `LocksCorrect` | `[]TypeOK`; `persistMu` and `nodeMu` are held exactly where the code runs under them, so one goroutine at a time writes the files | `LockInv` |
| `DurabilityProofs!AcceptedDurable`, `MisreadsCostOneEach` | `[]AcceptedSurvivesPowerLoss`, `[]MisreadLosesOneReport` | `DurabilityInv` |
| `DurabilityProofs!ShownDurable`, `AnsweredDurable` | `[]ShownIsStored`, `[]AnsweredSurvivesKill` | `ShownKept`, `AnsweredKept`, over `DurabilityInv` |
| `DurabilityProofs!AcceptedInOrder` | `NeverAcceptedTwice` | `DurabilityInv` |
| `DurabilityProofs!ReportStoreImplemented` | `[](misreads = 0) => ImplementsReportStore` | each action is a step of `ReportStore` or a stutter |
| `GenerationProofs!CounterAhead`, `NumberedOnce` | `[]GenerationHeadroom`, `[]GenerationsDistinct` | `GenerationInv` |
| `GenerationProofs!LiveAfterReport`, `SupersededSilent` | `[]LiveMeansReportedSinceStart`, `SupersededConnectionSilent` | `BootInv`, `SourceInv` |
| `RateLimiterProofs!LimiterTypeCorrect`, `LimiterCapacityBounded` | `[]TypeOK`, `[]CapacityBounded` | the table's keys are finite and at most `Capacity` |
| `RateLimiterProofs!LimiterBurstBounded`, `LimiterRetryHonoured` | `[]BurstBounded`, `RetryHonoured` | `BurstInv`, `PromiseInv` |
| `ConfigStoreProofs!ConfigNeverBehind`, `ConfigChangesAddUp`, `ConfigCertsFollow`, `ConfigNoCertStuck` | `[]NeverBehindAnswered`, `ChangesAddUp`, `[]CertsFollowDocument`, `[]NoCertStuck` | `ConfigInv` |
| `ConfigStoreProofs!ConfigTornRecoverable`, `ConfigOverwriteKept` | `[]TornIsRecoverable`, `OverwrittenIsKept` | `BackupsRecover`, `OverwriteBacked`, over `ConfigInv` |
| `ToolProofs!RotationTokenAccepted`, `MigrationWhole` | `[]TokenAccepted`, `[]MigratedWhole` | `RotationInv`, `MigrationInv` |
| `ClientProofs!MonitorsOneThreadEach`, `MonitorsLatencyOfCurrentTarget` | `[]OneThreadEach`, `[]LatencyOfCurrentTarget` | `MonitorInv` |
| `ClientProofs!RunnerAttemptsSupersede`, `ExtensionsFirstComplete` | `[]AttemptsSupersede`, `[]FirstPayloadComplete` | `ClientInv`, `ExtensionInv` |
| `CollectorProofs!UnifiRefusedRest`, `UnifiShownIsDated` | `[]RefusedCredentialsRest`, `[]ShownIsDated` | `BackoffInv`, `DatesInv` |
| `CollectorProofs!UnifiAvailableMeansAll`, `UnifiPortRates` | `[]AvailableMeansAll`, `[]PortRatesOfOnePort` | `ApiInv`, `PortsInv` |
| `CollectorProofs!SmartNoInventedVerdict`, `SmartSilentReplaced` | `[]NoInventedVerdict`, `[]SilentTransportReplaced` | `SmartInv` |
| `CollectorProofs!EasyTierSpoilsOneRate`, `HermesFilesTellTheirAge` | `[]RestartSpoilsOneRate`, `[]ExportTellsItsAge` | `EasyTierInv`, `HermesInv` |
| `CollectorProofs!StorageBackingComplete`, `StorageInventoryWithinBounds` | `[]BackingIsComplete`, `[]InventoryWithinBounds` | `StorageInv`, and the lemmas on `Foremost` |
| `CollectorProofs!UnifiWansApart`, `LuckyFailuresStay` | `[]WansKeptApart`, `[]FailuresStayInModules` | `WansInv`; a lemma for each module of a collection |

The types of the server and of the limiter, the limiter's capacity and the certificates of
the document are proved and no longer run: the theorems cover every instance. A component
whose theorem is about its own specification (`UnifiSpec`, `RotationSpec` and the like)
takes part in its run with the same initial condition and the same steps.

### The server

*`LockInv`* adds to the types where each goroutine may stand (`Placed`) and that a lock's
holder is exactly the goroutine in the section it guards (`LocksHeld`). Types alone are not
inductive: that a snapshot being written is a document depends on who may be writing.

*`GenerationInv`.* That generations are distinct is not preserved by itself: a failed commit
gives a number back, and a restart loads numbers from a file. The invariant adds that the
files, their survivors and the documents being written number their devices apart
(`FilesApart`), and that the number a handler may give back is nobody else's, nor is the
older one it would restore (`TakeBackSafe`). This is where the compare-and-swap matters:
when a legacy update has advanced the counter meanwhile, nothing is given back.
*`BootInv`* compares with `bootID`, the counter as it was restored: a node is marked as
restored exactly if its generation is not past that (`Marked`), and so is the node a
rollback would bring back. *`SourceInv`*: a connected node has the newest connection that
has reported.

*`DurabilityInv`.* What may be short of the answered reports is counted in devices
(`Behind`, `FewBehind`), since each misread of the primary may cost one. `FilesCurrent`
bounds it for everything a power failure may leave: the primary by the misreads there were,
the backup by one more, and by no more than the primary while the primary is corrupt or
about to be replaced, when the backup is what a restart would find. `FilesKept` says which
files can be missing or corrupt at all; `NodesCurrent` bounds the nodes, and the nodes as
they are once a commit in progress has failed (`Fallback`): a rollback must not lose more
than the failed report. `CommitForward` and `WriteProgress` tie the document being written
to the nodes, which nobody else changes under `nodeMu`, and to the stage of the write.
*`ShownKept`* and *`AnsweredKept`* relate the same fallback nodes to the files as a killed
process leaves them. The simulation of `ReportStore` uses the invariant where a restart
or a rollback must be a stutter; its hypothesis, that no read of the primary fails, is the
one under which `ReportStore`'s promise is meant: a misread takes a report back.

### The configuration

*`ConfigInv`.* `RequestSound` relates the document of a request to the one in force for as
long as `mutationMu` is held: whence `ChangesAddUp`. `WriteReached` says what each stage of
the write has established: after the fsync nothing but the request's document, or an edit
made since, can be in the file, so that answering may forget all older ones. `CertsSound`
excuses the certificates between `Apply` and `Answer` only. *`BackupsRecover`*: a torn file,
or one that is being rewritten, has a whole backup no older than what must not be lost, and
only torn backups were made after it, each counted (`Recoverable`); so the ones that were
pruned came before it. *`OverwriteBacked`*: from the filling of a backup on, it holds what
the file holds, unless somebody has edited it during the write.

### The limiter

*`PromiseInv`*: an entry's window ends before the key was told to come back. A denial does
not move the window, and a reading older than the window's start finds it still open.

*`BurstInv`* says of each key that the windows its requests counted in lie a window apart,
that each begins with the reading of its first request, that no window counts more than
`Limit`, and that a window whose entry was deleted is over for all readings still to come.
A stretch of one window's length then meets three windows at most, and of the first and
the last not everything: hence `3*Limit - 2`. The last part is where `TTL` matters. A denied
request with an old reading moves `lastSeen` back, so an entry may be deleted earlier than
`TTL` after it was last used. With `TTL >= Window + MaxLag` only, TLC finds a window deleted
while it runs (`Limit` 1, `Window` 3, `TTL` 5, `MaxLag` 2) and a key that passes more often;
the code's ten minutes are far from it.

### Tools and clients

*`RotationInv`.* A run of the tool removes only files it made. With a device in service the
record was there when the run began, so it is never removed (`RunIsSafe`); the slot written
is not the one in use; and from the moment the record is in place it holds both the token
of the client's file and the one to come, so that the second rename may happen or not.

*`MigrationInv`.* A source is rewritten front to back, so what a half has held is
remembered by its stamp: that the status of the file is the same before the two readings
and after them (`ReadingSound`) makes both halves those of one document, and a target, once
linked, is never another (`TargetSound`).

*`MonitorInv`.* A new monitor gets a number no thread has (`NumbersPast`), so a thread that
owns a monitor was started for it; hence at most one does, and it measures the installed
target (`OwnersAreRight`), which is what a recorded latency needs.

*`ClientInv`.* The attempt whose answer is awaited is at most a read timeout old
(`AwaitedIsRecent`), and an attempt's stamp is newer than those of all requests of this
client still under way (`StampsIncrease`), while its clock does not step back.
*`ExtensionInv`*: when `start()` has passed a domain, the domain was collected in this life
(`StartHolds`); nothing afterwards takes a payload back to an earlier life.

### Collectors

*`BackoffInv`.* The time of the next attempt is at least the last refusal plus the delay of
its place in the streak, and a caller that holds the collection lock began after it: the
lock is what keeps a second caller from having read the clock before the refusal.
*`DatesInv`* says of the payload kept for a failure that it is the one its acquisition gave
(`KeptIsLast`), which a failure shows again in part, and that the acquisition under way is
the next of those that ended: the lock again, without which a number could be used twice.

*`ApiInv`*: the required requests come in a fixed order, so a status that depends on the
first failure depends on all of them (`RequiredInOrder`). *`PortsInv`*: a sample kept for a
port is of one row, with the counters of then (`ValidSample`); with `RowFor`, which finds
the row a port's counters come from, a rate is of two samples of one row unless the history
says that rows were mixed. *`WansInv`*: a row is of one WAN and has no name but that WAN's. Of a WAN
whose records are named steadily there is no row before its first record, and after it
exactly one, with all the names that record had: so every later record finds it. A WAN
named differently by different endpoints may have two rows, until a record with both names
comes, and after it: the code joins the first only. *`SmartInv`*: a disk has been silent over its cached transport
for no more cycles than the cache has counted failures, and an entry whose count reaches
the threshold is not kept. *`EasyTierInv`* orders the
instances met in a cycle: the baseline's counters are of an instance no later than the one
`node_info` names, and that one is no later than the one whose counters are read. A name
that equals the baseline's so leaves no room for a restart before it; and since a spoiled
rate moves the baseline to a later instance, `spoiled` stays below the number of the
baseline's instance, whatever else fails. *`HermesInv`*: the profiles of a run differ in name,
each file and each part of the summary holds what was last observed of its profile, the
file staged is the next to be put in place, and for a profile the run has not reached yet,
the last fresh observation is of an earlier run.

*`StorageInv`* follows the walk. What it has visited, or has yet to visit, lies in every set
that holds the source and is closed under what its members are built on (`WalkIsSound`), so
no disk is found that is not below. The other half needs sysfs: all that a visited device
is built on was visited or awaits its visit (`WalkIsWhole`), so when nothing awaits, the
visited devices are such a set themselves and all disks below are among them. A walk that
goes down before it goes sideways may reach a device by a long path first, and forgets its
depth once it is visited; so `WalkIsWhole` bounds the depth of what awaits, plus its height,
by the height of the source, and a device is skipped for its depth only where the stack is
higher than the walk goes. A device that `lsblk` lists as a disk ends the walk and stands
for itself, whatever it is built on. For the list, `ReportOrdered` shows that `ReportOrder`
is a strict order of what may be listed, and `ForemostCount` that the first elements of a
finite set in such an order are as many as the limit or all of them, and that none is left
out before one that is taken: whence who is cut.

### Only checked with TLC

- Liveness: `RequestAnswered`, `LegacyEventuallyStored`, `ReportingResumes`,
  `ReplacedThreadsEnd`, `DomainsKeepCollecting`. Fairness and `ENABLED` are beyond the prover.
- The five refuted properties of [What the model found](#what-the-model-found).

## What the model found

1. **A replay is answered before it is durable** (`replay_answer`,
   `server/device_ingestion.go:238`). A commit answers 202 only after the directory fsync;
   a replay is answered 202 from memory. If the process is killed after the rename but
   before the fsync, the restarted server restores the report, the client's retry is
   answered 202, and power lost before the first write of the new process undoes the rename.
   That write is asked for at start (`wakeStatsWriter` in `StartBackground`), so the window
   is short, and longer only while writes fail.
2. **The configuration's backup is not durable when the file is truncated**
   (`config_backup`, `server/fileutil.go:106`), though the comment there says so: the
   backup's content is fsynced, its name is not.
3. **A document can grow past what is read back** (`config_size`, `server/fileutil.go:43`):
   the limit holds for reading only. Once exceeded, changes, reloads and the next start all
   fail.

4. **Scan hints stop at the first qualified disk** (`smart_hints`,
   `clients/host_collector.py:1314`). The comment says hints are no longer asked for "once
   all configured path-only targets have a qualified transport"; the code tests that any
   has, so a disk that only answers to the type a scan names is never read once another
   disk is known.
5. **A configured provider is shown with another's model** (`hermes_pairing`,
   `scripts/export-hermes-status.py:1176`), against the comment above the code: a provider
   observed without a model is exported with the model kept from the previous run, and this
   pair is taken for compatible when the provider is configured.

Modelling also met these, which no run refutes a promise with.

- *UniFi.* A stale payload mixes acquisitions: after a core pass that failed it shows the
  API observation of now beside the measurements and the date of then, and after a refused
  value the older observation again. An API pass that fails after a good core pass leaves
  no observation at all in a payload that is not stale (`clients/unifi_normalizer.py:416`),
  where `docs/design/UNIFI_MONITORING.md:45` says of TLS and transport failures that they
  keep a valid snapshot and mark the domain stale. `ShownIsDated` states what is shown.
- *EasyTier.* A restart between `node_info` and `stats_show` of a cycle, or one between two
  cycles in which `node_info` failed, yields a rate over the counters of two instances when
  the new ones have caught up: once for each restart at most, as `RestartSpoilsOneRate` says.
- *Lucky.* One infinite number in the status, or broken HTTP there or in the version or info
  request (`clients/lucky_collector.py:827-853`), or an infinite number in a rule of the
  fallback (line 809), loses all modules of the collection; the payload shown instead
  (`clients/host_collector.py:2338`) has the modules of a Lucky that is not configured
  beside the error. `FailuresStayInModules` holds up to these, which it names.

Smaller ones: two rows of a UniFi device may be taken for one port when its uplink moves;
a killed exporter or collector leaves temporary files, a killed migration one that makes
the next run refuse the directory; a token written over the slot in use locks the device
out when the tool stops between its two files. A profile named `hermes` has the summary's
own file, `hermes.json`, as its file; the proof needed this excluded (`HermesAssumption`),
and the exporter does not exclude it (`scripts/export-hermes-status.py:1311`). The proof
of the limiter's bound showed that it rests on how long idle entries are kept: see
`BurstInv` under [The proofs](#the-proofs).

## What is not modelled

- Parsing and validation of reports and documents, and of single fields of observations:
  sequential and total; a model would repeat them. They appear as inputs that passed, or as
  the kinds of outcome the control flow tells apart.
- The server's decoding of the extension domains, their diagnostics, and the contracts.
- Authentication of devices and administrators, TLS and the reading of protected files:
  library and system calls.
- The content of `stats.json`, traffic accounting and the page.
- Entries of the state file that no longer belong to a device (orphans): every entry of a
  readable document restores.
- Names of backups under a clock that steps back: names are taken to increase.
- The legacy TCP session of the clients, its monitors without generations, and the clients'
  own measurements.
- Sensors, UPS and the static catalogue of UniFi models and profiles.
- The release tools, which validate and copy once, in sequence.
- Read-only routes, OpenAPI, deployment files, the vendored UniFi catalogue.

## Plan

In this order; each adds a module or extends one, with a run and, where it pays, a proof.

1. Orphaned entries: quarantine, their limit, and the return of a device.
2. The device lifecycle: `LastSeen`, offline, with the ordering of late readings.
3. The legacy client's session, its monitors and its countdown; traffic counters and the
   monthly reset.
4. The server's decoding of the domains, and their age when they are read; the lookup of
   credentials; protocol ownership with its cutover.
5. The rest of the UniFi normaliser: the counters of fans and disks, storage, alarms.
6. The page's polling and the models it draws.
