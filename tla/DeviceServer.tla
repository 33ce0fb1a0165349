---------------------------- MODULE DeviceServer ----------------------------
(***************************************************************************)
(* Ingestion and durability in the multi-device server: the HTTP handlers  *)
(* that accept Device v2 reports (src/server/device_ingestion.go), the     *)
(* stats loop that rewrites the state file every second (app.go), the      *)
(* legacy TCP connections that share the same nodes and the same update    *)
(* counter (tcp_server.go), config reloads, and crashes of the process or  *)
(* of the machine followed by a restart from the state file.               *)
(*                                                                         *)
(* Modelled: the three locks (one per device, persistMu, nodeMu) with the  *)
(* order in which each goroutine takes them, replay classification, the    *)
(* generation counter and its compare-and-swap rollback, the write of the  *)
(* backup and then of the primary file step by step, every I/O error on    *)
(* that path, the restore, and the legacy connection identity.             *)
(*                                                                         *)
(* Abstracted: a report is its collected_at and its request digest; the    *)
(* observations travel with them.  Clock skew, authentication and rate     *)
(* limits reject a request before it touches this state, so a handler      *)
(* starts where they have passed.  The registry, and with it the protocol  *)
(* that owns a device, is read once at startup and is a constant here.     *)
(***************************************************************************)
EXTENDS Integers, FiniteSets

CONSTANTS
    V2Devices,        \* enabled devices whose active protocol is device_v2
    LegacyDevices,    \* enabled devices whose active protocol is legacy TCP
    Handlers,         \* goroutines serving POST /api/.../device update
    Agents,           \* goroutines serving one legacy TCP connection each
    Digests,          \* request digests (SHA-256 of the body)
    Mismatched,       \* digests of bodies whose FQDN fails evaluateIdentity
    Stats,            \* the stats loop goroutine
    None,             \* no holder of a lock, no device
    NoDigest,         \* HasLastRequestDigest = false
    MaxTime,          \* bound: collected_at is in 1..MaxTime, 0 is IsZero
    MaxGeneration,    \* bound: no update is started past this updateID
    MaxConnection,    \* bound on connectionID
    MaxFaults,        \* bound on I/O errors
    MaxKills,         \* bound on kills of the process
    MaxPowerFailures, \* bound on power failures
    MaxMisreads       \* bound on failures to read the primary file

Devices   == V2Devices \cup LegacyDevices
Procs     == Handlers \cup Agents \cup {Stats}
Persisters == Handlers \cup {Stats}

ASSUME ConstantsAssumption ==
    /\ V2Devices \cap LegacyDevices = {} /\ IsFiniteSet(V2Devices)
    /\ None \notin Devices \cup Procs
    /\ NoDigest \notin Digests
    /\ Handlers \cap Agents = {} /\ Stats \notin Handlers \cup Agents
    /\ Mismatched \subseteq Digests
    /\ {MaxTime, MaxGeneration, MaxConnection, MaxFaults,
        MaxKills, MaxPowerFailures, MaxMisreads} \subseteq Nat

VARIABLES
    up,               \* the process runs
    node,             \* [Devices -> Node]: App.nodes
    updateID,         \* App.updateID (atomic)
    connectionID,     \* App.connectionID (atomic)
    nodeMu,           \* writer of App.nodeMu, when held across steps
    persistMu,        \* holder of App.persistMu
    deviceLock,       \* [Devices -> holder]: App.deviceIngestLocks
    pc,               \* where each goroutine stands
    req,              \* the deviceIngestRequest of each goroutine
    snap,             \* the PersistenceV2 snapshot each persister is writing
    before,           \* before := *node, kept by the holder of nodeMu
    visible, survivors,   \* the state file and its backup (StateFiles)
    committed,        \* history: last report answered 202 as newly accepted
    acked,            \* history: last report answered 202, replays included
    source,           \* history: connection whose update a legacy node holds
    bootID,           \* history: updateID after the last restore
    faults, kills, powerFailures, misreads   \* events so far, against their bounds

locks   == <<nodeMu, persistMu, deviceLock>>
memory  == <<node, updateID, connectionID>>
history == <<committed, acked, source, bootID>>
budget  == <<faults, kills, powerFailures, misreads>>
disk    == <<visible, survivors>>
vars    == <<up, memory, locks, pc, req, snap, before, disk, history, budget>>
-----------------------------------------------------------------------------
Report   == [at : Nat, digest : Digests \cup {NoDigest}]
NoReport == [at |-> 0, digest |-> NoDigest]

\* One device in the state file (PersistedDevice), and the file's document.
Persisted == [at : Nat, digest : Digests \cup {NoDigest}, gen : Nat]
Document  == [Devices -> Persisted]

\* NodeState: the last accepted report with its generation, whether it came
\* from the state file, and the legacy connection.
Node == [at : Nat, digest : Digests \cup {NoDigest}, gen : Nat,
         restored : BOOLEAN, connected : BOOLEAN, conn : Nat]
EmptyNode == [at |-> 0, digest |-> NoDigest, gen |-> 0,
              restored |-> FALSE, connected |-> FALSE, conn |-> 0]

Request   == [device : Devices \cup {None}, at : Nat,
              digest : Digests \cup {NoDigest}, gen : Nat, conn : Nat]
NoRequest == [device |-> None, at |-> 0, digest |-> NoDigest, gen |-> 0, conn |-> 0]

F == INSTANCE StateFiles

EmptyDocument == [d \in Devices |-> [at |-> 0, digest |-> NoDigest, gen |-> 0]]

\* persistedDeviceFromNode: the runtime connection and the restored mark are
\* not part of the document.
PersistedDevice(n) == [at |-> n.at, digest |-> n.digest, gen |-> n.gen]

Snapshot(nodes) == [d \in Devices |-> PersistedDevice(nodes[d])]

\* Mutant: the replay boundary is not restored.
RestoresNoBoundary(p) == [EmptyNode EXCEPT !.gen = p.gen, !.restored = TRUE]

\* restorePersistedDeviceFields.
RestoredNode(p) == [EmptyNode EXCEPT !.at = p.at, !.digest = p.digest,
                                     !.gen = p.gen, !.restored = TRUE]

ReportOf(n) == [at |-> n.at, digest |-> n.digest]

Writing == {"backup", "backupSync", "primary", "primarySync"}

Goto(p, label) == pc' = [pc EXCEPT ![p] = label]

\* Updates already numbered or about to be: what MaxGeneration bounds.
Outstanding == Cardinality({p \in Handlers \cup Agents : pc[p] \notin {"idle", "open"}})
-----------------------------------------------------------------------------
(***************************************************************************)
(* A Device v2 report, from the last stateless check of the handler.       *)
(***************************************************************************)

\* deviceUpdateHandler has authenticated, limited and decoded the request and
\* calls ingestDeviceUpdateAt, which first waits for the device's lock.
Begin(h, d, t, g) ==
    /\ up /\ pc[h] = "idle"
    /\ updateID + Outstanding < MaxGeneration
    /\ req' = [req EXCEPT ![h] = [NoRequest EXCEPT !.device = d, !.at = t, !.digest = g]]
    /\ Goto(h, "device")
    /\ UNCHANGED <<up, memory, locks, snap, before, disk, history, budget>>

\* deviceLock.Lock(): a v2 request goes on to persistMu, a legacy one to nodeMu.
LockDevice(p) ==
    /\ pc[p] = "device"
    /\ deviceLock[req[p].device] = None
    /\ deviceLock' = [deviceLock EXCEPT ![req[p].device] = p]
    /\ Goto(p, IF p \in Handlers THEN "persist" ELSE "node")
    /\ UNCHANGED <<up, memory, nodeMu, persistMu, req, snap, before, disk, history, budget>>

\* persistMu.Lock(), because PersistBeforeAck is set.
LockPersist(h) ==
    /\ pc[h] = "persist"
    /\ persistMu = None
    /\ persistMu' = h
    /\ Goto(h, "node")
    /\ UNCHANGED <<up, memory, nodeMu, deviceLock, req, snap, before, disk, history, budget>>

\* decideDeviceUpdateLocked for a v2 request: replay before identity.
V2Outcome(n, r) ==
    CASE r.at < n.at                             -> "stale_report"
      [] r.at = n.at /\ r.digest = n.digest      -> "idempotent"
      [] r.at = n.at /\ r.digest # n.digest      -> "report_conflict"
      [] r.at > n.at /\ r.digest \in Mismatched  -> "identity_mismatch"
      [] OTHER                                   -> "accepted"

\* Mutant: the device's lock is not released on return.
ReleaseKeepsDevice(p) ==
    /\ nodeMu' = IF nodeMu = p THEN None ELSE nodeMu
    /\ persistMu' = IF persistMu = p THEN None ELSE persistMu
    /\ req' = [req EXCEPT ![p] = NoRequest]
    /\ Goto(p, "idle")
    /\ UNCHANGED deviceLock

\* The goroutine returns: locks released, nothing of the request is kept.
Release(p) ==
    /\ nodeMu' = IF nodeMu = p THEN None ELSE nodeMu
    /\ persistMu' = IF persistMu = p THEN None ELSE persistMu
    /\ deviceLock' = [d \in Devices |-> IF deviceLock[d] = p THEN None ELSE deviceLock[d]]
    /\ req' = [req EXCEPT ![p] = NoRequest]
    /\ Goto(p, "idle")

\* A report that is not accepted.  A replay of the accepted report is
\* answered 202 like the first time; the others are answered 409 or 403.
Refuse(h) ==
    LET d == req[h].device
        outcome == V2Outcome(node[d], req[h])
    IN  /\ h \in Handlers /\ pc[h] = "node" /\ nodeMu = None
        /\ outcome # "accepted"
        /\ acked' = IF outcome = "idempotent"
                    THEN [acked EXCEPT ![d] = ReportOf(node[d])] ELSE acked
        /\ Release(h)
        /\ UNCHANGED <<up, memory, snap, before, disk, committed, source, bootID, budget>>

\* The preflight openPersistencePaths fails: 500 before anything is changed.
PreflightFails(h) ==
    /\ h \in Handlers /\ pc[h] = "node" /\ nodeMu = None
    /\ V2Outcome(node[req[h].device], req[h]) = "accepted"
    /\ faults < MaxFaults /\ faults' = faults + 1
    /\ Release(h)
    /\ UNCHANGED <<up, memory, snap, before, disk, history, kills, powerFailures, misreads>>

\* The generation test after the counter is advanced answers errStaleGeneration;
\* otherwise the node is overwritten and the snapshot taken, nodeMu still held.
Accept(h) ==
    LET d == req[h].device
        generation == updateID + 1
        accepted == [node[d] EXCEPT !.at = req[h].at, !.digest = req[h].digest,
                                    !.gen = generation, !.restored = FALSE]
    IN  /\ h \in Handlers /\ pc[h] = "node" /\ nodeMu = None
        /\ V2Outcome(node[d], req[h]) = "accepted"
        /\ updateID' = generation
        /\ IF generation <= node[d].gen
           THEN Release(h) /\ UNCHANGED <<node, snap, before>>
           ELSE /\ before' = node[d]
                /\ node' = [node EXCEPT ![d] = accepted]
                /\ nodeMu' = h
                /\ snap' = [snap EXCEPT ![h] = Snapshot(node')]
                /\ req' = [req EXCEPT ![h].gen = generation]
                /\ Goto(h, "backup")
                /\ UNCHANGED <<persistMu, deviceLock>>
        /\ UNCHANGED <<up, connectionID, disk, history, budget>>

\* The write succeeded: unlock everything and answer 202.
Commit(h) ==
    LET d == req[h].device IN
    /\ h \in Handlers /\ pc[h] = "stored"
    /\ committed' = [committed EXCEPT ![d] = ReportOf(req[h])]
    /\ acked' = [acked EXCEPT ![d] = ReportOf(req[h])]
    /\ Release(h)
    /\ snap' = [snap EXCEPT ![h] = EmptyDocument]
    /\ before' = EmptyNode
    /\ UNCHANGED <<up, memory, disk, source, bootID, budget>>

\* Mutant: the counter is stepped back whoever advanced it last.
StepsBackAlways(generation) == updateID' = updateID - 1

\* updateID.CompareAndSwap(request.Generation, previousUpdateID).
TakeBackGeneration(generation) ==
    updateID' = IF updateID = generation THEN generation - 1 ELSE updateID

\* Mutant: a failed write leaves the report in the node.
RollbackKeepsNode(h) ==
    /\ h \in Handlers /\ pc[h] = "failed"
    /\ TakeBackGeneration(req[h].gen)
    /\ Release(h)
    /\ snap' = [snap EXCEPT ![h] = EmptyDocument]
    /\ before' = EmptyNode
    /\ UNCHANGED <<up, node, connectionID, disk, history, budget>>

\* The write failed: *node = before, the counter is taken back if nobody has
\* advanced it since, and the answer is 500.
Rollback(h) ==
    /\ h \in Handlers /\ pc[h] = "failed"
    /\ node' = [node EXCEPT ![req[h].device] = before]
    /\ TakeBackGeneration(req[h].gen)
    /\ Release(h)
    /\ snap' = [snap EXCEPT ![h] = EmptyDocument]
    /\ before' = EmptyNode
    /\ UNCHANGED <<up, connectionID, disk, history, budget>>
-----------------------------------------------------------------------------
(***************************************************************************)
(* writePersistenceV2, run by whoever holds persistMu.                     *)
(***************************************************************************)

\* Mutant: a backup that exists is not refreshed.
WriteBackupOnce(p) ==
    /\ pc[p] = "backup"
    /\ F!IsValid(visible["primary"])
    /\ IF F!IsValid(visible["backup"])
       THEN Goto(p, "primary") /\ UNCHANGED disk
       ELSE F!Rename("backup", visible["primary"]) /\ Goto(p, "backupSync")
    /\ UNCHANGED <<up, memory, locks, req, snap, before, history, budget>>

\* The document now in the primary becomes the backup.  A primary that cannot
\* be read or decoded leaves the backup alone.
WriteBackup(p) ==
    /\ pc[p] = "backup"
    /\ F!IsValid(visible["primary"])
    /\ F!Rename("backup", visible["primary"])
    /\ Goto(p, "backupSync")
    /\ UNCHANGED <<up, memory, locks, req, snap, before, history, budget>>

SkipBackup(p) ==
    /\ pc[p] = "backup"
    /\ \/ ~F!IsValid(visible["primary"]) /\ UNCHANGED misreads
       \/ /\ F!IsValid(visible["primary"])
          /\ misreads < MaxMisreads /\ misreads' = misreads + 1
    /\ Goto(p, "primary")
    /\ UNCHANGED <<up, memory, locks, req, snap, before, disk, history,
                   faults, kills, powerFailures>>

\* The directory fsync of the backup returns.  The primary is left as it is
\* when nothing but generated_at differs; last_seen and the rest are not in
\* the model, so equal documents here may still differ in the code.
SyncBackup(p) ==
    /\ pc[p] = "backupSync"
    /\ F!SyncDirectory
    /\ \/ Goto(p, "primary")
       \/ visible["primary"] = F!Valid(snap[p]) /\ Goto(p, "stored")
    /\ UNCHANGED <<up, memory, locks, req, snap, before, history, budget>>

\* Mutant: the directory is not fsynced after the rename.
WritePrimaryUnsynced(p) ==
    /\ pc[p] = "primary"
    /\ F!Rename("primary", F!Valid(snap[p]))
    /\ Goto(p, "stored")
    /\ UNCHANGED <<up, memory, locks, req, snap, before, history, budget>>

WritePrimary(p) ==
    /\ pc[p] = "primary"
    /\ F!Rename("primary", F!Valid(snap[p]))
    /\ Goto(p, "primarySync")
    /\ UNCHANGED <<up, memory, locks, req, snap, before, history, budget>>

SyncPrimary(p) ==
    /\ pc[p] = "primarySync"
    /\ F!SyncDirectory
    /\ Goto(p, "stored")
    /\ UNCHANGED <<up, memory, locks, req, snap, before, history, budget>>

\* Any system call of the write fails: before its rename the name is
\* untouched, after it the new document stays visible though not durable.
WriteFails(p) ==
    /\ pc[p] \in Writing
    /\ faults < MaxFaults /\ faults' = faults + 1
    /\ Goto(p, "failed")
    /\ UNCHANGED <<up, memory, locks, req, snap, before, disk, history, kills, powerFailures, misreads>>
-----------------------------------------------------------------------------
(***************************************************************************)
(* PersistStats, run by statsLoop on every tick and wake-up, and by Close. *)
(***************************************************************************)

\* Mutant: the stats loop writes the state file without persistMu.
StatsLockSkipped ==
    /\ up /\ pc[Stats] = "idle"
    /\ Goto(Stats, "snapshot")
    /\ UNCHANGED <<up, memory, locks, req, snap, before, disk, history, budget>>

\* persistMu.Lock() and stats.json written; when that file cannot be written
\* the tick ends there, which changes nothing in this model.
StatsLock ==
    /\ up /\ pc[Stats] = "idle"
    /\ persistMu = None
    /\ persistMu' = Stats
    /\ Goto(Stats, "snapshot")
    /\ UNCHANGED <<up, memory, nodeMu, deviceLock, req, snap, before, disk, history, budget>>

\* snapshotPersistenceV2 under nodeMu.RLock.
StatsSnapshot ==
    /\ pc[Stats] = "snapshot"
    /\ nodeMu = None
    /\ snap' = [snap EXCEPT ![Stats] = Snapshot(node)]
    /\ Goto(Stats, "backup")
    /\ UNCHANGED <<up, memory, locks, req, before, disk, history, budget>>

\* Mutant: PersistStats returns early on an error and keeps persistMu.
StatsDoneOnSuccess ==
    /\ pc[Stats] = "stored"
    /\ Release(Stats)
    /\ snap' = [snap EXCEPT ![Stats] = EmptyDocument]
    /\ UNCHANGED <<up, memory, before, disk, history, budget>>

\* PersistStats returns; an error is only logged.
StatsDone ==
    /\ pc[Stats] \in {"stored", "failed"}
    /\ Release(Stats)
    /\ snap' = [snap EXCEPT ![Stats] = EmptyDocument]
    /\ UNCHANGED <<up, memory, before, disk, history, budget>>
-----------------------------------------------------------------------------
(***************************************************************************)
(* Legacy TCP connections (tcp_server.go) and config reloads.              *)
(***************************************************************************)

\* connectAgent: one connection per device; a refused attempt changes nothing.
Connect(a, d) ==
    /\ up /\ pc[a] = "idle"
    /\ nodeMu = None
    /\ ~node[d].connected
    /\ connectionID < MaxConnection
    /\ connectionID' = connectionID + 1
    /\ node' = [node EXCEPT ![d].connected = TRUE, ![d].conn = connectionID']
    /\ req' = [req EXCEPT ![a] = [NoRequest EXCEPT !.device = d, !.conn = connectionID']]
    /\ Goto(a, "open")
    /\ UNCHANGED <<up, updateID, locks, snap, before, disk, history, budget>>

\* handleConnection reads an "update" line: updateID.Add(1), under no lock.
ReadUpdate(a) ==
    /\ a \in Agents /\ pc[a] = "open"
    /\ updateID + Outstanding < MaxGeneration
    /\ updateID' = updateID + 1
    /\ req' = [req EXCEPT ![a].gen = updateID']
    /\ Goto(a, "device")
    /\ UNCHANGED <<up, node, connectionID, locks, snap, before, disk, history, budget>>

\* Mutant: the connection is not compared.
LegacyOutcomeAnyConnection(n, r) ==
    IF r.gen <= n.gen THEN "stale_generation" ELSE "accepted"

\* decideDeviceUpdateLocked for a legacy request: generation, then connection.
LegacyOutcome(n, r) ==
    CASE r.gen <= n.gen -> "stale_generation"
      [] r.gen > n.gen /\ ~(n.connected /\ n.conn = r.conn) -> "inactive_connection"
      [] OTHER -> "accepted"

\* The critical section of a legacy update.  Nothing is written to disk (the
\* stats loop is only woken) and the connection is read on either way.  The
\* server's clock is the collected_at; no decision compares it, so it is 1.
Ingest(a) ==
    LET d == req[a].device
        accepted == [node[d] EXCEPT !.at = 1, !.gen = req[a].gen, !.restored = FALSE]
    IN  /\ a \in Agents /\ pc[a] = "node" /\ nodeMu = None
        /\ IF LegacyOutcome(node[d], req[a]) = "accepted"
           THEN /\ node' = [node EXCEPT ![d] = accepted]
                /\ source' = [source EXCEPT ![d] = req[a].conn]
           ELSE UNCHANGED <<node, source>>
        /\ deviceLock' = [deviceLock EXCEPT ![d] = None]
        /\ req' = [req EXCEPT ![a].gen = 0]
        /\ Goto(a, "open")
        /\ UNCHANGED <<up, updateID, connectionID, nodeMu, persistMu, snap, before,
                       disk, committed, acked, bootID, budget>>

\* The socket is closed, by the agent, the 20 s deadline or a reload, and
\* disconnectAgent runs: it touches the node only if the connection is current.
Disconnect(a) ==
    LET d == req[a].device
        current == node[d].connected /\ node[d].conn = req[a].conn
    IN  /\ a \in Agents /\ pc[a] = "open" /\ nodeMu = None
        /\ node' = IF current THEN [node EXCEPT ![d].connected = FALSE] ELSE node
        /\ Release(a)
        /\ UNCHANGED <<up, updateID, connectionID, snap, before, disk, history, budget>>

\* Mutant: a reload forgets that an observation was restored.
CopyForgetsRestored(n) == [n EXCEPT !.connected = FALSE, !.conn = 0, !.restored = FALSE]

\* copyNodeRuntime with disconnect: everything but the connection is carried over.
CopyNodeRuntime(n) == [n EXCEPT !.connected = FALSE, !.conn = 0]

\* applyValidatedConfig replaces every node under nodeMu and closes the
\* sockets; the goroutines notice later.
Reload ==
    /\ up /\ nodeMu = None
    /\ node' = [d \in Devices |-> CopyNodeRuntime(node[d])]
    /\ UNCHANGED <<up, updateID, connectionID, locks, pc, req, snap, before, disk,
                   history, budget>>
-----------------------------------------------------------------------------
(***************************************************************************)
(* Crash and restart.                                                      *)
(***************************************************************************)

\* Everything a process keeps in memory is gone, whatever it was doing.
ForgetMemory ==
    /\ up' = FALSE
    /\ node' = [d \in Devices |-> EmptyNode]
    /\ updateID' = 0 /\ connectionID' = 0
    /\ nodeMu' = None /\ persistMu' = None
    /\ deviceLock' = [d \in Devices |-> None]
    /\ pc' = [p \in Procs |-> "idle"]
    /\ req' = [p \in Procs |-> NoRequest]
    /\ snap' = [p \in Persisters |-> EmptyDocument]
    /\ before' = EmptyNode
    /\ source' = [d \in LegacyDevices |-> 0]
    /\ bootID' = 0

\* The process is killed (the files stay as they are visible), or power fails.
Kill ==
    /\ up /\ kills < MaxKills /\ kills' = kills + 1
    /\ ForgetMemory
    /\ UNCHANGED <<disk, committed, acked, faults, powerFailures, misreads>>

PowerFailure ==
    /\ up /\ powerFailures < MaxPowerFailures /\ powerFailures' = powerFailures + 1
    /\ ForgetMemory
    /\ F!PowerLoss
    /\ UNCHANGED <<committed, acked, faults, kills, misreads>>

\* The medium damages the primary while the server is down.
Damage ==
    /\ ~up /\ misreads < MaxMisreads /\ misreads' = misreads + 1
    /\ F!DamagePrimary
    /\ UNCHANGED <<up, memory, locks, pc, req, snap, before, history, faults,
                   kills, powerFailures>>

\* Mutant: the counter starts again from zero.
CounterFromZero(doc, m) == m = 0

\* maxGeneration over the restored devices.
RestoredCounter(doc, m) == \A d \in Devices : doc[d].gen <= m

\* restorePersistenceV2: the counter continues from the largest generation.
RestoreFrom(doc) ==
    /\ node' = [d \in Devices |-> RestoredNode(doc[d])]
    /\ \E m \in {0} \cup {doc[d].gen : d \in Devices} :
          RestoredCounter(doc, m) /\ updateID' = m

\* NewApp.  A server that finds files but none it can decode does not start.
Start ==
    /\ ~up /\ up' = TRUE
    /\ \/ /\ F!Readable(visible["primary"], visible["backup"])
          /\ RestoreFrom(F!Recovered(visible["primary"], visible["backup"]))
       \/ /\ F!StartsEmpty(visible["primary"], visible["backup"])
          /\ node' = [d \in Devices |-> EmptyNode]
          /\ updateID' = 0
    /\ bootID' = updateID'
    /\ UNCHANGED <<connectionID, locks, pc, req, snap, before, disk,
                   committed, acked, source, budget>>

\* readPersistenceWithBackup takes the backup on any error in reading the
\* primary, a passing one included, and the server starts with it.
StartFromBackup ==
    /\ ~up /\ up' = TRUE
    /\ misreads < MaxMisreads /\ misreads' = misreads + 1
    /\ F!IsValid(visible["primary"]) /\ F!IsValid(visible["backup"])
    /\ RestoreFrom(visible["backup"].doc)
    /\ bootID' = updateID'
    /\ UNCHANGED <<connectionID, locks, pc, req, snap, before, disk,
                   committed, acked, source, faults, kills, powerFailures>>
-----------------------------------------------------------------------------
\* The first start of the server, with no state file yet.
Init ==
    /\ up = TRUE
    /\ node = [d \in Devices |-> EmptyNode]
    /\ updateID = 0 /\ connectionID = 0
    /\ nodeMu = None /\ persistMu = None
    /\ deviceLock = [d \in Devices |-> None]
    /\ pc = [p \in Procs |-> "idle"]
    /\ req = [p \in Procs |-> NoRequest]
    /\ snap = [p \in Persisters |-> EmptyDocument]
    /\ before = EmptyNode
    /\ F!FilesInit
    /\ committed = [d \in V2Devices |-> NoReport]
    /\ acked = [d \in V2Devices |-> NoReport]
    /\ source = [d \in LegacyDevices |-> 0]
    /\ bootID = 0
    /\ faults = 0 /\ kills = 0 /\ powerFailures = 0 /\ misreads = 0

Handle(h) ==
    \/ \E d \in V2Devices, t \in 1..MaxTime, g \in Digests : Begin(h, d, t, g)
    \/ LockPersist(h) \/ Refuse(h) \/ PreflightFails(h) \/ Accept(h)
    \/ Commit(h) \/ Rollback(h)

Serve(a) ==
    \/ \E d \in LegacyDevices : Connect(a, d)
    \/ ReadUpdate(a) \/ Ingest(a) \/ Disconnect(a)

WriteStep(p) ==
    \/ WriteBackup(p) \/ SkipBackup(p) \/ SyncBackup(p)
    \/ WritePrimary(p) \/ SyncPrimary(p)

Next ==
    \/ \E h \in Handlers : Handle(h)
    \/ \E a \in Agents : Serve(a)
    \/ \E p \in Handlers \cup Agents : LockDevice(p)
    \/ \E p \in Persisters : WriteStep(p) \/ WriteFails(p)
    \/ StatsLock \/ StatsSnapshot \/ StatsDone
    \/ Reload \/ Kill \/ PowerFailure \/ Damage \/ Start \/ StartFromBackup

Spec == Init /\ [][Next]_vars

(* What the scheduler and the Go runtime guarantee.  A goroutine that can  *)
(* run runs, and sync.Mutex hands the lock to a waiter that has starved,   *)
(* so a goroutine waiting for a lock that is free again and again gets it: *)
(* each goroutine is strongly fair.  The one-second ticker restarts the    *)
(* stats loop for ever, and a supervisor restarts the server.  Nothing is  *)
(* assumed of clients, of I/O errors or of crashes.                        *)
HandlerRuns(h) ==
    LockDevice(h) \/ LockPersist(h) \/ Refuse(h) \/ PreflightFails(h) \/ Accept(h)
        \/ WriteStep(h) \/ Commit(h) \/ Rollback(h)
AgentRuns(a) == LockDevice(a) \/ Ingest(a)
StatsRuns == StatsLock \/ StatsSnapshot \/ WriteStep(Stats) \/ StatsDone

Fairness ==
    /\ \A h \in Handlers : SF_vars(HandlerRuns(h))
    /\ \A a \in Agents : SF_vars(AgentRuns(a))
    /\ SF_vars(StatsRuns)
    /\ WF_vars(Start)

FairSpec == Spec /\ Fairness
-----------------------------------------------------------------------------
TypeOK ==
    /\ up \in BOOLEAN
    /\ node \in [Devices -> Node]
    /\ updateID \in Nat /\ connectionID \in Nat
    /\ nodeMu \in Handlers \cup {None}
    /\ persistMu \in Persisters \cup {None}
    /\ deviceLock \in [Devices -> Handlers \cup Agents \cup {None}]
    /\ pc \in [Procs -> {"idle", "open", "device", "persist", "node", "snapshot",
                         "stored", "failed"} \cup Writing]
    /\ req \in [Procs -> Request]
    /\ snap \in [Persisters -> Document]
    /\ before \in Node
    /\ F!FilesTypeOK
    /\ committed \in [V2Devices -> Report] /\ acked \in [V2Devices -> Report]
    /\ source \in [LegacyDevices -> Nat]
    /\ bootID \in Nat
    /\ faults \in Nat /\ kills \in Nat /\ powerFailures \in Nat /\ misreads \in Nat

\* r is the report s, or one collected later.
AtLeast(r, s) == r.at > s.at \/ ReportOf(r) = ReportOf(s)

\* A server started on the files p and b has, for device d, report r or a later one.
Survives(r, d, p, b) ==
    \/ F!Readable(p, b) /\ AtLeast(F!Recovered(p, b)[d], r)
    \/ F!StartsEmpty(p, b) /\ r = NoReport

\* A report answered 202 when it was accepted is never lost, whatever instant
\* the power fails at and whichever renames it undoes.
AcceptedSurvivesPowerLoss ==
    misreads = 0 => \A p \in survivors["primary"], b \in survivors["backup"], d \in V2Devices :
                      Survives(committed[d], d, p, b)

\* As long as power does not fail, a report answered 202, as newly accepted or
\* as a replay, is still there after the process is killed at any instant.
AnsweredSurvivesKill ==
    powerFailures = 0 /\ misreads = 0 => \A d \in V2Devices :
                      Survives(acked[d], d, visible["primary"], visible["backup"])

\* PersistBeforeAck (device_ingestion.go:42) taken at its word for every 202,
\* replays after a restart included.
AnsweredSurvivesPowerLoss ==
    misreads = 0 => \A p \in survivors["primary"], b \in survivors["backup"], d \in V2Devices :
                      Survives(acked[d], d, p, b)

\* Readers of the nodes are never shown a v2 report that a killed server
\* would come back without: no half-committed update is observable.
ShownIsStored ==
    (up /\ nodeMu = None /\ misreads = 0) =>
        \A d \in V2Devices :
            Survives(ReportOf(node[d]), d, visible["primary"], visible["backup"])

\* Each time the primary cannot be read, at most one device falls back behind
\* a report answered 202, because the backup is the primary of one write ago.
MisreadLosesOneReport ==
    up => Cardinality({d \in V2Devices : ~AtLeast(node[d], committed[d])}) <= misreads

\* The counter is never behind a generation in a node or in the hands of a
\* connection, so a v2 update never meets errStaleGeneration: neither the
\* rollback nor the restore takes the counter back too far.
GenerationHeadroom ==
    /\ \A d \in Devices : node[d].gen <= updateID
    /\ \A p \in Procs : req[p].gen <= updateID

\* No two updates carry one generation, although the counter is advanced
\* outside every lock and taken back by a failed commit.
GenerationsDistinct ==
    /\ \A d, e \in Devices : d # e /\ node[d].gen = node[e].gen => node[d].gen = 0
    /\ \A a \in Agents, d \in Devices : req[a].gen = node[d].gen => req[a].gen = 0
    /\ \A a, b \in Agents : a # b /\ req[a].gen = req[b].gen => req[a].gen = 0

\* Across concurrent requests, failed commits, crashes and restarts, a device's
\* newly accepted reports are collected at strictly increasing times.
NeverAcceptedTwice ==
    [][misreads = 0 => \A d \in V2Devices :
          committed'[d] = committed[d] \/ committed'[d].at > committed[d].at]_committed

\* A device that has reported counts as live only after a report accepted by
\* this process: a restored observation stays marked through reloads and
\* failed commits (docs/ARCHITECTURE.md:24).
LiveMeansReportedSinceStart ==
    up => \A d \in Devices :
            node[d].at # 0 => (node[d].restored <=> node[d].gen <= bootID)

\* Once a newer connection of a legacy device has reported, an older one,
\* still draining its socket after a reload, cannot overwrite it.
SupersededConnectionSilent ==
    [][up' => \A d \in LegacyDevices : source'[d] >= source[d]]_source

\* Every request the server takes up is answered.
RequestAnswered == \A h \in Handlers : pc[h] # "idle" ~> pc[h] = "idle"

\* A legacy update, which is not written before it is taken up, becomes durable
\* by a later pass of the stats loop.
LegacyEventuallyStored ==
    \A d \in LegacyDevices, g \in 1..MaxGeneration :
        node[d].gen = g ~>
            \/ ~up
            \/ \A c \in survivors["primary"] : F!IsValid(c) /\ c.doc[d].gen >= g
-----------------------------------------------------------------------------
(* The abstract store the server implements: stored is what a server       *)
(* killed now would come back with, acknowledged what has been answered    *)
(* 202 as newly accepted.                                                  *)
StoredReport(d) ==
    IF F!Readable(visible["primary"], visible["backup"])
    THEN ReportOf(F!Recovered(visible["primary"], visible["backup"])[d])
    ELSE NoReport

Store == INSTANCE ReportStore
    WITH Devices <- V2Devices, Digests <- Digests \cup {NoDigest},
         stored <- [d \in V2Devices |-> StoredReport(d)], acknowledged <- committed

\* The server, with its locks, two files, faults and crashes, implements the
\* store: an acknowledged report is never replaced by an older one.
ImplementsReportStore == Store!Spec
=============================================================================
