-------------------------- MODULE DeviceInvariants --------------------------
(* The inductive invariants behind the theorems about DeviceServer: who     *)
(* holds which lock where, which generations are in use, and what the files *)
(* hold compared with what has been answered.                               *)
EXTENDS DeviceServer

\* Where a handler holds nodeMu, and where anyone holds persistMu.
Critical   == Writing \cup {"stored", "failed"}
Persisting == Critical \cup {"node", "snapshot"}

\* A goroutine works on a device of its own protocol; while the server is down
\* there are no goroutines.
Placed ==
    /\ \A h \in Handlers :
          /\ pc[h] \in {"idle", "device", "persist", "node"} \cup Critical
          /\ pc[h] # "idle" => req[h].device \in V2Devices
          /\ pc[h] \in Critical => req[h].gen > 0
    /\ \A a \in Agents :
          /\ pc[a] \in {"idle", "open", "device", "node"}
          /\ pc[a] # "idle" => req[a].device \in LegacyDevices
    /\ pc[Stats] \in {"idle", "snapshot"} \cup Critical
    /\ \A p \in Procs : pc[p] = "idle" => req[p] = NoRequest
    /\ ~up => \A p \in Procs : pc[p] = "idle"

\* persistMu and nodeMu are held exactly where the code runs under them.
LocksHeld ==
    /\ \A h \in Handlers : nodeMu = h <=> pc[h] \in Critical
    /\ \A p \in Persisters : persistMu = p <=> pc[p] \in Persisting

LockInv == TypeOK /\ Placed /\ LocksHeld
-----------------------------------------------------------------------------
\* No generation but 0 twice in a document.
NumberedApart(doc) ==
    \A d, e \in Devices : d # e /\ doc[d].gen = doc[e].gen => doc[d].gen = 0

\* The files, and the document being written, carry no generation twice either,
\* or a restart would load it.
FilesApart ==
    /\ \A f \in F!File :
          /\ F!IsValid(visible[f]) => NumberedApart(visible[f].doc)
          /\ \A c \in survivors[f] : F!IsValid(c) => NumberedApart(c.doc)
    /\ \A p \in Persisters : NumberedApart(snap[p])

\* A handler owns its generation until it commits, and can give it back: nobody
\* else has it, and what it would restore carries an older one.
TakeBackSafe ==
    /\ \A p \in Persisters : nodeMu # p => req[p].gen = 0
    /\ \A h \in Handlers : nodeMu = h =>
          /\ req[h].gen = node[req[h].device].gen
          /\ before.gen < req[h].gen
          /\ \A e \in Devices \ {req[h].device} :
                node[e].gen = before.gen => before.gen = 0
          /\ \A a \in Agents : req[a].gen = before.gen => before.gen = 0

GenerationInv ==
    LockInv /\ GenerationHeadroom /\ GenerationsDistinct /\ FilesApart /\ TakeBackSafe
-----------------------------------------------------------------------------
\* The devices whose answered report the document doc does not have.
Behind(doc, answered) == {d \in V2Devices : ~AtLeast(doc[d], answered[d])}
FewBehind(doc, n) == Cardinality(Behind(doc, committed)) <= n

\* A device that never reported has no digest.
WellFormed(doc) == \A d \in V2Devices : doc[d].at = 0 => doc[d].digest = NoDigest

\* The nodes as they are if the commit in progress fails.
Fallback == [d \in Devices |-> IF nodeMu # None /\ req[nodeMu].device = d
                               THEN before ELSE node[d]]

\* What is visible may also survive; a file that does not decode is a misread
\* primary; a primary may be missing only until something has been accepted.
FilesKept ==
    /\ \A f \in F!File : visible[f] \in survivors[f]
    /\ F!Corrupt \notin survivors["backup"]
    /\ F!Corrupt \in survivors["primary"] => misreads > 0
    /\ F!Absent \in survivors["primary"] => \A d \in V2Devices : committed[d] = NoReport
    /\ \A f \in F!File : \A c \in survivors[f] : F!IsValid(c) => WellFormed(c.doc)

\* The backup has been refreshed for the write in progress, or could not be.
BackupTried == \E p \in Persisters : pc[p] \in {"primary", "primarySync", "stored"}

\* A misread costs one device at most: a primary is short of as many reports as
\* there were misreads, and the backup of one more, which it may be only when no
\* write is about to replace the primary and the primary can be read.
FilesCurrent ==
    /\ \A c \in survivors["primary"] : F!IsValid(c) => FewBehind(c.doc, misreads)
    /\ \A c \in survivors["backup"] : F!IsValid(c) =>
          /\ FewBehind(c.doc, misreads + 1)
          /\ F!Corrupt \in survivors["primary"] \/ BackupTried => FewBehind(c.doc, misreads)

\* So are the nodes, before and after a rollback.
NodesCurrent ==
    /\ WellFormed(node) /\ WellFormed(Fallback)
    /\ up => FewBehind(node, misreads) /\ FewBehind(Fallback, misreads)

\* A commit moves its device forward, and a write is of the nodes as they are.
CommitForward ==
    /\ \A h \in Handlers : pc[h] # "idle" => req[h].at > 0
    /\ \A h \in Handlers : pc[h] \in Critical =>
          ReportOf(node[req[h].device]) = ReportOf(req[h]) /\ req[h].at > before.at
    /\ \A p \in Persisters : pc[p] \in Critical =>
          \A d \in V2Devices : ReportOf(snap[p][d]) = ReportOf(node[d])

\* The steps of writePersistenceV2 are where they say they are.
WriteProgress ==
    \A p \in Persisters :
        /\ pc[p] = "backupSync" => visible["backup"] = visible["primary"]
        /\ pc[p] = "primarySync" => visible["primary"] = F!Valid(snap[p])
        /\ pc[p] = "stored" => survivors["primary"] = {F!Valid(snap[p])}

DurabilityInv ==
    LockInv /\ FilesKept /\ FilesCurrent /\ NodesCurrent /\ CommitForward /\ WriteProgress
-----------------------------------------------------------------------------
\* A server killed now comes back with what readers are shown.
ShownKept ==
    misreads = 0 /\ up => \A d \in V2Devices :
        Survives(ReportOf(Fallback[d]), d, visible["primary"], visible["backup"])

\* And with every report answered 202, which the nodes have too.
AnsweredKept ==
    misreads = 0 /\ powerFailures = 0 => \A d \in V2Devices :
        /\ Survives(acked[d], d, visible["primary"], visible["backup"])
        /\ up => AtLeast(Fallback[d], acked[d])
-----------------------------------------------------------------------------
\* Generations tell what this process accepted from what it restored.
Marked(n) == IF n.restored THEN n.gen <= bootID ELSE n.at = 0 \/ n.gen > bootID

\* So they do in the node a failed commit would bring back.
BootInv ==
    /\ bootID <= updateID
    /\ \A p \in Procs : req[p].gen # 0 => req[p].gen > bootID
    /\ \A d \in Devices : Marked(node[d])
    /\ Marked(before)
    /\ nodeMu = None => before = EmptyNode

\* A connected node has the newest connection that has reported.
SourceInv ==
    \A d \in LegacyDevices :
        /\ source[d] <= connectionID /\ node[d].conn <= connectionID
        /\ node[d].connected => source[d] <= node[d].conn
=============================================================================
