------------------------- MODULE DeviceServerProofs -------------------------
(* Locks, types and generations of DeviceServer, for every value of its      *)
(* constants: LockInv and then GenerationInv are inductive.                  *)
EXTENDS DeviceInvariants, TLAPS

USE ConstantsAssumption DEF Procs, Persisters, Devices, memory, locks, disk, history, budget
-----------------------------------------------------------------------------
(* What the operations on files and the conversions return. *)

\* A document that was written is a content a file can have.
LEMMA ValidContent == \A doc \in Document : F!Valid(doc) \in F!Content
BY DEF F!Valid, F!Content

\* A content that decodes carries a document.
LEMMA DecodedDocument == \A c \in F!Content : F!IsValid(c) => c.doc \in Document
BY DEF F!Content, F!IsValid, F!Absent, F!Corrupt

\* atomicWrite and the directory fsync keep the files well typed.
LEMMA RenameTypes ==
  ASSUME F!FilesTypeOK, NEW f \in F!File, NEW c \in F!Content, F!Rename(f, c)
  PROVE  F!FilesTypeOK'
BY DEF F!FilesTypeOK, F!Rename

\* The files stay well-typed when the directory is fsynced,
LEMMA SyncTypes == F!FilesTypeOK /\ F!SyncDirectory => F!FilesTypeOK'
BY DEF F!FilesTypeOK, F!SyncDirectory

\* when nothing happens to them,
LEMMA UnchangedTypes == F!FilesTypeOK /\ UNCHANGED disk => F!FilesTypeOK'
BY DEF F!FilesTypeOK, disk

\* So do a power failure and damage to the primary.
LEMMA PowerLossTypes == F!FilesTypeOK /\ F!PowerLoss => F!FilesTypeOK'
BY DEF F!FilesTypeOK, F!PowerLoss, F!File

\* and when the medium damages one.
LEMMA DamagedTypes == F!FilesTypeOK /\ F!DamagePrimary => F!FilesTypeOK'
<1> SUFFICES ASSUME F!FilesTypeOK, F!DamagePrimary PROVE F!FilesTypeOK'
  OBVIOUS
<1>1. F!Corrupt \in F!Content
  BY DEF F!Content
<1>2. visible' \in [F!File -> F!Content]
  BY <1>1 DEF F!FilesTypeOK, F!DamagePrimary
<1>3. survivors' \in [F!File -> SUBSET F!Content]
  BY <1>1 DEF F!FilesTypeOK, F!DamagePrimary
<1> QED BY <1>2, <1>3 DEF F!FilesTypeOK

\* A document of the nodes, and the node of a document, are well typed.
LEMMA SnapshotType == ASSUME NEW n \in [Devices -> Node] PROVE Snapshot(n) \in Document
BY DEF Snapshot, PersistedDevice, Document, Node, Persisted

\* What a restore makes of a well-typed document is a well-typed node.
LEMMA RestoredType ==
  ASSUME NEW doc \in Document, NEW d \in Devices PROVE RestoredNode(doc[d]) \in Node
BY DEF RestoredNode, EmptyNode, Document, Node, Persisted

\* What a server that starts reads from its files is a document.
LEMMA RecoveredType ==
  ASSUME NEW p \in F!Content, NEW b \in F!Content, F!Readable(p, b)
  PROVE  F!Recovered(p, b) \in Document
BY DecodedDocument DEF F!Readable, F!Recovered

\* restorePersistenceV2 leaves well typed nodes and counter.
LEMMA RestoreTypes ==
  ASSUME NEW doc \in Document, RestoreFrom(doc)
  PROVE  node' \in [Devices -> Node] /\ updateID' \in Nat
<1>1. node' = [d \in Devices |-> RestoredNode(doc[d])]
  BY DEF RestoreFrom
<1>2. node' \in [Devices -> Node]
  BY <1>1, RestoredType
<1>3. \A d \in Devices : doc[d].gen \in Nat
  BY DEF Document, Persisted
<1>4. \E m \in {0} \cup {doc[d].gen : d \in Devices} : updateID' = m
  BY DEF RestoreFrom
<1> QED BY <1>2, <1>3, <1>4

\* The empty node, request and document are well-typed.
LEMMA EmptyTypes == EmptyNode \in Node /\ NoRequest \in Request /\ EmptyDocument \in Document
BY DEF EmptyNode, Node, NoRequest, Request, EmptyDocument, Document, Persisted

\* A goroutine that returns leaves the locks and its request well typed.
LEMMA ReleaseTypes ==
  ASSUME TypeOK, NEW p \in Procs, Release(p)
  PROVE  /\ nodeMu' \in Handlers \cup {None}
         /\ persistMu' \in Persisters \cup {None}
         /\ deviceLock' \in [Devices -> Handlers \cup Agents \cup {None}]
         /\ req' \in [Procs -> Request]
         /\ pc' \in [Procs -> {"idle", "open", "device", "persist", "node", "snapshot",
                               "stored", "failed"} \cup Writing]
BY EmptyTypes DEF TypeOK, Release, Goto

\* TypeOK, cut where the actions change it.
ControlTypes ==
    /\ up \in BOOLEAN
    /\ nodeMu \in Handlers \cup {None}
    /\ persistMu \in Persisters \cup {None}
    /\ deviceLock \in [Devices -> Handlers \cup Agents \cup {None}]
    /\ pc \in [Procs -> {"idle", "open", "device", "persist", "node", "snapshot",
                         "stored", "failed"} \cup Writing]
    /\ req \in [Procs -> Request]

MemoryTypes ==
    /\ node \in [Devices -> Node]
    /\ updateID \in Nat /\ connectionID \in Nat
    /\ snap \in [Persisters -> Document]
    /\ before \in Node

HistoryTypes ==
    /\ committed \in [V2Devices -> Report] /\ acked \in [V2Devices -> Report]
    /\ source \in [LegacyDevices -> Nat]
    /\ bootID \in Nat
    /\ faults \in Nat /\ kills \in Nat /\ powerFailures \in Nat /\ misreads \in Nat



-----------------------------------------------------------------------------
(* Every step keeps the types, part by part. *)
LEMMA MemoryStep == LockInv /\ [Next]_vars => MemoryTypes'
<1> SUFFICES ASSUME LockInv, [Next]_vars PROVE MemoryTypes'
  OBVIOUS
<1>1. ASSUME NEW h \in Handlers, Accept(h) PROVE MemoryTypes'
  <2> DEFINE d == req[h].device
             accepted == [node[d] EXCEPT !.at = req[h].at, !.digest = req[h].digest,
                                      !.gen = updateID + 1, !.restored = FALSE]
  <2>1. d \in Devices /\ node[d] \in Node /\ req[h] \in Request
    BY <1>1 DEF LockInv, TypeOK, Placed, Accept
  <2>a. updateID + 1 \in Nat
    BY <1>1 DEF LockInv, TypeOK
  <2>2. accepted \in Node
    BY <1>1, <2>1, <2>a DEF Node, Request
  <2>3. node' \in [Devices -> Node]
    BY <1>1, <2>2 DEF Accept, LockInv, TypeOK
  <2>4. snap' \in [Persisters -> Document]
    <3>1. snap' = snap \/ snap' = [snap EXCEPT ![h] = Snapshot(node')]
      BY <1>1 DEF Accept
    <3>2. Snapshot(node') \in Document
      BY <2>3, SnapshotType
    <3> QED BY <3>1, <3>2 DEF LockInv, TypeOK
  <2>5. updateID' \in Nat /\ connectionID' \in Nat
    <3>1. updateID' = updateID + 1 /\ connectionID' = connectionID
      BY <1>1 DEF Accept
    <3> QED BY <2>a, <3>1 DEF LockInv, TypeOK
  <2>6. before' \in Node
    BY <1>1, <2>1 DEF Accept, LockInv, TypeOK
  <2> HIDE DEF d, accepted
  <2> QED BY <2>3, <2>4, <2>5, <2>6 DEF MemoryTypes
<1>2. ASSUME NEW h \in Handlers, Rollback(h) PROVE MemoryTypes'
  <2>1. req[h].gen \in Nat /\ (updateID = req[h].gen => updateID - 1 \in Nat)
    BY <1>2 DEF LockInv, TypeOK, Request, Placed, Rollback, Critical
  <2>2. before \in Node
    BY <1>2 DEF LockInv, TypeOK
  <2>3. updateID' \in Nat
    BY <1>2, <2>1 DEF Rollback, TakeBackGeneration, LockInv, TypeOK
  <2>4. node' \in [Devices -> Node]
    BY <1>2, <2>2 DEF Rollback, LockInv, TypeOK
  <2> QED BY <1>2, <2>3, <2>4, EmptyTypes DEF Rollback, MemoryTypes, LockInv, TypeOK
<1>3. ASSUME NEW a \in Agents, NEW d \in LegacyDevices, Connect(a, d) PROVE MemoryTypes'
  <2>a. connectionID' \in Nat /\ node[d] \in Node
    BY <1>3 DEF LockInv, TypeOK, Connect
  <2>1. [node[d] EXCEPT !.connected = TRUE, !.conn = connectionID'] \in Node
    BY <1>3, <2>a DEF Node
  <2> QED BY <1>3, <2>1, <2>a DEF LockInv, TypeOK, Connect, MemoryTypes
<1>4. ASSUME NEW a \in Agents, Ingest(a) PROVE MemoryTypes'
  <2>0. node[req[a].device] \in Node /\ req[a].gen \in Nat
    BY <1>4 DEF Ingest, Request, LockInv, TypeOK, Placed
  <2>1. [node[req[a].device] EXCEPT !.at = 1, !.gen = req[a].gen, !.restored = FALSE] \in Node
    BY <2>0 DEF Node
  <2>2. node' \in [Devices -> Node]
    <3>1. CASE LegacyOutcome(node[req[a].device], req[a]) = "accepted"
      BY <1>4, <2>1, <3>1 DEF Ingest, LockInv, TypeOK
    <3>2. CASE LegacyOutcome(node[req[a].device], req[a]) # "accepted"
      BY <1>4, <3>2 DEF Ingest, LockInv, TypeOK
    <3> QED BY <1>4, <3>1, <3>2
  <2> QED BY <1>4, <2>2 DEF LockInv, TypeOK, Ingest, MemoryTypes
<1>5. ASSUME NEW a \in Agents, Disconnect(a) PROVE MemoryTypes'
  <2>0. node[req[a].device] \in Node
    BY <1>5 DEF Disconnect, LockInv, TypeOK, Placed
  <2>1. [node[req[a].device] EXCEPT !.connected = FALSE] \in Node
    BY <2>0 DEF Node
  <2> QED BY <1>5, <2>1 DEF LockInv, TypeOK, Disconnect, MemoryTypes
<1>6. CASE Reload
  <2>1. \A d \in Devices : CopyNodeRuntime(node[d]) \in Node
    BY <1>6 DEF CopyNodeRuntime, Node, LockInv, TypeOK
  <2> QED BY <1>6, <2>1 DEF LockInv, TypeOK, Reload, MemoryTypes
<1>7. ASSUME NEW h \in Handlers, Commit(h) PROVE MemoryTypes'
  BY <1>7, SnapshotType, RestoreTypes, RecoveredType, EmptyTypes, DecodedDocument
  DEF LockInv, TypeOK, MemoryTypes, Commit, ForgetMemory, F!FilesTypeOK, F!File
<1>8. CASE StatsSnapshot
  BY <1>8, SnapshotType, RestoreTypes, RecoveredType, EmptyTypes, DecodedDocument
  DEF LockInv, TypeOK, MemoryTypes, StatsSnapshot, ForgetMemory, F!FilesTypeOK, F!File
<1>9. CASE StatsDone
  BY <1>9, SnapshotType, RestoreTypes, RecoveredType, EmptyTypes, DecodedDocument
  DEF LockInv, TypeOK, MemoryTypes, StatsDone, ForgetMemory, F!FilesTypeOK, F!File
<1>10. ASSUME NEW a \in Agents, ReadUpdate(a) PROVE MemoryTypes'
  BY <1>10, SnapshotType, RestoreTypes, RecoveredType, EmptyTypes, DecodedDocument
  DEF LockInv, TypeOK, MemoryTypes, ReadUpdate, ForgetMemory, F!FilesTypeOK, F!File
<1>11. CASE Kill
  BY <1>11, SnapshotType, RestoreTypes, RecoveredType, EmptyTypes, DecodedDocument
  DEF LockInv, TypeOK, MemoryTypes, Kill, ForgetMemory, F!FilesTypeOK, F!File
<1>12. CASE PowerFailure
  BY <1>12, SnapshotType, RestoreTypes, RecoveredType, EmptyTypes, DecodedDocument
  DEF LockInv, TypeOK, MemoryTypes, PowerFailure, ForgetMemory, F!FilesTypeOK, F!File
<1>13. CASE Start
  BY <1>13, SnapshotType, RestoreTypes, RecoveredType, EmptyTypes, DecodedDocument
  DEF LockInv, TypeOK, MemoryTypes, Start, ForgetMemory, F!FilesTypeOK, F!File
<1>14. CASE StartFromBackup
  BY <1>14, SnapshotType, RestoreTypes, RecoveredType, EmptyTypes, DecodedDocument
  DEF LockInv, TypeOK, MemoryTypes, StartFromBackup, ForgetMemory, F!FilesTypeOK, F!File
<1>15. CASE UNCHANGED <<memory, snap, before>>
  BY <1>15 DEF LockInv, TypeOK, MemoryTypes
<1> QED
  BY <1>1, <1>2, <1>3, <1>4, <1>5, <1>6, <1>7, <1>8, <1>9, <1>10, <1>11, <1>12, <1>13, <1>14, <1>15
  DEF Next, Handle, Serve, WriteStep, vars, Begin, LockDevice, LockPersist, Refuse, PreflightFails, WriteBackup, SkipBackup, SyncBackup, WritePrimary, SyncPrimary, WriteFails, StatsLock, Damage

\* Every step keeps the locks, labels and requests well typed.
LEMMA ControlStep == LockInv /\ [Next]_vars => ControlTypes'
<1> SUFFICES ASSUME LockInv, [Next]_vars PROVE ControlTypes'
  OBVIOUS
<1>1. ASSUME NEW h \in Handlers, NEW d \in V2Devices, NEW t \in 1..MaxTime, NEW g \in Digests, Begin(h, d, t, g) PROVE ControlTypes'
  <2>1. t \in Nat
    OBVIOUS
  <2>2. [NoRequest EXCEPT !.device = d, !.at = t, !.digest = g] \in Request
    BY <2>1 DEF NoRequest, Request
  <2> QED BY <1>1, <2>2 DEF LockInv, TypeOK, Begin, ControlTypes, Goto
<1>2. ASSUME NEW p \in Handlers \cup Agents, LockDevice(p) PROVE ControlTypes'
  BY <1>2, ReleaseTypes, EmptyTypes
  DEF LockInv, TypeOK, Placed, ControlTypes, LockDevice, Goto, ForgetMemory, Request, Writing
<1>3. ASSUME NEW h \in Handlers, LockPersist(h) PROVE ControlTypes'
  BY <1>3, ReleaseTypes, EmptyTypes
  DEF LockInv, TypeOK, Placed, ControlTypes, LockPersist, Goto, ForgetMemory, Request, Writing
<1>4. ASSUME NEW h \in Handlers, Refuse(h) PROVE ControlTypes'
  BY <1>4, ReleaseTypes, EmptyTypes
  DEF LockInv, TypeOK, Placed, ControlTypes, Refuse, Goto, ForgetMemory, Request, Writing
<1>5. ASSUME NEW h \in Handlers, PreflightFails(h) PROVE ControlTypes'
  BY <1>5, ReleaseTypes, EmptyTypes
  DEF LockInv, TypeOK, Placed, ControlTypes, PreflightFails, Goto, ForgetMemory, Request, Writing
<1>6. ASSUME NEW h \in Handlers, Accept(h) PROVE ControlTypes'
  <2>1. up' = up /\ h \in Procs
    BY <1>6 DEF Accept
  <2>2. CASE Release(h)
    BY <1>6, <2>1, <2>2, ReleaseTypes DEF LockInv, TypeOK, ControlTypes
  <2>3. CASE ~Release(h)
    <3>1. /\ nodeMu' = h /\ UNCHANGED <<persistMu, deviceLock>>
          /\ req' = [req EXCEPT ![h].gen = updateID + 1] /\ pc' = [pc EXCEPT ![h] = "backup"]
      BY <1>6, <2>3 DEF Accept, Goto
    <3>2. [req[h] EXCEPT !.gen = updateID + 1] \in Request
      BY <1>6, <2>1 DEF LockInv, TypeOK, Request
    <3> QED BY <1>6, <2>1, <3>1, <3>2 DEF LockInv, TypeOK, ControlTypes, Writing
  <2> QED BY <2>2, <2>3
<1>7. ASSUME NEW h \in Handlers, Commit(h) PROVE ControlTypes'
  BY <1>7, ReleaseTypes, EmptyTypes
  DEF LockInv, TypeOK, Placed, ControlTypes, Commit, Goto, ForgetMemory, Request, Writing
<1>8. ASSUME NEW h \in Handlers, Rollback(h) PROVE ControlTypes'
  BY <1>8, ReleaseTypes, EmptyTypes
  DEF LockInv, TypeOK, Placed, ControlTypes, Rollback, Goto, ForgetMemory, Request, Writing
<1>9. ASSUME NEW p \in Persisters, WriteBackup(p) PROVE ControlTypes'
  BY <1>9, ReleaseTypes, EmptyTypes
  DEF LockInv, TypeOK, Placed, ControlTypes, WriteBackup, Goto, ForgetMemory, Request, Writing
<1>10. ASSUME NEW p \in Persisters, SkipBackup(p) PROVE ControlTypes'
  BY <1>10, ReleaseTypes, EmptyTypes
  DEF LockInv, TypeOK, Placed, ControlTypes, SkipBackup, Goto, ForgetMemory, Request, Writing
<1>11. ASSUME NEW p \in Persisters, SyncBackup(p) PROVE ControlTypes'
  BY <1>11, ReleaseTypes, EmptyTypes
  DEF LockInv, TypeOK, Placed, ControlTypes, SyncBackup, Goto, ForgetMemory, Request, Writing
<1>12. ASSUME NEW p \in Persisters, WritePrimary(p) PROVE ControlTypes'
  BY <1>12, ReleaseTypes, EmptyTypes
  DEF LockInv, TypeOK, Placed, ControlTypes, WritePrimary, Goto, ForgetMemory, Request, Writing
<1>13. ASSUME NEW p \in Persisters, SyncPrimary(p) PROVE ControlTypes'
  BY <1>13, ReleaseTypes, EmptyTypes
  DEF LockInv, TypeOK, Placed, ControlTypes, SyncPrimary, Goto, ForgetMemory, Request, Writing
<1>14. ASSUME NEW p \in Persisters, WriteFails(p) PROVE ControlTypes'
  BY <1>14, ReleaseTypes, EmptyTypes
  DEF LockInv, TypeOK, Placed, ControlTypes, WriteFails, Goto, ForgetMemory, Request, Writing
<1>15. CASE StatsLock
  BY <1>15, ReleaseTypes, EmptyTypes
  DEF LockInv, TypeOK, Placed, ControlTypes, StatsLock, Goto, ForgetMemory, Request, Writing
<1>16. CASE StatsSnapshot
  BY <1>16, ReleaseTypes, EmptyTypes
  DEF LockInv, TypeOK, Placed, ControlTypes, StatsSnapshot, Goto, ForgetMemory, Request, Writing
<1>17. CASE StatsDone
  BY <1>17, ReleaseTypes, EmptyTypes
  DEF LockInv, TypeOK, Placed, ControlTypes, StatsDone, Goto, ForgetMemory, Request, Writing
<1>18. ASSUME NEW a \in Agents, NEW d \in LegacyDevices, Connect(a, d) PROVE ControlTypes'
  <2>1. connectionID' \in Nat
    BY <1>18 DEF LockInv, TypeOK, Connect
  <2>2. [NoRequest EXCEPT !.device = d, !.conn = connectionID'] \in Request
    BY <2>1 DEF NoRequest, Request
  <2>3. req' \in [Procs -> Request]
    BY <1>18, <2>2 DEF LockInv, TypeOK, Connect
  <2> QED BY <1>18, <2>3 DEF LockInv, TypeOK, Connect, ControlTypes, Goto
<1>19. ASSUME NEW a \in Agents, ReadUpdate(a) PROVE ControlTypes'
  BY <1>19, ReleaseTypes, EmptyTypes
  DEF LockInv, TypeOK, Placed, ControlTypes, ReadUpdate, Goto, ForgetMemory, Request, Writing
<1>20. ASSUME NEW a \in Agents, Ingest(a) PROVE ControlTypes'
  BY <1>20, ReleaseTypes, EmptyTypes
  DEF LockInv, TypeOK, Placed, ControlTypes, Ingest, Goto, ForgetMemory, Request, Writing
<1>21. ASSUME NEW a \in Agents, Disconnect(a) PROVE ControlTypes'
  BY <1>21, ReleaseTypes, EmptyTypes
  DEF LockInv, TypeOK, Placed, ControlTypes, Disconnect, Goto, ForgetMemory, Request, Writing
<1>22. CASE Kill
  BY <1>22, ReleaseTypes, EmptyTypes
  DEF LockInv, TypeOK, Placed, ControlTypes, Kill, Goto, ForgetMemory, Request, Writing
<1>23. CASE PowerFailure
  BY <1>23, ReleaseTypes, EmptyTypes
  DEF LockInv, TypeOK, Placed, ControlTypes, PowerFailure, Goto, ForgetMemory, Request, Writing
<1>24. CASE Start
  BY <1>24, ReleaseTypes, EmptyTypes
  DEF LockInv, TypeOK, Placed, ControlTypes, Start, Goto, ForgetMemory, Request, Writing
<1>25. CASE StartFromBackup
  BY <1>25, ReleaseTypes, EmptyTypes
  DEF LockInv, TypeOK, Placed, ControlTypes, StartFromBackup, Goto, ForgetMemory, Request, Writing
<1>26. CASE UNCHANGED <<up, locks, pc, req>>
  BY <1>26 DEF LockInv, TypeOK, ControlTypes
<1> QED
  BY <1>1, <1>2, <1>3, <1>4, <1>5, <1>6, <1>7, <1>8, <1>9, <1>10, <1>11,
     <1>12, <1>13, <1>14, <1>15, <1>16, <1>17, <1>18, <1>19, <1>20, <1>21,
     <1>22, <1>23, <1>24, <1>25, <1>26
  DEF Next, Handle, Serve, WriteStep, vars, Reload, Damage

\* Every step keeps the histories and the budgets well typed.
LEMMA HistoryStep == LockInv /\ [Next]_vars => HistoryTypes'
<1> SUFFICES ASSUME LockInv, [Next]_vars PROVE HistoryTypes'
  OBVIOUS
<1>1. ASSUME NEW h \in Handlers, Refuse(h) PROVE HistoryTypes'
  BY <1>1 DEF LockInv, TypeOK, HistoryTypes, Refuse, Report, ReportOf, Node, Request, NoReport, ForgetMemory
<1>2. ASSUME NEW h \in Handlers, PreflightFails(h) PROVE HistoryTypes'
  BY <1>2 DEF LockInv, TypeOK, HistoryTypes, PreflightFails, Report, ReportOf, Node, Request, NoReport, ForgetMemory
<1>3. ASSUME NEW h \in Handlers, Commit(h) PROVE HistoryTypes'
  BY <1>3 DEF LockInv, TypeOK, HistoryTypes, Commit, Report, ReportOf, Node, Request, NoReport, ForgetMemory
<1>4. ASSUME NEW p \in Persisters, SkipBackup(p) PROVE HistoryTypes'
  BY <1>4 DEF LockInv, TypeOK, HistoryTypes, SkipBackup, Report, ReportOf, Node, Request, NoReport, ForgetMemory
<1>5. ASSUME NEW p \in Persisters, WriteFails(p) PROVE HistoryTypes'
  BY <1>5 DEF LockInv, TypeOK, HistoryTypes, WriteFails, Report, ReportOf, Node, Request, NoReport, ForgetMemory
<1>6. ASSUME NEW a \in Agents, Ingest(a) PROVE HistoryTypes'
  BY <1>6 DEF LockInv, TypeOK, HistoryTypes, Ingest, Report, ReportOf, Node, Request, NoReport, ForgetMemory
<1>7. CASE Kill
  BY <1>7 DEF LockInv, TypeOK, HistoryTypes, Kill, Report, ReportOf, Node, Request, NoReport, ForgetMemory
<1>8. CASE PowerFailure
  BY <1>8 DEF LockInv, TypeOK, HistoryTypes, PowerFailure, Report, ReportOf, Node, Request, NoReport, ForgetMemory
<1>9. CASE Damage
  BY <1>9 DEF LockInv, TypeOK, HistoryTypes, Damage, Report, ReportOf, Node, Request, NoReport, ForgetMemory
<1>10. CASE Start
  <2>1. updateID' \in Nat
    BY <1>10, RestoreTypes, RecoveredType DEF LockInv, TypeOK, Start, F!FilesTypeOK, F!File
  <2>2. bootID' \in Nat /\ UNCHANGED <<committed, acked, source, budget>>
    BY <1>10, <2>1 DEF Start
  <2> QED BY <2>2 DEF LockInv, TypeOK, HistoryTypes
<1>11. CASE StartFromBackup
  <2>1. updateID' \in Nat
    BY <1>11, RestoreTypes, DecodedDocument DEF LockInv, TypeOK, StartFromBackup, F!FilesTypeOK, F!File
  <2> QED BY <1>11, <2>1 DEF LockInv, TypeOK, StartFromBackup, HistoryTypes
<1>12. CASE UNCHANGED <<history, budget>>
  BY <1>12 DEF LockInv, TypeOK, HistoryTypes
<1> QED
  BY <1>1, <1>2, <1>3, <1>4, <1>5, <1>6, <1>7, <1>8, <1>9, <1>10, <1>11, <1>12
  DEF Next, Handle, Serve, WriteStep, vars, Begin, LockDevice, LockPersist,
      Accept, Rollback, WriteBackup, SyncBackup, WritePrimary, SyncPrimary,
      StatsLock, StatsSnapshot, StatsDone, Connect, ReadUpdate, Disconnect,
      Reload

\* Every step keeps the files well typed.
LEMMA FilesStep == LockInv /\ [Next]_vars => F!FilesTypeOK'
<1> SUFFICES ASSUME LockInv, [Next]_vars PROVE F!FilesTypeOK'
  OBVIOUS
<1>1. ASSUME NEW p \in Persisters, WriteBackup(p) PROVE F!FilesTypeOK'
  <2>1. visible["primary"] \in F!Content
    BY DEF LockInv, TypeOK, F!FilesTypeOK, F!File
  <2> QED BY <1>1, <2>1, RenameTypes DEF LockInv, TypeOK, WriteBackup, F!File
<1>2. ASSUME NEW p \in Persisters, SyncBackup(p) PROVE F!FilesTypeOK'
  BY <1>2, ValidContent, RenameTypes, SyncTypes, PowerLossTypes, DamagedTypes
  DEF LockInv, TypeOK, SyncBackup, F!File
<1>3. ASSUME NEW p \in Persisters, WritePrimary(p) PROVE F!FilesTypeOK'
  BY <1>3, ValidContent, RenameTypes, SyncTypes, PowerLossTypes, DamagedTypes
  DEF LockInv, TypeOK, WritePrimary, F!File
<1>4. ASSUME NEW p \in Persisters, SyncPrimary(p) PROVE F!FilesTypeOK'
  BY <1>4, ValidContent, RenameTypes, SyncTypes, PowerLossTypes, DamagedTypes
  DEF LockInv, TypeOK, SyncPrimary, F!File
<1>5. CASE PowerFailure
  BY <1>5, ValidContent, RenameTypes, SyncTypes, PowerLossTypes, DamagedTypes
  DEF LockInv, TypeOK, PowerFailure, F!File
<1>6. CASE Damage
  BY <1>6, ValidContent, RenameTypes, SyncTypes, PowerLossTypes, DamagedTypes
  DEF LockInv, TypeOK, Damage, F!File
<1>7. CASE UNCHANGED disk
  BY <1>7 DEF LockInv, TypeOK, F!FilesTypeOK
<1> QED
  BY <1>1, <1>2, <1>3, <1>4, <1>5, <1>6, <1>7
  DEF Next, Handle, Serve, WriteStep, vars, Begin, LockDevice, LockPersist,
      Refuse, PreflightFails, Accept, Commit, Rollback, SkipBackup,
      WriteFails, StatsLock, StatsSnapshot, StatsDone, Connect, ReadUpdate,
      Ingest, Disconnect, Reload, Kill, Start, StartFromBackup

\* Every step keeps the types; the locks say which goroutine may be where.
LEMMA TypeStep == LockInv /\ [Next]_vars => TypeOK'
BY MemoryStep, ControlStep, HistoryStep, FilesStep
DEF TypeOK, ControlTypes, MemoryTypes, HistoryTypes
-----------------------------------------------------------------------------
\* Goroutines stay on devices of their protocol, on the way the code takes.
LEMMA PlacedStep == LockInv /\ [Next]_vars => Placed'
<1> SUFFICES ASSUME LockInv, [Next]_vars PROVE Placed'
  OBVIOUS
<1>1. ASSUME NEW h \in Handlers, NEW d \in V2Devices, NEW t \in 1..MaxTime, NEW g \in Digests, Begin(h, d, t, g) PROVE Placed'
  BY <1>1 DEF LockInv, TypeOK, Placed, Begin, Release, Goto, Request, NoRequest,
             ForgetMemory, Writing, Critical
<1>2. ASSUME NEW p \in Handlers \cup Agents, LockDevice(p) PROVE Placed'
  BY <1>2 DEF LockInv, TypeOK, Placed, LockDevice, Release, Goto, Request, NoRequest,
             ForgetMemory, Writing, Critical
<1>3. ASSUME NEW h \in Handlers, LockPersist(h) PROVE Placed'
  BY <1>3 DEF LockInv, TypeOK, Placed, LockPersist, Release, Goto, Request, NoRequest,
             ForgetMemory, Writing, Critical
<1>4. ASSUME NEW h \in Handlers, Refuse(h) PROVE Placed'
  BY <1>4 DEF LockInv, TypeOK, Placed, Refuse, Release, Goto, Request, NoRequest,
             ForgetMemory, Writing, Critical
<1>5. ASSUME NEW h \in Handlers, PreflightFails(h) PROVE Placed'
  BY <1>5 DEF LockInv, TypeOK, Placed, PreflightFails, Release, Goto, Request, NoRequest,
             ForgetMemory, Writing, Critical
<1>6. ASSUME NEW h \in Handlers, Accept(h) PROVE Placed'
  BY <1>6 DEF LockInv, TypeOK, Placed, Accept, Release, Goto, Request, NoRequest,
             ForgetMemory, Writing, Critical
<1>7. ASSUME NEW h \in Handlers, Commit(h) PROVE Placed'
  BY <1>7 DEF LockInv, TypeOK, Placed, Commit, Release, Goto, Request, NoRequest,
             ForgetMemory, Writing, Critical
<1>8. ASSUME NEW h \in Handlers, Rollback(h) PROVE Placed'
  BY <1>8 DEF LockInv, TypeOK, Placed, Rollback, Release, Goto, Request, NoRequest,
             ForgetMemory, Writing, Critical
<1>9. ASSUME NEW p \in Persisters, WriteBackup(p) PROVE Placed'
  BY <1>9 DEF LockInv, TypeOK, Placed, WriteBackup, Release, Goto, Request, NoRequest,
             ForgetMemory, Writing, Critical
<1>10. ASSUME NEW p \in Persisters, SkipBackup(p) PROVE Placed'
  BY <1>10 DEF LockInv, TypeOK, Placed, SkipBackup, Release, Goto, Request, NoRequest,
             ForgetMemory, Writing, Critical
<1>11. ASSUME NEW p \in Persisters, SyncBackup(p) PROVE Placed'
  BY <1>11 DEF LockInv, TypeOK, Placed, SyncBackup, Release, Goto, Request, NoRequest,
             ForgetMemory, Writing, Critical
<1>12. ASSUME NEW p \in Persisters, WritePrimary(p) PROVE Placed'
  BY <1>12 DEF LockInv, TypeOK, Placed, WritePrimary, Release, Goto, Request, NoRequest,
             ForgetMemory, Writing, Critical
<1>13. ASSUME NEW p \in Persisters, SyncPrimary(p) PROVE Placed'
  BY <1>13 DEF LockInv, TypeOK, Placed, SyncPrimary, Release, Goto, Request, NoRequest,
             ForgetMemory, Writing, Critical
<1>14. ASSUME NEW p \in Persisters, WriteFails(p) PROVE Placed'
  BY <1>14 DEF LockInv, TypeOK, Placed, WriteFails, Release, Goto, Request, NoRequest,
             ForgetMemory, Writing, Critical
<1>15. CASE StatsLock
  BY <1>15 DEF LockInv, TypeOK, Placed, StatsLock, Release, Goto, Request, NoRequest,
             ForgetMemory, Writing, Critical
<1>16. CASE StatsSnapshot
  BY <1>16 DEF LockInv, TypeOK, Placed, StatsSnapshot, Release, Goto, Request, NoRequest,
             ForgetMemory, Writing, Critical
<1>17. CASE StatsDone
  BY <1>17 DEF LockInv, TypeOK, Placed, StatsDone, Release, Goto, Request, NoRequest,
             ForgetMemory, Writing, Critical
<1>18. ASSUME NEW a \in Agents, NEW d \in LegacyDevices, Connect(a, d) PROVE Placed'
  BY <1>18 DEF LockInv, TypeOK, Placed, Connect, Release, Goto, Request, NoRequest,
             ForgetMemory, Writing, Critical
<1>19. ASSUME NEW a \in Agents, ReadUpdate(a) PROVE Placed'
  BY <1>19 DEF LockInv, TypeOK, Placed, ReadUpdate, Release, Goto, Request, NoRequest,
             ForgetMemory, Writing, Critical
<1>20. ASSUME NEW a \in Agents, Ingest(a) PROVE Placed'
  BY <1>20 DEF LockInv, TypeOK, Placed, Ingest, Release, Goto, Request, NoRequest,
             ForgetMemory, Writing, Critical
<1>21. ASSUME NEW a \in Agents, Disconnect(a) PROVE Placed'
  BY <1>21 DEF LockInv, TypeOK, Placed, Disconnect, Release, Goto, Request, NoRequest,
             ForgetMemory, Writing, Critical
<1>22. CASE Kill
  BY <1>22 DEF LockInv, TypeOK, Placed, Kill, Release, Goto, Request, NoRequest,
             ForgetMemory, Writing, Critical
<1>23. CASE PowerFailure
  BY <1>23 DEF LockInv, TypeOK, Placed, PowerFailure, Release, Goto, Request, NoRequest,
             ForgetMemory, Writing, Critical
<1>24. CASE Start
  BY <1>24 DEF LockInv, TypeOK, Placed, Start, Release, Goto, Request, NoRequest,
             ForgetMemory, Writing, Critical
<1>25. CASE StartFromBackup
  BY <1>25 DEF LockInv, TypeOK, Placed, StartFromBackup, Release, Goto, Request, NoRequest,
             ForgetMemory, Writing, Critical
<1>26. CASE UNCHANGED <<up, pc, req>>
  BY <1>26 DEF LockInv, Placed
<1> QED
  BY <1>1, <1>2, <1>3, <1>4, <1>5, <1>6, <1>7, <1>8, <1>9, <1>10, <1>11,
     <1>12, <1>13, <1>14, <1>15, <1>16, <1>17, <1>18, <1>19, <1>20, <1>21,
     <1>22, <1>23, <1>24, <1>25, <1>26
  DEF Next, Handle, Serve, WriteStep, vars, Reload, Damage

\* persistMu and nodeMu are taken and released where the labels say.
LEMMA LocksStep == LockInv /\ [Next]_vars => LocksHeld'
<1> SUFFICES ASSUME LockInv, [Next]_vars PROVE LocksHeld'
  OBVIOUS
<1>1. ASSUME NEW h \in Handlers, NEW d \in V2Devices, NEW t \in 1..MaxTime, NEW g \in Digests, Begin(h, d, t, g) PROVE LocksHeld'
  BY <1>1 DEF LockInv, TypeOK, Placed, LocksHeld, Begin, Release, Goto,
             ForgetMemory, Writing, Critical, Persisting
<1>2. ASSUME NEW p \in Handlers \cup Agents, LockDevice(p) PROVE LocksHeld'
  BY <1>2 DEF LockInv, TypeOK, Placed, LocksHeld, LockDevice, Release, Goto,
             ForgetMemory, Writing, Critical, Persisting
<1>3. ASSUME NEW h \in Handlers, LockPersist(h) PROVE LocksHeld'
  BY <1>3 DEF LockInv, TypeOK, Placed, LocksHeld, LockPersist, Release, Goto,
             ForgetMemory, Writing, Critical, Persisting
<1>4. ASSUME NEW h \in Handlers, Refuse(h) PROVE LocksHeld'
  BY <1>4 DEF LockInv, TypeOK, Placed, LocksHeld, Refuse, Release, Goto,
             ForgetMemory, Writing, Critical, Persisting
<1>5. ASSUME NEW h \in Handlers, PreflightFails(h) PROVE LocksHeld'
  BY <1>5 DEF LockInv, TypeOK, Placed, LocksHeld, PreflightFails, Release, Goto,
             ForgetMemory, Writing, Critical, Persisting
<1>6. ASSUME NEW h \in Handlers, Accept(h) PROVE LocksHeld'
  BY <1>6 DEF LockInv, TypeOK, Placed, LocksHeld, Accept, Release, Goto,
             ForgetMemory, Writing, Critical, Persisting
<1>7. ASSUME NEW h \in Handlers, Commit(h) PROVE LocksHeld'
  BY <1>7 DEF LockInv, TypeOK, Placed, LocksHeld, Commit, Release, Goto,
             ForgetMemory, Writing, Critical, Persisting
<1>8. ASSUME NEW h \in Handlers, Rollback(h) PROVE LocksHeld'
  BY <1>8 DEF LockInv, TypeOK, Placed, LocksHeld, Rollback, Release, Goto,
             ForgetMemory, Writing, Critical, Persisting
<1>9. ASSUME NEW p \in Persisters, WriteBackup(p) PROVE LocksHeld'
  BY <1>9 DEF LockInv, TypeOK, Placed, LocksHeld, WriteBackup, Release, Goto,
             ForgetMemory, Writing, Critical, Persisting
<1>10. ASSUME NEW p \in Persisters, SkipBackup(p) PROVE LocksHeld'
  BY <1>10 DEF LockInv, TypeOK, Placed, LocksHeld, SkipBackup, Release, Goto,
             ForgetMemory, Writing, Critical, Persisting
<1>11. ASSUME NEW p \in Persisters, SyncBackup(p) PROVE LocksHeld'
  BY <1>11 DEF LockInv, TypeOK, Placed, LocksHeld, SyncBackup, Release, Goto,
             ForgetMemory, Writing, Critical, Persisting
<1>12. ASSUME NEW p \in Persisters, WritePrimary(p) PROVE LocksHeld'
  BY <1>12 DEF LockInv, TypeOK, Placed, LocksHeld, WritePrimary, Release, Goto,
             ForgetMemory, Writing, Critical, Persisting
<1>13. ASSUME NEW p \in Persisters, SyncPrimary(p) PROVE LocksHeld'
  BY <1>13 DEF LockInv, TypeOK, Placed, LocksHeld, SyncPrimary, Release, Goto,
             ForgetMemory, Writing, Critical, Persisting
<1>14. ASSUME NEW p \in Persisters, WriteFails(p) PROVE LocksHeld'
  BY <1>14 DEF LockInv, TypeOK, Placed, LocksHeld, WriteFails, Release, Goto,
             ForgetMemory, Writing, Critical, Persisting
<1>15. CASE StatsLock
  BY <1>15 DEF LockInv, TypeOK, Placed, LocksHeld, StatsLock, Release, Goto,
             ForgetMemory, Writing, Critical, Persisting
<1>16. CASE StatsSnapshot
  BY <1>16 DEF LockInv, TypeOK, Placed, LocksHeld, StatsSnapshot, Release, Goto,
             ForgetMemory, Writing, Critical, Persisting
<1>17. CASE StatsDone
  BY <1>17 DEF LockInv, TypeOK, Placed, LocksHeld, StatsDone, Release, Goto,
             ForgetMemory, Writing, Critical, Persisting
<1>18. ASSUME NEW a \in Agents, NEW d \in LegacyDevices, Connect(a, d) PROVE LocksHeld'
  BY <1>18 DEF LockInv, TypeOK, Placed, LocksHeld, Connect, Release, Goto,
             ForgetMemory, Writing, Critical, Persisting
<1>19. ASSUME NEW a \in Agents, ReadUpdate(a) PROVE LocksHeld'
  BY <1>19 DEF LockInv, TypeOK, Placed, LocksHeld, ReadUpdate, Release, Goto,
             ForgetMemory, Writing, Critical, Persisting
<1>20. ASSUME NEW a \in Agents, Ingest(a) PROVE LocksHeld'
  BY <1>20 DEF LockInv, TypeOK, Placed, LocksHeld, Ingest, Release, Goto,
             ForgetMemory, Writing, Critical, Persisting
<1>21. ASSUME NEW a \in Agents, Disconnect(a) PROVE LocksHeld'
  BY <1>21 DEF LockInv, TypeOK, Placed, LocksHeld, Disconnect, Release, Goto,
             ForgetMemory, Writing, Critical, Persisting
<1>22. CASE Kill
  BY <1>22 DEF LockInv, TypeOK, Placed, LocksHeld, Kill, Release, Goto,
             ForgetMemory, Writing, Critical, Persisting
<1>23. CASE PowerFailure
  BY <1>23 DEF LockInv, TypeOK, Placed, LocksHeld, PowerFailure, Release, Goto,
             ForgetMemory, Writing, Critical, Persisting
<1>24. CASE UNCHANGED <<locks, pc>>
  BY <1>24 DEF LockInv, LocksHeld
<1> QED
  BY <1>1, <1>2, <1>3, <1>4, <1>5, <1>6, <1>7, <1>8, <1>9, <1>10, <1>11,
     <1>12, <1>13, <1>14, <1>15, <1>16, <1>17, <1>18, <1>19, <1>20, <1>21,
     <1>22, <1>23, <1>24
  DEF Next, Handle, Serve, WriteStep, vars, Reload, Damage, Start,
      StartFromBackup

\* The lock invariant holds initially,
LEMMA LockInit == Init => LockInv
BY DEF Init, LockInv, TypeOK, Placed, LocksHeld, Node, EmptyNode, Request, NoRequest,
       Document, EmptyDocument, Persisted, Report, NoReport, Writing, Critical, Persisting,
       F!FilesInit, F!FilesTypeOK, F!File, F!Content, F!Absent

\* and is kept by every step.
LEMMA LockStep == LockInv /\ [Next]_vars => LockInv'
BY TypeStep, PlacedStep, LocksStep DEF LockInv

\* The locks are held where the code says, and every variable keeps its type.
THEOREM LocksCorrect == Spec => []LockInv
BY LockInit, LockStep, PTL DEF Spec

\* Every variable keeps its type in every reachable state.
THEOREM TypeCorrect == Spec => []TypeOK
<1>1. LockInv => TypeOK
  BY DEF LockInv
<1> QED BY LocksCorrect, <1>1, PTL
=============================================================================
