-------------------------- MODULE GenerationProofs --------------------------
(* The update counter of DeviceServer, for every value of its constants: no   *)
(* two updates ever carry one generation, and the counter is never behind     *)
(* one, through concurrent legacy updates, failed commits that take their     *)
(* generation back, crashes and restarts.                                     *)
EXTENDS DeviceServerProofs, TLAPS

USE ConstantsAssumption DEF Procs, Persisters, Devices, memory, locks, disk, history, budget
-----------------------------------------------------------------------------
(* What the actions that move generations do to them. *)

\* Accept, as long as the counter is ahead: the report is numbered, its device
\* is the only one changed, and the snapshot shows the nodes as they are now.
LEMMA AcceptEffect ==
  ASSUME LockInv, GenerationHeadroom, NEW h \in Handlers, Accept(h)
  PROVE  /\ req[h].device \in V2Devices
         /\ updateID' = updateID + 1 /\ nodeMu' = h /\ nodeMu = None
         /\ node'[req[h].device].gen = updateID + 1
         /\ before' = node[req[h].device]
         /\ \A e \in Devices \ {req[h].device} : node'[e] = node[e]
         /\ req'[h].gen = updateID + 1 /\ req'[h].device = req[h].device
         /\ \A p \in Procs \ {h} : req'[p] = req[p]
         /\ snap'[h] = Snapshot(node') /\ \A p \in Persisters \ {h} : snap'[p] = snap[p]
<1> DEFINE d == req[h].device
<1>1. d \in V2Devices /\ node[d] \in Node
  BY DEF LockInv, TypeOK, Placed, Accept
<1>2. ~(updateID + 1 <= node[d].gen)
  BY <1>1 DEF LockInv, TypeOK, GenerationHeadroom, Node
<1>3. node' = [node EXCEPT ![d] = [node[d] EXCEPT !.at = req[h].at, !.digest = req[h].digest,
                                                 !.gen = updateID + 1, !.restored = FALSE]]
  BY <1>2 DEF Accept
<1>4. node'[d].gen = updateID + 1 /\ \A e \in Devices \ {d} : node'[e] = node[e]
  BY <1>1, <1>3 DEF LockInv, TypeOK, Node
<1>5. req'[h].gen = updateID + 1 /\ req'[h].device = d /\ \A p \in Procs \ {h} : req'[p] = req[p]
  BY <1>2 DEF Accept, LockInv, TypeOK, Request
<1>6. snap'[h] = Snapshot(node') /\ \A p \in Persisters \ {h} : snap'[p] = snap[p]
  BY <1>2 DEF Accept, LockInv, TypeOK
<1> QED BY <1>1, <1>2, <1>4, <1>5, <1>6 DEF Accept

\* A restore gives the nodes the generations of the document, and the counter
\* none smaller.
LEMMA RestoreEffect ==
  ASSUME NEW doc \in Document, RestoreFrom(doc)
  PROVE  \A d \in Devices : node'[d].gen = doc[d].gen /\ node'[d].gen <= updateID'
BY DEF RestoreFrom, RestoredNode, RestoredCounter, EmptyNode

\* A legacy update moves its generation from the connection to the node, or drops it.
LEMMA IngestEffect ==
  ASSUME LockInv, NEW a \in Agents, Ingest(a)
  PROVE  /\ req[a].device \in LegacyDevices /\ updateID' = updateID
         /\ node'[req[a].device].gen \in {node[req[a].device].gen, req[a].gen}
         /\ \A e \in Devices \ {req[a].device} : node'[e] = node[e]
         /\ req'[a].gen = 0
         /\ \A p \in Procs \ {a} : req'[p] = req[p]
<1>1. req[a].device \in LegacyDevices /\ node[req[a].device] \in Node
  BY DEF Ingest, LockInv, TypeOK, Placed
<1>2. node'[req[a].device].gen \in {node[req[a].device].gen, req[a].gen}
  <2>1. CASE LegacyOutcome(node[req[a].device], req[a]) = "accepted"
    <3>1. node' = [node EXCEPT ![req[a].device] =
                     [node[req[a].device] EXCEPT !.at = 1, !.gen = req[a].gen, !.restored = FALSE]]
      BY <2>1 DEF Ingest
    <3> QED BY <1>1, <3>1 DEF LockInv, TypeOK, Node
  <2>2. CASE LegacyOutcome(node[req[a].device], req[a]) # "accepted"
    BY <2>2 DEF Ingest
  <2> QED BY <2>1, <2>2
<1>3. \A e \in Devices \ {req[a].device} : node'[e] = node[e]
  BY <1>1 DEF Ingest, LockInv, TypeOK
<1>4. req'[a].gen = 0 /\ \A p \in Procs \ {a} : req'[p] = req[p]
  BY DEF Ingest, LockInv, TypeOK, Request
<1> QED BY <1>1, <1>2, <1>3, <1>4 DEF Ingest
-----------------------------------------------------------------------------
\* No step numbers an update twice or leaves the counter behind.
LEMMA HeadroomStep == GenerationInv /\ [Next]_vars => (GenerationHeadroom /\ GenerationsDistinct)'
<1> SUFFICES ASSUME GenerationInv, [Next]_vars PROVE (GenerationHeadroom /\ GenerationsDistinct)'
  OBVIOUS
<1>1. ASSUME NEW h \in Handlers, NEW d \in V2Devices, NEW t \in 1..MaxTime, NEW g \in Digests, Begin(h, d, t, g) PROVE (GenerationHeadroom /\ GenerationsDistinct)'
  BY <1>1 DEF GenerationInv, LockInv, TypeOK, Placed, LocksHeld, GenerationHeadroom,
      GenerationsDistinct, TakeBackSafe, Begin, Release, Goto, NoRequest, ForgetMemory, Critical, Writing, EmptyNode, EmptyDocument, CopyNodeRuntime, TakeBackGeneration, Node, Request
<1>2. ASSUME NEW h \in Handlers, Refuse(h) PROVE (GenerationHeadroom /\ GenerationsDistinct)'
  BY <1>2 DEF GenerationInv, LockInv, TypeOK, Placed, LocksHeld, GenerationHeadroom,
      GenerationsDistinct, TakeBackSafe, Refuse, Release, Goto, NoRequest, ForgetMemory, Critical, Writing, EmptyNode, EmptyDocument, CopyNodeRuntime, TakeBackGeneration, Node, Request
<1>3. ASSUME NEW h \in Handlers, PreflightFails(h) PROVE (GenerationHeadroom /\ GenerationsDistinct)'
  BY <1>3 DEF GenerationInv, LockInv, TypeOK, Placed, LocksHeld, GenerationHeadroom,
      GenerationsDistinct, TakeBackSafe, PreflightFails, Release, Goto, NoRequest, ForgetMemory, Critical, Writing, EmptyNode, EmptyDocument, CopyNodeRuntime, TakeBackGeneration, Node, Request
<1>4. ASSUME NEW h \in Handlers, Accept(h) PROVE (GenerationHeadroom /\ GenerationsDistinct)'
  <2> DEFINE d == req[h].device
  <2>0. /\ d \in V2Devices /\ updateID' = updateID + 1 /\ nodeMu' = h /\ nodeMu = None
        /\ node'[d].gen = updateID + 1 /\ before' = node[d]
        /\ \A e \in Devices \ {d} : node'[e] = node[e]
        /\ req'[h].gen = updateID + 1 /\ req'[h].device = d
        /\ \A p \in Procs \ {h} : req'[p] = req[p]
    BY <1>4, AcceptEffect DEF GenerationInv
  <2>1. \A e \in Devices : node[e].gen <= updateID /\ node[e].gen \in Nat
    BY DEF GenerationInv, GenerationHeadroom, LockInv, TypeOK, Node
  <2>2. \A p \in Procs : req[p].gen <= updateID /\ req[p].gen \in Nat /\ updateID \in Nat
    BY DEF GenerationInv, GenerationHeadroom, LockInv, TypeOK, Request
  <2>3. GenerationHeadroom'
    BY <2>0, <2>1, <2>2 DEF GenerationHeadroom
  <2>4. \A e, f \in Devices : e # f /\ node'[e].gen = node'[f].gen => node'[e].gen = 0
    BY <2>0, <2>1, <2>2 DEF GenerationInv, GenerationsDistinct
  <2>5. \A a \in Agents, e \in Devices : req'[a].gen = node'[e].gen => req'[a].gen = 0
    BY <2>0, <2>1, <2>2 DEF GenerationInv, GenerationsDistinct
  <2>6. \A a, b \in Agents : a # b /\ req'[a].gen = req'[b].gen => req'[a].gen = 0
    BY <2>0 DEF GenerationInv, GenerationsDistinct
  <2> QED BY <2>3, <2>4, <2>5, <2>6 DEF GenerationsDistinct
<1>5. ASSUME NEW h \in Handlers, Commit(h) PROVE (GenerationHeadroom /\ GenerationsDistinct)'
  BY <1>5 DEF GenerationInv, LockInv, TypeOK, Placed, LocksHeld, GenerationHeadroom,
      GenerationsDistinct, TakeBackSafe, Commit, Release, Goto, NoRequest, ForgetMemory, Critical, Writing, EmptyNode, EmptyDocument, CopyNodeRuntime, TakeBackGeneration, Node, Request
<1>6. ASSUME NEW h \in Handlers, Rollback(h) PROVE (GenerationHeadroom /\ GenerationsDistinct)'
  BY <1>6 DEF GenerationInv, LockInv, TypeOK, Placed, LocksHeld, GenerationHeadroom,
      GenerationsDistinct, TakeBackSafe, Rollback, Release, Goto, NoRequest, ForgetMemory, Critical, Writing, EmptyNode, EmptyDocument, CopyNodeRuntime, TakeBackGeneration, Node, Request
<1>7. CASE StatsDone
  BY <1>7 DEF GenerationInv, LockInv, TypeOK, Placed, LocksHeld, GenerationHeadroom,
      GenerationsDistinct, TakeBackSafe, StatsDone, Release, Goto, NoRequest, ForgetMemory, Critical, Writing, EmptyNode, EmptyDocument, CopyNodeRuntime, TakeBackGeneration, Node, Request
<1>8. ASSUME NEW a \in Agents, NEW d \in LegacyDevices, Connect(a, d) PROVE (GenerationHeadroom /\ GenerationsDistinct)'
  BY <1>8 DEF GenerationInv, LockInv, TypeOK, Placed, LocksHeld, GenerationHeadroom,
      GenerationsDistinct, TakeBackSafe, Connect, Release, Goto, NoRequest, ForgetMemory, Critical, Writing, EmptyNode, EmptyDocument, CopyNodeRuntime, TakeBackGeneration, Node, Request
<1>9. ASSUME NEW a \in Agents, ReadUpdate(a) PROVE (GenerationHeadroom /\ GenerationsDistinct)'
  BY <1>9 DEF GenerationInv, LockInv, TypeOK, Placed, LocksHeld, GenerationHeadroom,
      GenerationsDistinct, TakeBackSafe, ReadUpdate, Release, Goto, NoRequest, ForgetMemory, Critical, Writing, EmptyNode, EmptyDocument, CopyNodeRuntime, TakeBackGeneration, Node, Request
<1>10. ASSUME NEW a \in Agents, Ingest(a) PROVE (GenerationHeadroom /\ GenerationsDistinct)'
  <2> DEFINE d == req[a].device
  <2>1. /\ d \in Devices /\ updateID' = updateID /\ req'[a].gen = 0
        /\ node'[d].gen \in {node[d].gen, req[a].gen}
        /\ \A e \in Devices \ {d} : node'[e] = node[e]
        /\ \A p \in Procs \ {a} : req'[p] = req[p]
    BY <1>10, IngestEffect DEF GenerationInv
  <2>2. GenerationHeadroom'
    BY <1>10, <2>1 DEF GenerationInv, GenerationHeadroom, LockInv, TypeOK
  <2>3. GenerationsDistinct'
    BY <1>10, <2>1 DEF GenerationInv, GenerationsDistinct
  <2> QED BY <1>10, <2>2, <2>3
<1>11. ASSUME NEW a \in Agents, Disconnect(a) PROVE (GenerationHeadroom /\ GenerationsDistinct)'
  BY <1>11 DEF GenerationInv, LockInv, TypeOK, Placed, LocksHeld, GenerationHeadroom,
      GenerationsDistinct, TakeBackSafe, Disconnect, Release, Goto, NoRequest, ForgetMemory, Critical, Writing, EmptyNode, EmptyDocument, CopyNodeRuntime, TakeBackGeneration, Node, Request
<1>12. CASE Reload
  <2>1. \A d \in Devices : node'[d].gen = node[d].gen
    BY <1>12 DEF Reload, CopyNodeRuntime, GenerationInv, LockInv, TypeOK, Node
  <2>2. UNCHANGED <<updateID, req>>
    BY <1>12 DEF Reload
  <2> QED BY <1>12, <2>1, <2>2 DEF GenerationInv, GenerationHeadroom, GenerationsDistinct
<1>13. CASE Kill
  BY <1>13 DEF GenerationInv, LockInv, TypeOK, Placed, LocksHeld, GenerationHeadroom,
      GenerationsDistinct, TakeBackSafe, Kill, Release, Goto, NoRequest, ForgetMemory, Critical, Writing, EmptyNode, EmptyDocument, CopyNodeRuntime, TakeBackGeneration, Node, Request
<1>14. CASE PowerFailure
  BY <1>14 DEF GenerationInv, LockInv, TypeOK, Placed, LocksHeld, GenerationHeadroom,
      GenerationsDistinct, TakeBackSafe, PowerFailure, Release, Goto, NoRequest, ForgetMemory, Critical, Writing, EmptyNode, EmptyDocument, CopyNodeRuntime, TakeBackGeneration, Node, Request
<1>15. CASE Start
  <2>2. req' = req /\ \A p \in Procs : req[p].gen = 0
    BY <1>15 DEF Start, GenerationInv, LockInv, Placed, NoRequest
  <2>3. CASE F!Readable(visible["primary"], visible["backup"])
    <3> DEFINE doc == F!Recovered(visible["primary"], visible["backup"])
    <3>1. doc \in Document
      BY <1>15, <2>3, RecoveredType DEF GenerationInv, LockInv, TypeOK, F!FilesTypeOK, F!File
    <3>2. NumberedApart(doc)
      BY <1>15, <2>3 DEF GenerationInv, FilesApart, F!Readable, F!Recovered, F!File
    <3>3. RestoreFrom(doc)
      BY <1>15, <2>3 DEF Start, F!Readable, F!StartsEmpty, F!IsValid, F!Absent
    <3>4. updateID' \in Nat /\ \A d \in Devices : node'[d].gen = doc[d].gen /\ node'[d].gen <= updateID'
      BY <1>15, <3>1, <3>3, RestoreEffect, RestoreTypes
    <3> QED BY <1>15, <2>2, <3>2, <3>4 DEF GenerationHeadroom, GenerationsDistinct, NumberedApart
  <2>4. CASE ~F!Readable(visible["primary"], visible["backup"])
    BY <1>15, <2>2, <2>4 DEF Start, EmptyNode, GenerationHeadroom, GenerationsDistinct
  <2> QED BY <1>15, <2>3, <2>4
<1>16. CASE StartFromBackup
  <2>2. req' = req /\ \A p \in Procs : req[p].gen = 0
    BY <1>16 DEF StartFromBackup, GenerationInv, LockInv, Placed, NoRequest
  <2>3. visible["backup"].doc \in Document /\ NumberedApart(visible["backup"].doc)
    BY <1>16, DecodedDocument DEF StartFromBackup, GenerationInv, FilesApart, LockInv, TypeOK, F!FilesTypeOK, F!File
  <2>4. \A d \in Devices : node'[d].gen = visible["backup"].doc[d].gen /\ node'[d].gen <= updateID'
    BY <1>16, <2>3, RestoreEffect DEF StartFromBackup
  <2>5. updateID' \in Nat
    BY <1>16, <2>3, RestoreTypes DEF StartFromBackup
  <2> QED BY <1>16, <2>2, <2>3, <2>4, <2>5 DEF GenerationHeadroom, GenerationsDistinct, NumberedApart
<1>17. CASE UNCHANGED <<node, updateID, req>>
  BY <1>17 DEF GenerationInv, GenerationHeadroom, GenerationsDistinct
<1> QED
  BY <1>1, <1>2, <1>3, <1>4, <1>5, <1>6, <1>7, <1>8, <1>9, <1>10, <1>11,
     <1>12, <1>13, <1>14, <1>15, <1>16, <1>17
  DEF Next, Handle, Serve, WriteStep, vars, LockDevice, LockPersist,
      WriteBackup, SkipBackup, SyncBackup, WritePrimary, SyncPrimary,
      WriteFails, StatsLock, StatsSnapshot, Damage

\* A commit can always give its generation back.
LEMMA TakeBackStep == GenerationInv /\ [Next]_vars => TakeBackSafe'
<1> SUFFICES ASSUME GenerationInv, [Next]_vars PROVE TakeBackSafe'
  OBVIOUS
<1>1. ASSUME NEW h \in Handlers, NEW d \in V2Devices, NEW t \in 1..MaxTime, NEW g \in Digests, Begin(h, d, t, g) PROVE TakeBackSafe'
  BY <1>1 DEF GenerationInv, LockInv, TypeOK, Placed, LocksHeld, GenerationHeadroom,
      GenerationsDistinct, TakeBackSafe, Begin, Release, Goto, NoRequest, ForgetMemory, Critical, Writing, EmptyNode, EmptyDocument, CopyNodeRuntime, TakeBackGeneration, Node, Request
<1>2. ASSUME NEW h \in Handlers, Refuse(h) PROVE TakeBackSafe'
  BY <1>2 DEF GenerationInv, LockInv, TypeOK, Placed, LocksHeld, GenerationHeadroom,
      GenerationsDistinct, TakeBackSafe, Refuse, Release, Goto, NoRequest, ForgetMemory, Critical, Writing, EmptyNode, EmptyDocument, CopyNodeRuntime, TakeBackGeneration, Node, Request
<1>3. ASSUME NEW h \in Handlers, PreflightFails(h) PROVE TakeBackSafe'
  BY <1>3 DEF GenerationInv, LockInv, TypeOK, Placed, LocksHeld, GenerationHeadroom,
      GenerationsDistinct, TakeBackSafe, PreflightFails, Release, Goto, NoRequest, ForgetMemory, Critical, Writing, EmptyNode, EmptyDocument, CopyNodeRuntime, TakeBackGeneration, Node, Request
<1>4. ASSUME NEW h \in Handlers, Accept(h) PROVE TakeBackSafe'
  <2> DEFINE d == req[h].device
  <2>0. /\ d \in V2Devices /\ updateID' = updateID + 1 /\ nodeMu' = h /\ nodeMu = None
        /\ node'[d].gen = updateID + 1 /\ before' = node[d]
        /\ \A e \in Devices \ {d} : node'[e] = node[e]
        /\ req'[h].gen = updateID + 1 /\ req'[h].device = d
        /\ \A p \in Procs \ {h} : req'[p] = req[p]
    BY <1>4, AcceptEffect DEF GenerationInv
  <2>1. \A p \in Persisters : nodeMu' # p => req'[p].gen = 0
    BY <2>0 DEF GenerationInv, TakeBackSafe
  <2>2. before'.gen < req'[h].gen
    BY <2>0 DEF GenerationInv, GenerationHeadroom, LockInv, TypeOK, Node
  <2>3. \A e \in Devices \ {d} : node'[e].gen = before'.gen => before'.gen = 0
    BY <2>0 DEF GenerationInv, GenerationsDistinct
  <2>4. \A a \in Agents : req'[a].gen = before'.gen => before'.gen = 0
    BY <2>0 DEF GenerationInv, GenerationsDistinct
  <2> QED BY <2>0, <2>1, <2>2, <2>3, <2>4 DEF TakeBackSafe
<1>5. ASSUME NEW h \in Handlers, Commit(h) PROVE TakeBackSafe'
  BY <1>5 DEF GenerationInv, LockInv, TypeOK, Placed, LocksHeld, GenerationHeadroom,
      GenerationsDistinct, TakeBackSafe, Commit, Release, Goto, NoRequest, ForgetMemory, Critical, Writing, EmptyNode, EmptyDocument, CopyNodeRuntime, TakeBackGeneration, Node, Request
<1>6. ASSUME NEW h \in Handlers, Rollback(h) PROVE TakeBackSafe'
  BY <1>6 DEF GenerationInv, LockInv, TypeOK, Placed, LocksHeld, GenerationHeadroom,
      GenerationsDistinct, TakeBackSafe, Rollback, Release, Goto, NoRequest, ForgetMemory, Critical, Writing, EmptyNode, EmptyDocument, CopyNodeRuntime, TakeBackGeneration, Node, Request
<1>7. CASE StatsDone
  BY <1>7 DEF GenerationInv, LockInv, TypeOK, Placed, LocksHeld, GenerationHeadroom,
      GenerationsDistinct, TakeBackSafe, StatsDone, Release, Goto, NoRequest, ForgetMemory, Critical, Writing, EmptyNode, EmptyDocument, CopyNodeRuntime, TakeBackGeneration, Node, Request
<1>8. ASSUME NEW a \in Agents, NEW d \in LegacyDevices, Connect(a, d) PROVE TakeBackSafe'
  BY <1>8 DEF GenerationInv, LockInv, TypeOK, Placed, LocksHeld, GenerationHeadroom,
      GenerationsDistinct, TakeBackSafe, Connect, Release, Goto, NoRequest, ForgetMemory, Critical, Writing, EmptyNode, EmptyDocument, CopyNodeRuntime, TakeBackGeneration, Node, Request
<1>9. ASSUME NEW a \in Agents, ReadUpdate(a) PROVE TakeBackSafe'
  BY <1>9 DEF GenerationInv, LockInv, TypeOK, Placed, LocksHeld, GenerationHeadroom,
      GenerationsDistinct, TakeBackSafe, ReadUpdate, Release, Goto, NoRequest, ForgetMemory, Critical, Writing, EmptyNode, EmptyDocument, CopyNodeRuntime, TakeBackGeneration, Node, Request
<1>10. ASSUME NEW a \in Agents, Ingest(a) PROVE TakeBackSafe'
  BY <1>10 DEF GenerationInv, LockInv, TypeOK, Placed, LocksHeld, GenerationHeadroom,
      GenerationsDistinct, TakeBackSafe, Ingest, Release, Goto, NoRequest, ForgetMemory, Critical, Writing, EmptyNode, EmptyDocument, CopyNodeRuntime, TakeBackGeneration, Node, Request
<1>11. ASSUME NEW a \in Agents, Disconnect(a) PROVE TakeBackSafe'
  BY <1>11 DEF GenerationInv, LockInv, TypeOK, Placed, LocksHeld, GenerationHeadroom,
      GenerationsDistinct, TakeBackSafe, Disconnect, Release, Goto, NoRequest, ForgetMemory, Critical, Writing, EmptyNode, EmptyDocument, CopyNodeRuntime, TakeBackGeneration, Node, Request
<1>12. CASE Reload
  BY <1>12 DEF GenerationInv, LockInv, TypeOK, Placed, LocksHeld, GenerationHeadroom,
      GenerationsDistinct, TakeBackSafe, Reload, Release, Goto, NoRequest, ForgetMemory, Critical, Writing, EmptyNode, EmptyDocument, CopyNodeRuntime, TakeBackGeneration, Node, Request
<1>13. CASE Kill
  BY <1>13 DEF GenerationInv, LockInv, TypeOK, Placed, LocksHeld, GenerationHeadroom,
      GenerationsDistinct, TakeBackSafe, Kill, Release, Goto, NoRequest, ForgetMemory, Critical, Writing, EmptyNode, EmptyDocument, CopyNodeRuntime, TakeBackGeneration, Node, Request
<1>14. CASE PowerFailure
  BY <1>14 DEF GenerationInv, LockInv, TypeOK, Placed, LocksHeld, GenerationHeadroom,
      GenerationsDistinct, TakeBackSafe, PowerFailure, Release, Goto, NoRequest, ForgetMemory, Critical, Writing, EmptyNode, EmptyDocument, CopyNodeRuntime, TakeBackGeneration, Node, Request
<1>15. CASE Start
  BY <1>15 DEF GenerationInv, LockInv, TypeOK, Placed, LocksHeld, GenerationHeadroom,
      GenerationsDistinct, TakeBackSafe, Start, Release, Goto, NoRequest, ForgetMemory, Critical, Writing, EmptyNode, EmptyDocument, CopyNodeRuntime, TakeBackGeneration, Node, Request
<1>16. CASE StartFromBackup
  BY <1>16 DEF GenerationInv, LockInv, TypeOK, Placed, LocksHeld, GenerationHeadroom,
      GenerationsDistinct, TakeBackSafe, StartFromBackup, Release, Goto, NoRequest, ForgetMemory, Critical, Writing, EmptyNode, EmptyDocument, CopyNodeRuntime, TakeBackGeneration, Node, Request
<1>17. CASE UNCHANGED <<node, nodeMu, before, req>>
  BY <1>17 DEF GenerationInv, TakeBackSafe
<1> QED
  BY <1>1, <1>2, <1>3, <1>4, <1>5, <1>6, <1>7, <1>8, <1>9, <1>10, <1>11,
     <1>12, <1>13, <1>14, <1>15, <1>16, <1>17
  DEF Next, Handle, Serve, WriteStep, vars, LockDevice, LockPersist,
      WriteBackup, SkipBackup, SyncBackup, WritePrimary, SyncPrimary,
      WriteFails, StatsLock, StatsSnapshot, Damage

\* No file gets a document with a generation twice.
LEMMA ApartStep == GenerationInv /\ GenerationsDistinct' /\ [Next]_vars => FilesApart'
<1> SUFFICES ASSUME GenerationInv /\ GenerationsDistinct', [Next]_vars PROVE FilesApart'
  OBVIOUS
<1>1. ASSUME NEW h \in Handlers, Accept(h) PROVE FilesApart'
  <2>0. snap'[h] = Snapshot(node')
    BY <1>1, AcceptEffect DEF GenerationInv
  <2>0a. \A d \in Devices : snap'[h][d].gen = node'[d].gen
    BY <1>1, <2>0 DEF Snapshot, PersistedDevice
  <2>1. NumberedApart(snap'[h])
    BY <1>1, <2>0a DEF NumberedApart, GenerationsDistinct
  <2>2. \A p \in Persisters \ {h} : NumberedApart(snap'[p])
    BY <1>1, AcceptEffect DEF GenerationInv, FilesApart, NumberedApart
  <2>3. UNCHANGED disk
    BY <1>1 DEF Accept
  <2> QED BY <1>1, <2>1, <2>2, <2>3 DEF GenerationInv, FilesApart, NumberedApart
<1>2. ASSUME NEW h \in Handlers, Commit(h) PROVE FilesApart'
  BY <1>2 DEF GenerationInv, LockInv, TypeOK, Placed, LocksHeld, FilesApart, NumberedApart,
      GenerationsDistinct, Commit, ForgetMemory, EmptyDocument, Snapshot, PersistedDevice,
      F!Rename, F!SyncDirectory, F!PowerLoss, F!DamagePrimary, F!Valid, F!IsValid, F!Absent, F!Corrupt, F!File
<1>3. ASSUME NEW h \in Handlers, Rollback(h) PROVE FilesApart'
  BY <1>3 DEF GenerationInv, LockInv, TypeOK, Placed, LocksHeld, FilesApart, NumberedApart,
      GenerationsDistinct, Rollback, ForgetMemory, EmptyDocument, Snapshot, PersistedDevice,
      F!Rename, F!SyncDirectory, F!PowerLoss, F!DamagePrimary, F!Valid, F!IsValid, F!Absent, F!Corrupt, F!File
<1>4. ASSUME NEW p \in Persisters, WriteBackup(p) PROVE FilesApart'
  BY <1>4 DEF GenerationInv, LockInv, TypeOK, Placed, LocksHeld, FilesApart, NumberedApart,
      GenerationsDistinct, WriteBackup, ForgetMemory, EmptyDocument, Snapshot, PersistedDevice,
      F!Rename, F!SyncDirectory, F!PowerLoss, F!DamagePrimary, F!Valid, F!IsValid, F!Absent, F!Corrupt, F!File
<1>5. ASSUME NEW p \in Persisters, SyncBackup(p) PROVE FilesApart'
  BY <1>5 DEF GenerationInv, LockInv, TypeOK, Placed, LocksHeld, FilesApart, NumberedApart,
      GenerationsDistinct, SyncBackup, ForgetMemory, EmptyDocument, Snapshot, PersistedDevice,
      F!Rename, F!SyncDirectory, F!PowerLoss, F!DamagePrimary, F!Valid, F!IsValid, F!Absent, F!Corrupt, F!File
<1>6. ASSUME NEW p \in Persisters, WritePrimary(p) PROVE FilesApart'
  BY <1>6 DEF GenerationInv, LockInv, TypeOK, Placed, LocksHeld, FilesApart, NumberedApart,
      GenerationsDistinct, WritePrimary, ForgetMemory, EmptyDocument, Snapshot, PersistedDevice,
      F!Rename, F!SyncDirectory, F!PowerLoss, F!DamagePrimary, F!Valid, F!IsValid, F!Absent, F!Corrupt, F!File
<1>7. ASSUME NEW p \in Persisters, SyncPrimary(p) PROVE FilesApart'
  BY <1>7 DEF GenerationInv, LockInv, TypeOK, Placed, LocksHeld, FilesApart, NumberedApart,
      GenerationsDistinct, SyncPrimary, ForgetMemory, EmptyDocument, Snapshot, PersistedDevice,
      F!Rename, F!SyncDirectory, F!PowerLoss, F!DamagePrimary, F!Valid, F!IsValid, F!Absent, F!Corrupt, F!File
<1>8. CASE StatsSnapshot
  BY <1>8 DEF GenerationInv, LockInv, TypeOK, Placed, LocksHeld, FilesApart, NumberedApart,
      GenerationsDistinct, StatsSnapshot, ForgetMemory, EmptyDocument, Snapshot, PersistedDevice,
      F!Rename, F!SyncDirectory, F!PowerLoss, F!DamagePrimary, F!Valid, F!IsValid, F!Absent, F!Corrupt, F!File
<1>9. CASE StatsDone
  BY <1>9 DEF GenerationInv, LockInv, TypeOK, Placed, LocksHeld, FilesApart, NumberedApart,
      GenerationsDistinct, StatsDone, ForgetMemory, EmptyDocument, Snapshot, PersistedDevice,
      F!Rename, F!SyncDirectory, F!PowerLoss, F!DamagePrimary, F!Valid, F!IsValid, F!Absent, F!Corrupt, F!File
<1>10. CASE Kill
  BY <1>10 DEF GenerationInv, LockInv, TypeOK, Placed, LocksHeld, FilesApart, NumberedApart,
      GenerationsDistinct, Kill, ForgetMemory, EmptyDocument, Snapshot, PersistedDevice,
      F!Rename, F!SyncDirectory, F!PowerLoss, F!DamagePrimary, F!Valid, F!IsValid, F!Absent, F!Corrupt, F!File
<1>11. CASE PowerFailure
  BY <1>11 DEF GenerationInv, LockInv, TypeOK, Placed, LocksHeld, FilesApart, NumberedApart,
      GenerationsDistinct, PowerFailure, ForgetMemory, EmptyDocument, Snapshot, PersistedDevice,
      F!Rename, F!SyncDirectory, F!PowerLoss, F!DamagePrimary, F!Valid, F!IsValid, F!Absent, F!Corrupt, F!File
<1>12. CASE Damage
  BY <1>12 DEF GenerationInv, LockInv, TypeOK, Placed, LocksHeld, FilesApart, NumberedApart,
      GenerationsDistinct, Damage, ForgetMemory, EmptyDocument, Snapshot, PersistedDevice,
      F!Rename, F!SyncDirectory, F!PowerLoss, F!DamagePrimary, F!Valid, F!IsValid, F!Absent, F!Corrupt, F!File
<1>13. CASE UNCHANGED <<disk, snap>>
  BY <1>13 DEF GenerationInv, FilesApart
<1> QED
  BY <1>1, <1>2, <1>3, <1>4, <1>5, <1>6, <1>7, <1>8, <1>9, <1>10, <1>11,
     <1>12, <1>13
  DEF Next, Handle, Serve, WriteStep, vars, Begin, LockDevice, LockPersist,
      Refuse, PreflightFails, SkipBackup, WriteFails, StatsLock, Connect,
      ReadUpdate, Ingest, Disconnect, Reload, Start, StartFromBackup

\* The generation invariant holds initially,
LEMMA GenerationInit == Init => GenerationInv
BY LockInit DEF Init, GenerationInv, GenerationHeadroom, GenerationsDistinct, FilesApart,
       NumberedApart, TakeBackSafe, EmptyNode, NoRequest, EmptyDocument, F!FilesInit, F!File,
       F!IsValid, F!Absent

\* and is kept by every step: only Accept, Rollback, Connect and ReadUpdate,
\* Ingest, the writes and the restart touch a generation.
LEMMA GenerationStep == GenerationInv /\ [Next]_vars => GenerationInv'
<1> SUFFICES ASSUME GenerationInv, [Next]_vars PROVE GenerationInv'
  OBVIOUS
<1>1. LockInv'
  BY LockStep DEF GenerationInv
<1> QED BY <1>1, HeadroomStep, TakeBackStep, ApartStep DEF GenerationInv

\* The counter is never behind a generation in use: no v2 update of a
\* registered device is ever refused as errStaleGeneration.
THEOREM CounterAhead == Spec => []GenerationHeadroom
<1>1. GenerationInv => GenerationHeadroom
  BY DEF GenerationInv
<1> QED BY GenerationInit, GenerationStep, <1>1, PTL DEF Spec

\* No two updates carry one generation.
THEOREM NumberedOnce == Spec => []GenerationsDistinct
<1>1. GenerationInv => GenerationsDistinct
  BY DEF GenerationInv
<1> QED BY GenerationInit, GenerationStep, <1>1, PTL DEF Spec
-----------------------------------------------------------------------------
(* What a generation tells: whether this process accepted the report or       *)
(* restored it, and which connection of a legacy device reported last.        *)

\* An accepted v2 report clears the restored mark of its device.
LEMMA AcceptMarks ==
  ASSUME GenerationInv, NEW h \in Handlers, Accept(h)
  PROVE  /\ node'[req[h].device].gen = updateID + 1 /\ ~node'[req[h].device].restored
         /\ \A e \in Devices \ {req[h].device} : node'[e] = node[e]
<1> DEFINE d == req[h].device
<1>1. d \in Devices /\ node[d] \in Node /\ node \in [Devices -> Node]
  BY DEF GenerationInv, LockInv, TypeOK, Placed, Accept
<1>2. ~(updateID + 1 <= node[d].gen)
  BY <1>1 DEF GenerationInv, LockInv, TypeOK, GenerationHeadroom, Node
<1>3. node' = [node EXCEPT ![d] = [node[d] EXCEPT !.at = req[h].at, !.digest = req[h].digest,
                                                 !.gen = updateID + 1, !.restored = FALSE]]
  BY <1>2 DEF Accept
<1> QED BY <1>1, <1>3 DEF Node

\* An accepted legacy update is newer than what the node had, and is from the
\* connection the node has.
LEMMA IngestMarks ==
  ASSUME LockInv, NEW a \in Agents, Ingest(a)
  PROVE  LET d == req[a].device
         IN  /\ d \in LegacyDevices /\ bootID' = bootID /\ connectionID' = connectionID
             /\ \A e \in Devices \ {d} : node'[e] = node[e]
             /\ \/ node' = node /\ source' = source
                \/ /\ node'[d].gen = req[a].gen /\ ~node'[d].restored
                   /\ node'[d].connected = node[d].connected /\ node'[d].conn = node[d].conn
                   /\ req[a].gen > node[d].gen
                   /\ node[d].connected /\ node[d].conn = req[a].conn
                   /\ source' = [source EXCEPT ![d] = req[a].conn]
<1> DEFINE d == req[a].device
<1>1. d \in LegacyDevices /\ node[d] \in Node /\ node \in [Devices -> Node] /\ req[a] \in Request
  BY DEF Ingest, LockInv, TypeOK, Placed
<1>2. CASE LegacyOutcome(node[d], req[a]) = "accepted"
  <2>1. /\ node' = [node EXCEPT ![d] = [node[d] EXCEPT !.at = 1, !.gen = req[a].gen,
                                                      !.restored = FALSE]]
        /\ source' = [source EXCEPT ![d] = req[a].conn]
    BY <1>2 DEF Ingest
  <2>2. req[a].gen > node[d].gen /\ node[d].connected /\ node[d].conn = req[a].conn
    BY <1>1, <1>2 DEF LegacyOutcome, Node, Request
  <2>3. /\ node'[d].gen = req[a].gen /\ ~node'[d].restored
        /\ node'[d].connected = node[d].connected /\ node'[d].conn = node[d].conn
        /\ \A e \in Devices \ {d} : node'[e] = node[e]
    BY <1>1, <2>1 DEF Node
  <2> QED BY <1>1, <2>1, <2>2, <2>3 DEF Ingest
<1>3. CASE LegacyOutcome(node[d], req[a]) # "accepted"
  BY <1>1, <1>3 DEF Ingest
<1> QED BY <1>2, <1>3

\* Connecting, disconnecting and reloading leave reports and marks alone.
LEMMA ConnectionsKeepMarks ==
  ASSUME LockInv,
         \/ \E a \in Agents : (\E d \in LegacyDevices : Connect(a, d)) \/ Disconnect(a)
         \/ Reload
  PROVE  \A d \in Devices : /\ node'[d].at = node[d].at /\ node'[d].gen = node[d].gen
                            /\ node'[d].restored = node[d].restored
<1>1. node \in [Devices -> Node]
  BY DEF LockInv, TypeOK
<1>2. CASE Reload
  BY <1>1, <1>2 DEF Reload, CopyNodeRuntime, Node
<1>3. ASSUME NEW a \in Agents, NEW d \in LegacyDevices, Connect(a, d), NEW e \in Devices
      PROVE  /\ node'[e].at = node[e].at /\ node'[e].gen = node[e].gen
             /\ node'[e].restored = node[e].restored
  <2>1. CASE e = d
    BY <1>1, <1>3, <2>1 DEF Connect, Node
  <2>2. CASE e # d
    BY <1>1, <1>3, <2>2 DEF Connect
  <2> QED BY <2>1, <2>2
<1>4. ASSUME NEW a \in Agents, Disconnect(a), NEW e \in Devices
      PROVE  /\ node'[e].at = node[e].at /\ node'[e].gen = node[e].gen
             /\ node'[e].restored = node[e].restored
  BY <1>1, <1>4 DEF Disconnect, Node
<1> QED BY <1>2, <1>3, <1>4

\* A server that has started has everything it restored marked, and its
\* counter at the boundary.
LEMMA StartMarks ==
  ASSUME LockInv, Start \/ StartFromBackup
  PROVE  /\ \A d \in Devices : /\ ~node'[d].connected /\ node'[d].conn = 0
                               /\ node'[d].restored \/ node'[d].at = 0
                               /\ node'[d].gen <= updateID'
         /\ bootID' = updateID' /\ updateID' \in Nat
         /\ \A p \in Procs : req'[p] = NoRequest
         /\ nodeMu = None /\ nodeMu' = None /\ before' = before
         /\ connectionID' = connectionID /\ source' = source
<1>1. /\ bootID' = updateID' /\ nodeMu' = nodeMu /\ before' = before /\ req' = req /\ ~up
      /\ connectionID' = connectionID /\ source' = source
  BY DEF Start, StartFromBackup
<1>2. nodeMu = None /\ \A p \in Procs : req[p] = NoRequest
  BY <1>1 DEF LockInv, TypeOK, Placed, LocksHeld, Critical, Writing
<1>3. ASSUME NEW doc \in Document, RestoreFrom(doc)
      PROVE  /\ updateID' \in Nat
             /\ \A d \in Devices : /\ node'[d].restored /\ ~node'[d].connected
                                   /\ node'[d].conn = 0 /\ node'[d].gen <= updateID'
  <2>1. updateID' \in Nat /\ \A d \in Devices : node'[d].gen <= updateID'
    BY <1>3, RestoreEffect, RestoreTypes
  <2>2. \A d \in Devices : node'[d].restored /\ ~node'[d].connected /\ node'[d].conn = 0
    BY <1>3 DEF RestoreFrom, RestoredNode, EmptyNode
  <2> QED BY <2>1, <2>2
<1>4. CASE StartFromBackup
  BY <1>1, <1>2, <1>3, <1>4, DecodedDocument
  DEF StartFromBackup, LockInv, TypeOK, F!FilesTypeOK, F!File
<1>5. CASE Start /\ F!Readable(visible["primary"], visible["backup"])
  BY <1>1, <1>2, <1>3, <1>5, RecoveredType
  DEF Start, LockInv, TypeOK, F!FilesTypeOK, F!File, F!Readable, F!StartsEmpty, F!IsValid, F!Absent
<1>6. CASE Start /\ ~F!Readable(visible["primary"], visible["backup"])
  BY <1>1, <1>2, <1>6 DEF Start, EmptyNode
<1> QED BY <1>4, <1>5, <1>6

\* The marks are right after every step.
LEMMA BootStep == GenerationInv /\ BootInv /\ [Next]_vars => BootInv'
<1> SUFFICES ASSUME GenerationInv, BootInv, [Next]_vars PROVE BootInv'
  OBVIOUS
<1>0. /\ updateID \in Nat /\ bootID \in Nat /\ node \in [Devices -> Node] /\ req \in [Procs -> Request]
      /\ before \in Node /\ LockInv
  BY DEF GenerationInv, LockInv, TypeOK
<1>1. ASSUME NEW h \in Handlers, Accept(h) PROVE BootInv'
  <2> DEFINE d == req[h].device
  <2>1. /\ node'[d].gen = updateID + 1 /\ ~node'[d].restored
        /\ \A e \in Devices \ {d} : node'[e] = node[e]
    BY <1>1, AcceptMarks
  <2>2. /\ d \in Devices /\ updateID' = updateID + 1 /\ nodeMu' = h /\ before' = node[d]
        /\ req'[h].gen = updateID + 1 /\ \A p \in Procs \ {h} : req'[p] = req[p]
    BY <1>1, AcceptEffect DEF GenerationInv
  <2>3. bootID' = bootID
    BY <1>1 DEF Accept
  <2>4. \A e \in Devices : Marked(node[e])'
    BY <1>0, <2>1, <2>3 DEF BootInv, Marked
  <2>5. Marked(before)'
    BY <2>2, <2>3 DEF BootInv, Marked
  <2>6. bootID' <= updateID' /\ \A p \in Procs : req'[p].gen # 0 => req'[p].gen > bootID'
    BY <1>0, <2>2, <2>3 DEF BootInv
  <2> QED BY <2>2, <2>4, <2>5, <2>6 DEF BootInv
<1>2. ASSUME NEW h \in Handlers, Rollback(h) PROVE BootInv'
  <2>1. /\ node' = [node EXCEPT ![req[h].device] = before] /\ req' = [req EXCEPT ![h] = NoRequest]
        /\ updateID' = (IF updateID = req[h].gen THEN req[h].gen - 1 ELSE updateID)
        /\ bootID' = bootID /\ before' = EmptyNode
    BY <1>2 DEF Rollback, TakeBackGeneration, Release
  <2>2. req[h].gen > bootID
    BY <1>0, <1>2 DEF Rollback, BootInv, LockInv, Placed, Critical
  <2> QED BY <1>0, <2>1, <2>2 DEF BootInv, Marked, EmptyNode, NoRequest, Request
<1>3. ASSUME NEW a \in Agents, Ingest(a) PROVE BootInv'
  <2>1. /\ UNCHANGED <<updateID, bootID, nodeMu, before>>
        /\ \A p \in Procs : req'[p].gen \in {req[p].gen, 0}
    BY <1>0, <1>3 DEF Ingest, Request
  <2>2. \A d \in Devices : Marked(node[d])'
    BY <1>0, <1>3, <2>1, IngestMarks DEF BootInv, Marked, Node, Request
  <2> QED BY <1>0, <2>1, <2>2 DEF BootInv, Marked
<1>4. CASE \/ \E a \in Agents : (\E d \in LegacyDevices : Connect(a, d)) \/ Disconnect(a)
           \/ Reload
  <2>1. UNCHANGED <<updateID, bootID, before>> /\ nodeMu' = nodeMu
    BY <1>0, <1>4 DEF Connect, Disconnect, Reload, Release
  <2>2. \A p \in Procs : req'[p].gen \in {req[p].gen, 0}
    <3>1. CASE Reload
      BY <1>0, <3>1 DEF Reload
    <3>2. ASSUME NEW a \in Agents, Disconnect(a) PROVE \A p \in Procs : req'[p].gen \in {req[p].gen, 0}
      BY <1>0, <3>2 DEF Disconnect, Release, NoRequest
    <3>3. ASSUME NEW a \in Agents, NEW d \in LegacyDevices, Connect(a, d)
          PROVE  \A p \in Procs : req'[p].gen \in {req[p].gen, 0}
      <4>1. req' = [req EXCEPT ![a] = [NoRequest EXCEPT !.device = d, !.conn = connectionID']]
        BY <3>3 DEF Connect
      <4> QED BY <1>0, <4>1 DEF NoRequest
    <3> QED BY <1>4, <3>1, <3>2, <3>3
  <2>3. \A d \in Devices : Marked(node[d])'
    BY <1>0, <1>4, <2>1, ConnectionsKeepMarks DEF BootInv, Marked
  <2> QED BY <2>1, <2>2, <2>3 DEF BootInv, Marked
<1>5. ASSUME NEW a \in Agents, ReadUpdate(a) PROVE BootInv'
  BY <1>0, <1>5 DEF ReadUpdate, BootInv, Marked, Request
<1>6. CASE Start \/ StartFromBackup
  <2>1. \A d \in Devices : Marked(node[d])'
    BY <1>0, <1>6, StartMarks DEF Marked
  <2>2. before' = EmptyNode /\ bootID' \in Nat /\ bootID' <= updateID'
    BY <1>0, <1>6, StartMarks DEF BootInv
  <2>3. \A p \in Procs : req'[p].gen = 0
    BY <1>0, <1>6, StartMarks DEF NoRequest
  <2> QED BY <2>1, <2>2, <2>3 DEF BootInv, Marked, EmptyNode
<1>7. CASE Kill \/ PowerFailure
  BY <1>7 DEF Kill, PowerFailure, ForgetMemory, BootInv, Marked, EmptyNode, NoRequest
<1>8. ASSUME NEW h \in Handlers, Commit(h) PROVE BootInv'
  BY <1>0, <1>8 DEF Commit, Release, BootInv, Marked, EmptyNode, NoRequest
<1>9. ASSUME NEW h \in Handlers,
             \/ \E d \in V2Devices, t \in 1..MaxTime, g \in Digests : Begin(h, d, t, g)
             \/ Refuse(h) \/ PreflightFails(h)
      PROVE  BootInv'
  <2>1. UNCHANGED <<updateID, bootID, before, node>>
    BY <1>9 DEF Begin, Refuse, PreflightFails
  <2>2. \A p \in Procs : req'[p].gen \in {req[p].gen, 0}
    <3>1. CASE Refuse(h) \/ PreflightFails(h)
      BY <1>0, <3>1 DEF Refuse, PreflightFails, Release, NoRequest
    <3>2. ASSUME NEW d \in V2Devices, NEW t \in 1..MaxTime, NEW g \in Digests, Begin(h, d, t, g)
          PROVE  \A p \in Procs : req'[p].gen \in {req[p].gen, 0}
      <4>1. req' = [req EXCEPT ![h] = [NoRequest EXCEPT !.device = d, !.at = t, !.digest = g]]
        BY <3>2 DEF Begin
      <4> QED BY <1>0, <4>1 DEF NoRequest
    <3> QED BY <1>9, <3>1, <3>2
  <2>3. nodeMu' = None => nodeMu = None
    BY <1>9 DEF Begin, Refuse, PreflightFails, Release
  <2> QED BY <2>1, <2>2, <2>3 DEF BootInv, Marked
<1>10. CASE StatsDone
  <2>1. UNCHANGED <<updateID, bootID, before, node>> /\ req' = [req EXCEPT ![Stats] = NoRequest]
    BY <1>10 DEF StatsDone, Release
  <2>2. nodeMu' = nodeMu
    BY <1>0, <1>10 DEF StatsDone, Release, LockInv, TypeOK
  <2> QED BY <1>0, <2>1, <2>2 DEF BootInv, Marked, NoRequest
<1>11. CASE UNCHANGED <<updateID, bootID, req, node, before, nodeMu>>
  BY <1>11 DEF BootInv, Marked
<1> QED
  BY <1>1, <1>2, <1>3, <1>4, <1>5, <1>6, <1>7, <1>8, <1>9, <1>10, <1>11
  DEF Next, Handle, Serve, WriteStep, vars, LockDevice, LockPersist,
      WriteBackup, SkipBackup, SyncBackup, WritePrimary, SyncPrimary,
      WriteFails, StatsLock, StatsSnapshot, Damage

\* A device counts as live only after this process accepted a report of it.
THEOREM LiveAfterReport == Spec => []LiveMeansReportedSinceStart
<1>1. Init => BootInv
  BY DEF Init, BootInv, Marked, EmptyNode, NoRequest
<1>2. GenerationInv /\ BootInv => LiveMeansReportedSinceStart
  BY DEF GenerationInv, LockInv, TypeOK, Node, BootInv, Marked, LiveMeansReportedSinceStart
<1> QED BY GenerationInit, GenerationStep, BootStep, <1>1, <1>2, PTL DEF Spec
-----------------------------------------------------------------------------
\* No step of the v2 side touches the node of a legacy device.
LEMMA LegacyNodesKept ==
  ASSUME LockInv, [Next]_vars
  PROVE  \/ \E a \in Agents : (\E d \in LegacyDevices : Connect(a, d)) \/ Ingest(a) \/ Disconnect(a)
         \/ Reload \/ Kill \/ PowerFailure \/ Start \/ StartFromBackup
         \/ /\ UNCHANGED <<source, connectionID>>
            /\ \A d \in LegacyDevices : node'[d] = node[d]
<1>1. ASSUME NEW h \in Handlers, Accept(h) \/ Rollback(h)
      PROVE  UNCHANGED <<source, connectionID>> /\ \A d \in LegacyDevices : node'[d] = node[d]
  <2>1. req[h].device \notin LegacyDevices
    BY <1>1 DEF Accept, Rollback, LockInv, Placed
  <2> QED BY <1>1, <2>1 DEF Accept, Rollback, LockInv, TypeOK
<1> QED
  BY <1>1 DEF Next, Handle, Serve, WriteStep, vars, Begin, LockDevice, LockPersist, Refuse,
       PreflightFails, Commit, WriteBackup, SkipBackup, SyncBackup, WritePrimary,
       SyncPrimary, WriteFails, StatsLock, StatsSnapshot, StatsDone, ReadUpdate, Damage

\* What a step does to the connection of a legacy device that has reported.
LEMMA SourceStep ==
    LockInv /\ SourceInv /\ [Next]_vars =>
        SourceInv' /\ (up' => \A d \in LegacyDevices : source'[d] >= source[d])
<1> SUFFICES ASSUME LockInv, SourceInv, [Next]_vars
             PROVE  SourceInv' /\ (up' => \A d \in LegacyDevices : source'[d] >= source[d])
  OBVIOUS
<1>0. /\ node \in [Devices -> Node] /\ source \in [LegacyDevices -> Nat] /\ connectionID \in Nat
  BY DEF LockInv, TypeOK
<1>1. ASSUME NEW a \in Agents, NEW d \in LegacyDevices, Connect(a, d)
      PROVE  SourceInv' /\ source' = source
  <2>1. /\ source' = source /\ connectionID' = connectionID + 1
        /\ node'[d].conn = connectionID + 1
        /\ \A e \in LegacyDevices \ {d} : node'[e] = node[e]
    BY <1>0, <1>1 DEF Connect, Node
  <2> QED BY <1>0, <2>1 DEF SourceInv, Node
<1>2. ASSUME NEW a \in Agents, Ingest(a)
      PROVE  SourceInv' /\ \A d \in LegacyDevices : source'[d] >= source[d]
  <2> DEFINE d == req[a].device
  <2>1. CASE node' = node /\ source' = source
    BY <1>0, <1>2, <2>1 DEF Ingest, SourceInv
  <2>2. CASE ~(node' = node /\ source' = source)
    <3>1. /\ d \in LegacyDevices /\ connectionID' = connectionID
          /\ \A e \in Devices \ {d} : node'[e] = node[e]
          /\ node'[d].connected /\ node[d].connected /\ node'[d].conn = node[d].conn
          /\ source' = [source EXCEPT ![d] = node[d].conn]
      BY <1>2, <2>2, IngestMarks
    <3> QED BY <1>0, <3>1 DEF SourceInv, Node
  <2> QED BY <2>1, <2>2
<1>3. ASSUME NEW a \in Agents, Disconnect(a) PROVE SourceInv' /\ source' = source
  <2>1. /\ UNCHANGED <<source, connectionID>>
        /\ \A e \in LegacyDevices : /\ node'[e].conn = node[e].conn
                                    /\ node'[e].connected => node[e].connected
    BY <1>0, <1>3 DEF Disconnect, Node
  <2> QED BY <1>0, <2>1 DEF SourceInv
<1>4. CASE Reload
  <2>1. /\ UNCHANGED <<source, connectionID>>
        /\ \A e \in LegacyDevices : node'[e].conn = 0 /\ ~node'[e].connected
    BY <1>0, <1>4 DEF Reload, CopyNodeRuntime, Node
  <2> QED BY <1>0, <2>1 DEF SourceInv
<1>5. CASE Kill \/ PowerFailure
  BY <1>5 DEF Kill, PowerFailure, ForgetMemory, SourceInv, EmptyNode
<1>6. CASE Start \/ StartFromBackup
  <2>1. /\ UNCHANGED <<source, connectionID>>
        /\ \A e \in LegacyDevices : node'[e].conn = 0 /\ ~node'[e].connected
    BY <1>6, StartMarks
  <2> QED BY <1>0, <2>1 DEF SourceInv
<1>7. CASE /\ UNCHANGED <<source, connectionID>>
           /\ \A d \in LegacyDevices : node'[d] = node[d]
  BY <1>0, <1>7 DEF SourceInv
<1> QED BY <1>0, <1>1, <1>2, <1>3, <1>4, <1>5, <1>6, <1>7, LegacyNodesKept

\* An older connection of a legacy device never overwrites what a newer one
\* has reported.
THEOREM SupersededSilent == Spec => SupersededConnectionSilent
<1>1. Init => SourceInv
  BY DEF Init, SourceInv, EmptyNode
<1> QED BY LockInit, LockStep, SourceStep, <1>1, PTL DEF Spec, SupersededConnectionSilent
=============================================================================
