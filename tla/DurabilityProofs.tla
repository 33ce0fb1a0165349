-------------------------- MODULE DurabilityProofs --------------------------
(* What crashes may cost DeviceServer, for every value of its constants: the  *)
(* two files are never short of more accepted reports than there were         *)
(* misreads of the primary, so with none nothing accepted is ever lost.       *)
EXTENDS GenerationProofs, FiniteSetTheorems, TLAPS

USE ConstantsAssumption DEF Procs, Persisters, Devices, memory, locks, disk, history, budget
-----------------------------------------------------------------------------
(* Comparing reports, and documents device by device. *)

\* Being as recent as another report is transitive,
LEMMA AtLeastTransitive ==
  ASSUME NEW r, NEW s, NEW t, r.at \in Nat, s.at \in Nat, t.at \in Nat,
         AtLeast(r, s), AtLeast(s, t)
  PROVE  AtLeast(r, t)
BY DEF AtLeast, ReportOf

\* and compares nothing but the reports.
LEMMA AtLeastOfReport ==
  ASSUME NEW r, NEW s, ReportOf(r) = ReportOf(s)
  PROVE  /\ r.at = s.at /\ r.digest = s.digest
         /\ \A t : (AtLeast(r, t) <=> AtLeast(s, t)) /\ (AtLeast(t, r) <=> AtLeast(t, s))
BY DEF AtLeast, ReportOf

\* A document that is behind on fewer devices is behind on no more of them.
LEMMA BehindFewer ==
  ASSUME NEW a, NEW ca, NEW b, NEW cb,
         \A d \in V2Devices : AtLeast(a[d], ca[d]) => AtLeast(b[d], cb[d])
  PROVE  /\ Cardinality(Behind(a, ca)) \in Nat /\ Cardinality(Behind(b, cb)) \in Nat
         /\ Cardinality(Behind(b, cb)) <= Cardinality(Behind(a, ca))
<1>1. Behind(b, cb) \in SUBSET Behind(a, ca) /\ Behind(a, ca) \in SUBSET V2Devices
  BY DEF Behind
<1>2. IsFiniteSet(Behind(a, ca))
  BY <1>1, FS_Subset
<1> QED BY <1>1, <1>2, FS_Subset, FS_CardinalityType

\* One device that falls behind costs one.
LEMMA BehindOneMore ==
  ASSUME NEW a, NEW ca, NEW b, NEW cb, NEW e \in V2Devices,
         \A d \in V2Devices \ {e} : AtLeast(a[d], ca[d]) => AtLeast(b[d], cb[d])
  PROVE  Cardinality(Behind(b, cb)) <= Cardinality(Behind(a, ca)) + 1
<1> DEFINE S == Behind(a, ca)
<1>1. Behind(b, cb) \in SUBSET (S \cup {e}) /\ S \in SUBSET V2Devices
  BY DEF Behind
<1>2. IsFiniteSet(S) /\ Cardinality(S) \in Nat
  BY <1>1, FS_Subset, FS_CardinalityType
<1>3. /\ IsFiniteSet(S \cup {e})
      /\ Cardinality(S \cup {e}) = IF e \in S THEN Cardinality(S) ELSE Cardinality(S) + 1
  BY <1>2, FS_AddElement
<1>4. Cardinality(Behind(b, cb)) <= Cardinality(S \cup {e})
  BY <1>1, <1>3, FS_Subset
<1>5. Cardinality(Behind(b, cb)) \in Nat /\ Cardinality(S \cup {e}) \in Nat
  BY <1>1, <1>3, FS_Subset, FS_CardinalityType
<1> QED BY <1>2, <1>3, <1>4, <1>5

\* A document behind on no device has every answered report.
LEMMA BehindNone ==
  ASSUME NEW a, NEW ca
  PROVE  /\ Cardinality(Behind(a, ca)) \in Nat
         /\ Cardinality(Behind(a, ca)) <= 0 <=> \A d \in V2Devices : AtLeast(a[d], ca[d])
<1>1. Behind(a, ca) \in SUBSET V2Devices
  BY DEF Behind
<1>2. IsFiniteSet(Behind(a, ca)) /\ Cardinality(Behind(a, ca)) \in Nat
  BY <1>1, FS_Subset, FS_CardinalityType
<1>3. Cardinality(Behind(a, ca)) = 0 <=> Behind(a, ca) = {}
  BY <1>2, FS_EmptySet
<1>4. Behind(a, ca) = {} <=> \A d \in V2Devices : AtLeast(a[d], ca[d])
  BY DEF Behind
<1>5. Cardinality(Behind(a, ca)) <= 0 <=> Cardinality(Behind(a, ca)) = 0
  BY <1>2
<1> QED BY <1>2, <1>3, <1>4, <1>5

\* Before anything has been answered no document is behind.
LEMMA NothingAnswered ==
  ASSUME NEW a, NEW ca, \A d \in V2Devices : a[d].at \in Nat /\ ca[d] = NoReport,
         WellFormed(a)
  PROVE  \A d \in V2Devices : AtLeast(a[d], ca[d])
BY DEF WellFormed, AtLeast, ReportOf, NoReport
-----------------------------------------------------------------------------
(* The documents the invariant speaks of. *)

\* Where the nodes are typed, so are the nodes a failed commit would leave.
LEMMA FallbackType == LockInv => Fallback \in [Devices -> Node]
BY DEF LockInv, TypeOK, Fallback

\* With nodeMu free there is nothing to fall back to but the nodes.
LEMMA NothingInHand == LockInv /\ nodeMu = None => Fallback = node
BY DEF LockInv, TypeOK, Fallback

\* The document a persister writes is of the nodes, so it is as recent as they.
LEMMA WrittenDocument ==
  ASSUME DurabilityInv, NEW p \in Persisters, pc[p] \in Critical
  PROVE  /\ snap[p] \in Document /\ up
         /\ \A d \in V2Devices : snap[p][d].at \in Nat
         /\ WellFormed(snap[p])
         /\ FewBehind(snap[p], misreads)
<1>1. snap[p] \in Document /\ up
  BY DEF DurabilityInv, LockInv, TypeOK, Placed, Critical, Writing
<1>2. \A d \in V2Devices : ReportOf(snap[p][d]) = ReportOf(node[d])
  BY DEF DurabilityInv, CommitForward
<1>3. WellFormed(snap[p])
  BY <1>2, AtLeastOfReport DEF DurabilityInv, NodesCurrent, WellFormed
<1>4. \A d \in V2Devices : AtLeast(node[d], committed[d]) => AtLeast(snap[p][d], committed[d])
  BY <1>2, AtLeastOfReport
<1>5. /\ Cardinality(Behind(snap[p], committed)) \in Nat
      /\ Cardinality(Behind(node, committed)) \in Nat
      /\ Cardinality(Behind(snap[p], committed)) <= Cardinality(Behind(node, committed))
  BY <1>4, BehindFewer
<1>6. Cardinality(Behind(node, committed)) <= misreads /\ misreads \in Nat
  BY <1>1 DEF DurabilityInv, NodesCurrent, FewBehind, LockInv, TypeOK
<1>7. FewBehind(snap[p], misreads)
  BY <1>5, <1>6 DEF FewBehind
<1> QED BY <1>1, <1>3, <1>7 DEF Document, Persisted

\* What a restart reads is well formed and short of no more than the misreads.
LEMMA RecoveredDocument ==
  ASSUME DurabilityInv, F!Readable(visible["primary"], visible["backup"])
  PROVE  LET doc == F!Recovered(visible["primary"], visible["backup"])
         IN  doc \in Document /\ WellFormed(doc) /\ FewBehind(doc, misreads)
<1> DEFINE doc == F!Recovered(visible["primary"], visible["backup"])
<1>1. visible["primary"] \in F!Content /\ visible["backup"] \in F!Content
  BY DEF DurabilityInv, LockInv, TypeOK, F!FilesTypeOK, F!File
<1>2. doc \in Document
  BY <1>1, RecoveredType
<1>3. visible["primary"] \in survivors["primary"] /\ visible["backup"] \in survivors["backup"]
  BY DEF DurabilityInv, FilesKept, F!File
<1>4. WellFormed(doc)
  BY <1>3 DEF DurabilityInv, FilesKept, F!Recovered, F!Readable, F!File
<1>5. FewBehind(doc, misreads)
  <2>1. CASE F!IsValid(visible["primary"])
    BY <2>1, <1>3 DEF DurabilityInv, FilesCurrent, F!Recovered
  <2>2. CASE visible["primary"] = F!Corrupt
    BY <2>2, <1>3 DEF DurabilityInv, FilesCurrent, F!Recovered, F!Readable, F!IsValid, F!Corrupt
  <2>3. CASE visible["primary"] = F!Absent
    <3>1. \A d \in V2Devices : committed[d] = NoReport
      BY <2>3, <1>3 DEF DurabilityInv, FilesKept
    <3>2. \A d \in V2Devices : AtLeast(doc[d], committed[d])
      <4> HIDE DEF doc
      <4>1. \A d \in V2Devices : doc[d].at \in Nat
        BY <1>2 DEF Document, Persisted
      <4> QED BY <4>1, <3>1, <1>4, NothingAnswered
    <3>3. Cardinality(Behind(doc, committed)) \in Nat /\ Cardinality(Behind(doc, committed)) <= 0
      BY <3>2, BehindNone
    <3> QED BY <3>3 DEF FewBehind, DurabilityInv, LockInv, TypeOK
  <2>4. visible["primary"] = F!Absent \/ visible["primary"] = F!Corrupt \/ F!IsValid(visible["primary"])
    BY <1>1 DEF F!Content, F!IsValid
  <2> QED BY <2>1, <2>2, <2>3, <2>4
<1> QED BY <1>2, <1>4, <1>5
-----------------------------------------------------------------------------
\* No step leaves a file that does not decode, but a misread, or a document
\* with a digest of nothing.
LEMMA KeptStep == DurabilityInv /\ [Next]_vars => FilesKept'
<1> SUFFICES ASSUME DurabilityInv, [Next]_vars PROVE FilesKept'
  OBVIOUS
<1>0. FilesKept /\ misreads \in Nat
  BY DEF DurabilityInv, LockInv, TypeOK
<1>a. /\ DOMAIN visible = F!File /\ DOMAIN survivors = F!File
      /\ "primary" \in F!File /\ "backup" \in F!File
  BY DEF DurabilityInv, LockInv, TypeOK, F!FilesTypeOK, F!File
<1>1. ASSUME NEW p \in Persisters, WriteBackup(p) PROVE FilesKept'
  <2>1. /\ visible' = [visible EXCEPT !["backup"] = visible["primary"]]
        /\ survivors' = [survivors EXCEPT !["backup"] = @ \cup {visible["primary"]}]
        /\ UNCHANGED <<committed, misreads>> /\ F!IsValid(visible["primary"])
    BY <1>1 DEF WriteBackup, F!Rename
  <2>2. /\ visible'["primary"] = visible["primary"] /\ visible'["backup"] = visible["primary"]
        /\ survivors'["primary"] = survivors["primary"]
        /\ survivors'["backup"] = survivors["backup"] \cup {visible["primary"]}
    BY <2>1, <1>a
  <2> QED BY <2>1, <2>2, <1>0 DEF FilesKept, WellFormed, F!File, F!IsValid, F!Corrupt
<1>2. ASSUME NEW p \in Persisters, SyncBackup(p) \/ SyncPrimary(p) PROVE FilesKept'
  <2>1. /\ survivors' = [f \in F!File |-> {visible[f]}]
        /\ UNCHANGED <<visible, committed, misreads>>
    BY <1>2 DEF SyncBackup, SyncPrimary, F!SyncDirectory
  <2> QED BY <2>1, <1>0 DEF FilesKept, WellFormed, F!File
<1>3. ASSUME NEW p \in Persisters, WritePrimary(p) PROVE FilesKept'
  <2>1. /\ visible' = [visible EXCEPT !["primary"] = F!Valid(snap[p])]
        /\ survivors' = [survivors EXCEPT !["primary"] = @ \cup {F!Valid(snap[p])}]
        /\ UNCHANGED <<committed, misreads>> /\ pc[p] \in Critical
    BY <1>3 DEF WritePrimary, F!Rename, Critical, Writing
  <2>2. /\ visible'["backup"] = visible["backup"] /\ visible'["primary"] = F!Valid(snap[p])
        /\ survivors'["backup"] = survivors["backup"]
        /\ survivors'["primary"] = survivors["primary"] \cup {F!Valid(snap[p])}
    BY <2>1, <1>a
  <2>3. WellFormed(snap[p])
    BY <2>1, WrittenDocument
  <2> QED BY <2>1, <2>2, <2>3, <1>0
          DEF FilesKept, WellFormed, F!File, F!IsValid, F!Corrupt, F!Absent, F!Valid
<1>4. CASE PowerFailure
  <2>1. PICK x \in survivors["primary"], y \in survivors["backup"] :
          /\ visible' = [f \in F!File |-> IF f = "primary" THEN x ELSE y]
          /\ survivors' = [f \in F!File |-> {visible'[f]}]
    BY <1>4 DEF PowerFailure, F!PowerLoss
  <2>2. UNCHANGED <<committed, misreads>>
    BY <1>4 DEF PowerFailure
  <2>3. /\ visible'["primary"] = x /\ visible'["backup"] = y
        /\ survivors'["primary"] = {x} /\ survivors'["backup"] = {y}
    BY <2>1 DEF F!File
  <2> QED BY <2>2, <2>3, <1>0 DEF FilesKept, WellFormed, F!File
<1>5. CASE Damage
  <2>1. /\ visible' = [visible EXCEPT !["primary"] = F!Corrupt]
        /\ survivors' = [survivors EXCEPT !["primary"] = {F!Corrupt}]
        /\ misreads' = misreads + 1 /\ UNCHANGED committed
    BY <1>5 DEF Damage, F!DamagePrimary
  <2>2. /\ visible'["primary"] = F!Corrupt /\ visible'["backup"] = visible["backup"]
        /\ survivors'["primary"] = {F!Corrupt} /\ survivors'["backup"] = survivors["backup"]
    BY <2>1, <1>a
  <2> QED BY <2>1, <2>2, <1>0 DEF FilesKept, WellFormed, F!File, F!IsValid, F!Corrupt, F!Absent
<1>6. ASSUME NEW h \in Handlers, Commit(h) PROVE FilesKept'
  <2>1. survivors["primary"] = {F!Valid(snap[h])}
    BY <1>6 DEF Commit, DurabilityInv, WriteProgress
  <2>2. UNCHANGED <<visible, survivors, misreads>>
    BY <1>6 DEF Commit
  <2> QED BY <2>1, <2>2, <1>0 DEF FilesKept, WellFormed, F!Valid, F!Absent, F!Corrupt
<1>7. CASE UNCHANGED <<visible, survivors, committed>> /\ misreads' \in {misreads, misreads + 1}
  BY <1>7, <1>0 DEF FilesKept, WellFormed
<1> QED
  BY <1>1, <1>2, <1>3, <1>4, <1>5, <1>6, <1>7
  DEF Next, Handle, Serve, WriteStep, vars, Begin, LockDevice, LockPersist, Refuse,
      PreflightFails, Accept, Rollback, SkipBackup, WriteFails, StatsLock, StatsSnapshot,
      StatsDone, Connect, ReadUpdate, Ingest, Disconnect, Reload, Kill, Start, StartFromBackup

\* persistMu admits one persister at a time.
LEMMA OnePersister ==
  ASSUME LockInv, NEW p \in Persisters, NEW q \in Persisters,
         pc[p] \in Persisting, pc[q] \in Persisting
  PROVE  p = q
BY DEF LockInv, LocksHeld

\* While a persister is where it refreshes the backup, nobody is further on.
LEMMA BackupNotTried ==
  ASSUME LockInv, NEW p \in Persisters, pc[p] \in Persisting,
         pc[p] \notin {"primary", "primarySync", "stored"}
  PROVE  ~BackupTried
BY OnePersister DEF BackupTried, Persisting, Critical, Writing

\* A commit makes its device's report the answered one, which the nodes and the
\* document just written have.
LEMMA CommitEffect ==
  ASSUME DurabilityInv, NEW h \in Handlers, Commit(h)
  PROVE  /\ req[h].device \in V2Devices
         /\ committed' = [committed EXCEPT ![req[h].device] = ReportOf(req[h])]
         /\ \A d \in V2Devices \ {req[h].device} : committed'[d] = committed[d]
         /\ committed'[req[h].device] = ReportOf(req[h])
         /\ ReportOf(node[req[h].device]) = ReportOf(req[h])
         /\ AtLeast(node[req[h].device], ReportOf(req[h]))
         /\ \A d \in V2Devices : ReportOf(snap[h][d]) = ReportOf(node[d])
         /\ survivors["primary"] = {F!Valid(snap[h])} /\ visible["primary"] = F!Valid(snap[h])
         /\ pc[h] \in Critical /\ nodeMu = h /\ nodeMu' = None /\ up
<1>1. pc[h] = "stored" /\ pc[h] \in Critical
  BY DEF Commit, Critical
<1>2. req[h].device \in V2Devices /\ nodeMu = h /\ up
  BY <1>1 DEF DurabilityInv, LockInv, Placed, LocksHeld, TypeOK
<1>3. committed' = [committed EXCEPT ![req[h].device] = ReportOf(req[h])]
  BY DEF Commit
<1>4. /\ \A d \in V2Devices \ {req[h].device} : committed'[d] = committed[d]
      /\ committed'[req[h].device] = ReportOf(req[h])
  BY <1>2, <1>3 DEF DurabilityInv, LockInv, TypeOK
<1>5. survivors["primary"] = {F!Valid(snap[h])} /\ visible["primary"] = F!Valid(snap[h])
  BY <1>1 DEF DurabilityInv, WriteProgress, FilesKept, F!File
<1>6. ReportOf(node[req[h].device]) = ReportOf(req[h])
  BY <1>1 DEF DurabilityInv, CommitForward
<1>7. AtLeast(node[req[h].device], ReportOf(req[h]))
  BY <1>6 DEF AtLeast, ReportOf
<1>8. \A d \in V2Devices : ReportOf(snap[h][d]) = ReportOf(node[d])
  BY <1>1 DEF DurabilityInv, CommitForward
<1> QED BY <1>1, <1>2, <1>3, <1>4, <1>5, <1>6, <1>7, <1>8 DEF Commit, Release

\* No step makes a primary short of more reports than there were misreads.
LEMMA CurrentStep == DurabilityInv /\ [Next]_vars => FilesCurrent'
<1> SUFFICES ASSUME DurabilityInv, [Next]_vars PROVE FilesCurrent'
  OBVIOUS
<1>0. FilesCurrent /\ FilesKept /\ misreads \in Nat /\ LockInv
  BY DEF DurabilityInv, LockInv, TypeOK
<1>a. /\ DOMAIN visible = F!File /\ DOMAIN survivors = F!File
      /\ "primary" \in F!File /\ "backup" \in F!File
      /\ visible["primary"] \in survivors["primary"] /\ visible["backup"] \in survivors["backup"]
  BY <1>0 DEF LockInv, TypeOK, F!FilesTypeOK, F!File, FilesKept
<1>b. \A doc : Cardinality(Behind(doc, committed)) \in Nat
  BY BehindNone
<1>1. ASSUME NEW p \in Persisters, WriteBackup(p) PROVE FilesCurrent'
  <2>1. /\ survivors'["primary"] = survivors["primary"]
        /\ survivors'["backup"] = survivors["backup"] \cup {visible["primary"]}
        /\ UNCHANGED <<committed, misreads>>
    BY <1>1, <1>a DEF WriteBackup, F!Rename
  <2>2. ~BackupTried'
    BY <1>0, <1>1, BackupNotTried
       DEF WriteBackup, Goto, BackupTried, Persisting, Critical, Writing, LockInv, TypeOK
  <2>3. F!IsValid(visible["primary"]) => FewBehind(visible["primary"].doc, misreads)
    BY <1>0, <1>a DEF FilesCurrent
  <2>4. \A doc : FewBehind(doc, misreads) => FewBehind(doc, misreads + 1)
    BY <1>0, <1>b DEF FewBehind
  <2> QED BY <2>1, <2>2, <2>3, <2>4, <1>0 DEF FilesCurrent, FewBehind
<1>2. ASSUME NEW p \in Persisters, SyncBackup(p) PROVE FilesCurrent'
  <2>1. /\ survivors'["primary"] = {visible["primary"]}
        /\ survivors'["backup"] = {visible["backup"]}
        /\ visible["backup"] = visible["primary"]
        /\ UNCHANGED <<committed, misreads>>
    BY <1>2, <1>a DEF SyncBackup, F!SyncDirectory, DurabilityInv, WriteProgress
  <2>2. F!IsValid(visible["primary"]) => FewBehind(visible["primary"].doc, misreads)
    BY <1>0, <1>a DEF FilesCurrent
  <2>3. \A doc : FewBehind(doc, misreads) => FewBehind(doc, misreads + 1)
    BY <1>0, <1>b DEF FewBehind
  <2> QED BY <2>1, <2>2, <2>3 DEF FilesCurrent, FewBehind
<1>3. ASSUME NEW p \in Persisters, WritePrimary(p) PROVE FilesCurrent'
  <2>1. /\ survivors'["primary"] = survivors["primary"] \cup {F!Valid(snap[p])}
        /\ survivors'["backup"] = survivors["backup"]
        /\ UNCHANGED <<committed, misreads>> /\ pc[p] = "primary" /\ pc[p] \in Critical
    BY <1>3, <1>a DEF WritePrimary, F!Rename, Critical, Writing
  <2>2. BackupTried
    BY <2>1 DEF BackupTried
  <2>3. FewBehind(snap[p], misreads)
    BY <2>1, WrittenDocument
  <2> QED BY <2>1, <2>2, <2>3, <1>0 DEF FilesCurrent, FewBehind, F!Valid
<1>4. ASSUME NEW p \in Persisters, SyncPrimary(p) PROVE FilesCurrent'
  <2>1. /\ survivors'["primary"] = {visible["primary"]}
        /\ survivors'["backup"] = {visible["backup"]}
        /\ UNCHANGED <<committed, misreads>> /\ pc[p] = "primarySync"
    BY <1>4, <1>a DEF SyncPrimary, F!SyncDirectory
  <2>2. BackupTried
    BY <2>1 DEF BackupTried
  <2> QED BY <2>1, <2>2, <1>0, <1>a DEF FilesCurrent, FewBehind
<1>5. ASSUME NEW p \in Persisters, SkipBackup(p) PROVE FilesCurrent'
  <2>1. UNCHANGED <<visible, survivors, committed>>
    BY <1>5 DEF SkipBackup
  <2>2. CASE misreads' = misreads + 1
    <3>1. \A doc : FewBehind(doc, misreads) => FewBehind(doc, misreads + 1)
      BY <1>0, <1>b DEF FewBehind
    <3>2. \A doc : FewBehind(doc, misreads + 1) => FewBehind(doc, misreads + 1 + 1)
      BY <1>0, <1>b DEF FewBehind
    <3> QED BY <2>1, <2>2, <3>1, <3>2, <1>0 DEF FilesCurrent, FewBehind
  <2>3. CASE misreads' = misreads /\ ~F!IsValid(visible["primary"])
    <3>1. visible["primary"] = F!Absent \/ visible["primary"] = F!Corrupt
      BY <2>3, <1>0 DEF LockInv, TypeOK, F!FilesTypeOK, F!File, F!Content, F!IsValid
    <3>2. CASE visible["primary"] = F!Corrupt
      BY <2>1, <2>3, <3>2, <1>0, <1>a DEF FilesCurrent, FewBehind
    <3>3. CASE visible["primary"] = F!Absent
      <4>1. \A d \in V2Devices : committed[d] = NoReport
        BY <3>3, <1>0, <1>a DEF FilesKept
      <4>2. ASSUME NEW c \in survivors["backup"], F!IsValid(c) PROVE FewBehind(c.doc, misreads)
        <5>1. c \in F!Content /\ WellFormed(c.doc)
          BY <4>2, <1>0 DEF FilesKept, LockInv, TypeOK, F!FilesTypeOK, F!File
        <5>2. \A d \in V2Devices : c.doc[d].at \in Nat
          BY <4>2, <5>1, DecodedDocument DEF Document, Persisted
        <5>3. \A d \in V2Devices : AtLeast(c.doc[d], committed[d])
          BY <4>1, <5>1, <5>2, NothingAnswered
        <5>4. Cardinality(Behind(c.doc, committed)) <= 0
          BY <5>3, BehindNone
        <5> QED BY <5>4, <1>0, <1>b DEF FewBehind
      <4> QED BY <2>1, <2>3, <4>2, <1>0 DEF FilesCurrent, FewBehind
    <3> QED BY <3>1, <3>2, <3>3
  <2> QED BY <1>5, <2>2, <2>3 DEF SkipBackup
<1>6. CASE PowerFailure
  <2>1. PICK x \in survivors["primary"], y \in survivors["backup"] :
          /\ visible' = [f \in F!File |-> IF f = "primary" THEN x ELSE y]
          /\ survivors' = [f \in F!File |-> {visible'[f]}]
    BY <1>6 DEF PowerFailure, F!PowerLoss
  <2>2. survivors'["primary"] = {x} /\ survivors'["backup"] = {y}
    BY <2>1 DEF F!File
  <2>3. UNCHANGED <<committed, misreads>> /\ ~BackupTried'
    BY <1>6 DEF PowerFailure, ForgetMemory, BackupTried
  <2> QED BY <2>2, <2>3, <1>0 DEF FilesCurrent, FewBehind
<1>7. CASE Damage
  <2>1. /\ survivors'["primary"] = {F!Corrupt} /\ survivors'["backup"] = survivors["backup"]
        /\ misreads' = misreads + 1 /\ UNCHANGED committed
    BY <1>7, <1>a DEF Damage, F!DamagePrimary
  <2>2. \A doc : FewBehind(doc, misreads + 1) => FewBehind(doc, misreads + 1 + 1)
    BY <1>0, <1>b DEF FewBehind
  <2> QED BY <2>1, <2>2, <1>0 DEF FilesCurrent, FewBehind, F!IsValid, F!Corrupt
<1>8. ASSUME NEW h \in Handlers, Commit(h) PROVE FilesCurrent'
  <2> DEFINE e == req[h].device
  <2>1. /\ survivors["primary"] = {F!Valid(snap[h])} /\ e \in V2Devices
        /\ \A d \in V2Devices \ {e} : committed'[d] = committed[d]
        /\ committed'[e] = ReportOf(req[h]) /\ AtLeast(node[e], ReportOf(req[h]))
        /\ \A d \in V2Devices : ReportOf(snap[h][d]) = ReportOf(node[d])
        /\ pc[h] = "stored" /\ pc[h] \in Critical
    BY <1>8, CommitEffect DEF Commit, Critical
  <2>2. UNCHANGED <<visible, survivors, misreads>> /\ pc' = [pc EXCEPT ![h] = "idle"]
    BY <1>8 DEF Commit, Release, Goto
  <2>3. BackupTried /\ ~BackupTried'
    BY <2>1, <2>2, <1>0, OnePersister
       DEF BackupTried, Persisting, Critical, Writing, LockInv, TypeOK
  <2>4. \A d \in V2Devices : AtLeast(snap[h][d], committed[d]) => AtLeast(snap[h][d], committed'[d])
    BY <2>1, AtLeastOfReport
  <2>5. Cardinality(Behind(snap[h], committed')) <= Cardinality(Behind(snap[h], committed))
    BY <2>4, BehindFewer
  <2>6. FewBehind(snap[h], misreads)
    BY <2>1, WrittenDocument
  <2>7. Cardinality(Behind(snap[h], committed')) <= misreads
    BY <2>5, <2>6, <1>0, <1>b, BehindNone DEF FewBehind
  <2>8. ASSUME NEW c \in survivors["backup"], F!IsValid(c)
        PROVE  Cardinality(Behind(c.doc, committed')) <= misreads + 1
    <3>1. FewBehind(c.doc, misreads)
      BY <2>3, <2>8, <1>0 DEF FilesCurrent
    <3>2. Cardinality(Behind(c.doc, committed')) <= Cardinality(Behind(c.doc, committed)) + 1
      BY <2>1, BehindOneMore
    <3>3. Cardinality(Behind(c.doc, committed')) \in Nat
      BY BehindNone
    <3> QED BY <3>1, <3>2, <3>3, <1>0, <1>b DEF FewBehind
  <2> QED BY <2>1, <2>2, <2>3, <2>7, <2>8 DEF FilesCurrent, FewBehind, F!Valid, F!Corrupt
<1>9. CASE StartFromBackup
  <2>1. \A doc : FewBehind(doc, misreads) => FewBehind(doc, misreads + 1)
    BY <1>0, <1>b DEF FewBehind
  <2>2. \A doc : FewBehind(doc, misreads + 1) => FewBehind(doc, misreads + 1 + 1)
    BY <1>0, <1>b DEF FewBehind
  <2>3. UNCHANGED <<visible, survivors, committed, pc>> /\ misreads' = misreads + 1
    BY <1>9 DEF StartFromBackup
  <2> QED BY <2>1, <2>2, <2>3, <1>0 DEF FilesCurrent, FewBehind, BackupTried
<1>10. CASE UNCHANGED <<visible, survivors, committed, misreads>> /\ (BackupTried' => BackupTried)
  BY <1>10, <1>0 DEF FilesCurrent, FewBehind
<1> QED
  <2>1. CASE \E h \in Handlers :
               \/ LockPersist(h) \/ Refuse(h) \/ PreflightFails(h) \/ Accept(h) \/ Rollback(h)
               \/ \E d \in V2Devices, t \in 1..MaxTime, g \in Digests : Begin(h, d, t, g)
    <3>1. PICK h \in Handlers :
               \/ LockPersist(h) \/ Refuse(h) \/ PreflightFails(h) \/ Accept(h) \/ Rollback(h)
               \/ \E d \in V2Devices, t \in 1..MaxTime, g \in Digests : Begin(h, d, t, g)
      BY <2>1
    <3>2. UNCHANGED <<visible, survivors, committed, misreads>>
      BY <3>1 DEF LockPersist, Refuse, PreflightFails, Accept, Rollback, Begin
    <3>3. \E l \in {"idle", "device", "node", "backup"} : pc' = [pc EXCEPT ![h] = l]
      BY <3>1 DEF LockPersist, Refuse, PreflightFails, Accept, Rollback, Begin, Release, Goto
    <3> QED BY <3>2, <3>3, <1>0, <1>10 DEF LockInv, TypeOK, BackupTried
  <2>2. CASE \E a \in Agents : Serve(a)
    <3>1. PICK a \in Agents : Serve(a)
      BY <2>2
    <3>2. UNCHANGED <<visible, survivors, committed, misreads>>
      BY <3>1 DEF Serve, Connect, ReadUpdate, Ingest, Disconnect
    <3>3. \E l \in {"idle", "open", "device"} : pc' = [pc EXCEPT ![a] = l]
      BY <3>1 DEF Serve, Connect, ReadUpdate, Ingest, Disconnect, Release, Goto
    <3> QED BY <3>2, <3>3, <1>0, <1>10 DEF LockInv, TypeOK, BackupTried
  <2>3. CASE (\E p \in Handlers \cup Agents : LockDevice(p)) \/ (\E p \in Persisters : WriteFails(p))
    BY <2>3, <1>0, <1>10 DEF LockInv, TypeOK, LockDevice, WriteFails, Goto, BackupTried
  <2>4. CASE StatsLock \/ StatsSnapshot \/ StatsDone \/ Reload \/ Kill \/ Start
    BY <2>4, <1>0, <1>10 DEF LockInv, TypeOK, StatsLock, StatsSnapshot, StatsDone, Reload, Kill, Start,
       Release, ForgetMemory, Goto, BackupTried
  <2>5. CASE UNCHANGED vars
    BY <2>5, <1>10 DEF vars, BackupTried
  <2> QED BY <1>1, <1>2, <1>3, <1>4, <1>5, <1>6, <1>7, <1>8, <1>9, <2>1, <2>2, <2>3, <2>4, <2>5
          DEF Next, Handle, WriteStep
-----------------------------------------------------------------------------
(* The nodes. *)

\* A step that leaves every v2 report as it was, also the one to fall back to.
SameReports ==
    \A d \in V2Devices : /\ ReportOf(node'[d]) = ReportOf(node[d])
                         /\ ReportOf(Fallback'[d]) = ReportOf(Fallback[d])

\* A reload carries every report over,
LEMMA ReloadedReports ==
  ASSUME LockInv, Reload
  PROVE  \A d \in V2Devices : ReportOf(node'[d]) = ReportOf(node[d])
<1> SUFFICES ASSUME NEW d \in V2Devices PROVE ReportOf(node'[d]) = ReportOf(node[d])
  OBVIOUS
<1>1. node'[d] = CopyNodeRuntime(node[d]) /\ node[d] \in Node
  BY DEF Reload, LockInv, TypeOK
<1>2. node'[d].at = node[d].at /\ node'[d].digest = node[d].digest
  BY <1>1 DEF CopyNodeRuntime, Node
<1> QED BY <1>2 DEF ReportOf

\* and legacy connections leave the v2 nodes alone.
LEMMA ServedNodes ==
  ASSUME LockInv, NEW a \in Agents, Serve(a)
  PROVE  \A d \in V2Devices : node'[d] = node[d]
<1>1. req[a].device \in LegacyDevices \/ ~(Ingest(a) \/ Disconnect(a))
  BY DEF Ingest, Disconnect, LockInv, Placed
<1>2. node \in [Devices -> Node]
  BY DEF LockInv, TypeOK
<1>3. CASE \E d \in LegacyDevices : Connect(a, d)
  BY <1>2, <1>3 DEF Connect
<1>4. CASE Ingest(a)
  BY <1>1, <1>2, <1>4 DEF Ingest
<1>5. CASE ReadUpdate(a) \/ Disconnect(a)
  BY <1>1, <1>2, <1>5 DEF ReadUpdate, Disconnect
<1> QED BY <1>3, <1>4, <1>5 DEF Serve

\* Nothing but a commit, its failure, a crash and a restart touches a v2 report:
\* connections and reloads work on the same nodes, but not on reports.
LEMMA QuietStep ==
  ASSUME LockInv, [Next]_vars
  PROVE  \/ SameReports /\ UNCHANGED <<up, committed>>
         \/ \E h \in Handlers : Accept(h) \/ Commit(h) \/ Rollback(h)
         \/ Kill \/ PowerFailure \/ Start \/ StartFromBackup
<1> DEFINE Quiet == SameReports /\ UNCHANGED <<up, committed>>
<1>0. /\ nodeMu # None => nodeMu \in Handlers /\ pc[nodeMu] \in Critical
      /\ node \in [Devices -> Node] /\ req \in [Procs -> Request]
      /\ nodeMu \in Handlers \cup {None}
  BY DEF LockInv, TypeOK, LocksHeld, Writing
<1>1. ASSUME UNCHANGED <<node, nodeMu, before, up, committed>>,
             nodeMu # None => req'[nodeMu] = req[nodeMu]
      PROVE  Quiet
  BY <1>1 DEF SameReports, Fallback
<1>2. ASSUME UNCHANGED <<nodeMu, before, up, committed>>,
             nodeMu = None \/ req'[nodeMu] = req[nodeMu],
             \A d \in V2Devices : ReportOf(node'[d]) = ReportOf(node[d])
      PROVE  Quiet
  BY <1>2 DEF SameReports, Fallback
<1>3. ASSUME NEW h \in Handlers, NEW d \in V2Devices, NEW t \in 1..MaxTime, NEW g \in Digests,
             Begin(h, d, t, g)
      PROVE  Quiet
  BY <1>0, <1>1, <1>3 DEF Begin, Critical, Writing
<1>4. ASSUME NEW p \in Handlers \cup Agents, LockDevice(p) PROVE Quiet
  BY <1>1, <1>4 DEF LockDevice
<1>5. ASSUME NEW h \in Handlers, LockPersist(h) PROVE Quiet
  BY <1>1, <1>5 DEF LockPersist
<1>6. ASSUME NEW h \in Handlers, Refuse(h) \/ PreflightFails(h) PROVE Quiet
  BY <1>0, <1>1, <1>6 DEF Refuse, PreflightFails, Release
<1>7. ASSUME NEW p \in Persisters, WriteStep(p) \/ WriteFails(p) PROVE Quiet
  BY <1>1, <1>7 DEF WriteStep, WriteBackup, SkipBackup, SyncBackup, WritePrimary, SyncPrimary, WriteFails
<1>8. CASE StatsLock \/ StatsSnapshot
  BY <1>1, <1>8 DEF StatsLock, StatsSnapshot
<1>9. CASE StatsDone
  <2>1. nodeMu # Stats /\ nodeMu' = nodeMu
    BY <1>0, <1>9 DEF StatsDone, Release
  <2>2. nodeMu # None => req'[nodeMu] = req[nodeMu]
    BY <1>0, <1>9, <2>1 DEF StatsDone, Release
  <2> QED BY <1>1, <1>9, <2>1, <2>2 DEF StatsDone
<1>10. ASSUME NEW a \in Agents, Serve(a) PROVE Quiet
  <2>1. nodeMu' = nodeMu /\ (nodeMu # None => req'[nodeMu] = req[nodeMu])
    BY <1>0, <1>10 DEF Serve, Connect, ReadUpdate, Ingest, Disconnect, Release
  <2>2. UNCHANGED <<up, before, committed>>
    BY <1>10 DEF Serve, Connect, ReadUpdate, Ingest, Disconnect
  <2> QED BY <1>2, <1>10, <2>1, <2>2, ServedNodes
<1>11. CASE Reload
  BY <1>2, <1>11, ReloadedReports DEF Reload
<1>12. CASE Damage
  BY <1>1, <1>12 DEF Damage
<1>13. CASE UNCHANGED vars
  BY <1>1, <1>13 DEF vars
<1> QED BY <1>3, <1>4, <1>5, <1>6, <1>7, <1>8, <1>9, <1>10, <1>11, <1>12, <1>13
        DEF Next, Handle

\* Accept takes a report collected later than the node's; until the commit is
\* decided the nodes as they were are there to fall back to.
LEMMA AcceptStores ==
  ASSUME LockInv, GenerationHeadroom, NEW h \in Handlers, Accept(h)
  PROVE  LET d == req[h].device
         IN  /\ d \in V2Devices /\ up /\ UNCHANGED <<up, disk, history, budget>>
             /\ req[h].at > node[d].at /\ before' = node[d]
             /\ req'[h].at = req[h].at
             /\ ReportOf(node'[d]) = ReportOf(req[h]) /\ ReportOf(req'[h]) = ReportOf(req[h])
             /\ \A e \in Devices \ {d} : node'[e] = node[e]
             /\ nodeMu = None /\ Fallback' = node /\ Fallback = node
             /\ \A e \in Devices : ReportOf(snap'[h][e]) = ReportOf(node'[e])
             /\ pc' = [pc EXCEPT ![h] = "backup"] /\ pc[h] = "node"
<1> DEFINE d == req[h].device
<1>1. d \in V2Devices /\ node[d] \in Node /\ req[h] \in Request /\ up
  BY DEF LockInv, TypeOK, Placed, Accept
<1>2. ~(updateID + 1 <= node[d].gen)
  BY <1>1 DEF LockInv, TypeOK, GenerationHeadroom, Node
<1>3. req[h].at > node[d].at
  BY <1>1 DEF Accept, V2Outcome, Node, Request
<1>4. /\ node' = [node EXCEPT ![d] = [node[d] EXCEPT !.at = req[h].at, !.digest = req[h].digest,
                                                   !.gen = updateID + 1, !.restored = FALSE]]
      /\ before' = node[d] /\ nodeMu' = h /\ nodeMu = None
      /\ pc' = [pc EXCEPT ![h] = "backup"] /\ pc[h] = "node"
  BY <1>2 DEF Accept, Goto
<1>5. node'[d].at = req[h].at /\ node'[d].digest = req[h].digest
  BY <1>1, <1>4 DEF LockInv, TypeOK, Node
<1>6. req'[h].at = req[h].at /\ req'[h].digest = req[h].digest /\ req'[h].device = d
  BY <1>1, <1>2 DEF Accept, LockInv, TypeOK, Request
<1>7. \A e \in Devices \ {d} : node'[e] = node[e]
  BY <1>1, <1>4 DEF LockInv, TypeOK
<1>8. snap'[h] = Snapshot(node')
  BY AcceptEffect
<1>9. \A e \in Devices : ReportOf(snap'[h][e]) = ReportOf(node'[e])
  BY <1>8 DEF Snapshot, PersistedDevice, ReportOf
<1>10. Fallback' = node /\ Fallback = node
  <2>1. node \in [Devices -> Node] /\ nodeMu' # None
    BY <1>4 DEF LockInv, TypeOK
  <2>2. Fallback' = [e \in Devices |-> node[e]]
    BY <1>4, <1>6, <1>7, <2>1 DEF Fallback
  <2> QED BY <1>4, <2>1, <2>2, NothingInHand
<1> QED BY <1>1, <1>3, <1>4, <1>5, <1>6, <1>7, <1>9, <1>10 DEF Accept, ReportOf

\* A failed commit leaves the nodes as they were to fall back to.
LEMMA RollbackEffect ==
  ASSUME LockInv, NEW h \in Handlers, Rollback(h)
  PROVE  /\ node' = Fallback /\ Fallback' = Fallback /\ up
         /\ UNCHANGED <<up, disk, history, budget>>
<1>1. nodeMu = h /\ up /\ nodeMu' = None /\ nodeMu # None /\ req[h].device \in V2Devices
  BY DEF Rollback, Release, LockInv, Placed, LocksHeld, Critical
<1>2. node' = Fallback
  BY <1>1 DEF Rollback, Fallback, LockInv, TypeOK
<1>3. Fallback' = [d \in Devices |-> node'[d]]
  BY <1>1 DEF Fallback
<1>4. Fallback \in [Devices -> Node]
  BY FallbackType
<1> QED BY <1>1, <1>2, <1>3, <1>4 DEF Rollback

\* A restore takes the reports of the document, connections and the rest anew.
LEMMA RestoredReports ==
  ASSUME NEW doc \in Document, RestoreFrom(doc)
  PROVE  \A d \in Devices : ReportOf(node'[d]) = ReportOf(doc[d])
BY DEF RestoreFrom, RestoredNode, EmptyNode, ReportOf

\* While the server is down nothing is in hand: what a restart puts in the nodes
\* is also what there is to fall back to.
LEMMA RestartedNodes ==
  ASSUME LockInv, Start \/ StartFromBackup
  PROVE  Fallback' = node' /\ \A p \in Procs : pc[p] = "idle" /\ pc'[p] = "idle"
<1>1. nodeMu' = None /\ \A p \in Procs : pc[p] = "idle" /\ pc'[p] = "idle"
  BY DEF Start, StartFromBackup, LockInv, TypeOK, Placed, LocksHeld, Critical, Writing
<1>2. node' = [d \in Devices |-> node'[d]]
  BY DEF Start, StartFromBackup, RestoreFrom
<1> QED BY <1>1, <1>2 DEF Fallback

\* A crash forgets the nodes.
LEMMA ForgottenNodes ==
  ASSUME ForgetMemory
  PROVE  /\ ~up' /\ node' = [d \in Devices |-> EmptyNode] /\ Fallback' = node'
         /\ \A p \in Procs : pc'[p] = "idle"
BY DEF ForgetMemory, Fallback

\* Misreads are counted one by one.
LEMMA MisreadsGrow == [Next]_vars => misreads' \in {misreads, misreads + 1}
BY DEF Next, Handle, Serve, WriteStep, vars, Begin, LockDevice, LockPersist, Refuse,
       PreflightFails, Accept, Commit, Rollback, WriteBackup, SkipBackup, SyncBackup,
       WritePrimary, SyncPrimary, WriteFails, StatsLock, StatsSnapshot, StatsDone, Connect,
       ReadUpdate, Ingest, Disconnect, Reload, Kill, PowerFailure, Damage, Start, StartFromBackup

\* Documents with the same reports are as recent as each other.
LEMMA SameDocuments ==
  ASSUME NEW a, NEW b, NEW ca, NEW n \in Nat, NEW m \in {n, n + 1},
         \A d \in V2Devices : ReportOf(b[d]) = ReportOf(a[d])
  PROVE  /\ WellFormed(a) => WellFormed(b)
         /\ Cardinality(Behind(a, ca)) <= n => Cardinality(Behind(b, ca)) <= m
<1>1. \A d \in V2Devices : AtLeast(a[d], ca[d]) => AtLeast(b[d], ca[d])
  BY AtLeastOfReport
<1>2. /\ Cardinality(Behind(a, ca)) \in Nat /\ Cardinality(Behind(b, ca)) \in Nat
      /\ Cardinality(Behind(b, ca)) <= Cardinality(Behind(a, ca))
  BY <1>1, BehindFewer
<1>3. WellFormed(a) => WellFormed(b)
  BY AtLeastOfReport DEF WellFormed
<1> QED BY <1>2, <1>3

\* No step makes the nodes short of more reports than there were misreads.
LEMMA NodesStep == DurabilityInv /\ GenerationHeadroom /\ [Next]_vars => NodesCurrent'
<1> SUFFICES ASSUME DurabilityInv, GenerationHeadroom, [Next]_vars PROVE NodesCurrent'
  OBVIOUS
<1>0. /\ LockInv /\ NodesCurrent /\ FilesCurrent /\ FilesKept
      /\ misreads \in Nat /\ misreads' \in {misreads, misreads + 1} /\ misreads' \in Nat
  BY MisreadsGrow DEF DurabilityInv, LockInv, TypeOK
<1>1. CASE SameReports /\ UNCHANGED <<up, committed>>
  <2>1. WellFormed(node') /\ (up => Cardinality(Behind(node', committed)) <= misreads')
    BY <1>0, <1>1, SameDocuments DEF SameReports, NodesCurrent, FewBehind
  <2>2. WellFormed(Fallback') /\ (up => Cardinality(Behind(Fallback', committed)) <= misreads')
    BY <1>0, <1>1, SameDocuments DEF SameReports, NodesCurrent, FewBehind
  <2> QED BY <1>1, <2>1, <2>2 DEF NodesCurrent, FewBehind, WellFormed
<1>2. ASSUME NEW h \in Handlers, Accept(h) PROVE NodesCurrent'
  <2> DEFINE d == req[h].device
  <2>1. /\ d \in V2Devices /\ up /\ UNCHANGED <<up, committed, misreads>>
        /\ req[h].at > node[d].at /\ ReportOf(node'[d]) = ReportOf(req[h])
        /\ \A e \in Devices \ {d} : node'[e] = node[e]
        /\ Fallback' = node /\ Fallback = node
    BY <1>0, <1>2, AcceptStores
  <2>2. node[d].at \in Nat /\ req[h].at \in Nat /\ committed[d].at \in Nat
    BY <2>1, <1>0 DEF LockInv, TypeOK, Node, Request, Report
  <2>3. node'[d].at > node[d].at /\ node'[d].at \in Nat
    BY <2>1, <2>2, AtLeastOfReport
  <2>4. \A e \in V2Devices : AtLeast(node[e], committed[e]) => AtLeast(node'[e], committed[e])
    <3>1. AtLeast(node[d], committed[d]) => AtLeast(node'[d], committed[d])
      BY <2>2, <2>3 DEF AtLeast, ReportOf
    <3> QED BY <2>1, <3>1
  <2>5. /\ Cardinality(Behind(node, committed)) \in Nat
        /\ Cardinality(Behind(node', committed)) \in Nat
        /\ Cardinality(Behind(node', committed)) <= Cardinality(Behind(node, committed))
    BY <2>4, BehindFewer
  <2>6. WellFormed(node')
    BY <1>0, <2>1, <2>2, <2>3 DEF NodesCurrent, WellFormed
  <2>7. Cardinality(Behind(node, committed)) <= misreads
    BY <1>0, <2>1 DEF NodesCurrent, FewBehind
  <2>8. WellFormed(Fallback') /\ Cardinality(Behind(Fallback', committed)) <= misreads
    BY <1>0, <2>1, <2>7 DEF NodesCurrent
  <2> QED BY <1>0, <2>1, <2>5, <2>6, <2>7, <2>8 DEF NodesCurrent, FewBehind, WellFormed
<1>3. ASSUME NEW h \in Handlers, Commit(h) PROVE NodesCurrent'
  <2> DEFINE e == req[h].device
  <2>1. /\ e \in V2Devices /\ \A d \in V2Devices \ {e} : committed'[d] = committed[d]
        /\ committed'[e] = ReportOf(req[h]) /\ AtLeast(node[e], ReportOf(req[h]))
        /\ nodeMu' = None /\ up
    BY <1>3, CommitEffect
  <2>2. UNCHANGED <<up, node, misreads>>
    BY <1>3 DEF Commit
  <2>3. Fallback' = node
    <3>1. Fallback' = [d \in Devices |-> node[d]]
      BY <2>1, <2>2 DEF Fallback
    <3> QED BY <1>0, <3>1 DEF LockInv, TypeOK
  <2>4. \A d \in V2Devices : AtLeast(node[d], committed[d]) => AtLeast(node[d], committed'[d])
    BY <2>1
  <2>5. /\ Cardinality(Behind(node, committed)) \in Nat
        /\ Cardinality(Behind(node, committed')) \in Nat
        /\ Cardinality(Behind(node, committed')) <= Cardinality(Behind(node, committed))
    BY <2>4, BehindFewer
  <2>6. Cardinality(Behind(node, committed)) <= misreads
    BY <1>0, <2>1 DEF NodesCurrent, FewBehind
  <2> QED BY <1>0, <2>2, <2>3, <2>5, <2>6 DEF NodesCurrent, FewBehind, WellFormed
<1>4. ASSUME NEW h \in Handlers, Rollback(h) PROVE NodesCurrent'
  BY <1>0, <1>4, RollbackEffect DEF NodesCurrent, FewBehind, WellFormed
<1>5. CASE Kill \/ PowerFailure
  BY <1>5, ForgottenNodes DEF Kill, PowerFailure, NodesCurrent, WellFormed, EmptyNode
<1>6. ASSUME Start \/ StartFromBackup, NEW doc \in Document, RestoreFrom(doc), WellFormed(doc),
             Cardinality(Behind(doc, committed)) <= misreads'
      PROVE  NodesCurrent'
  <2>1. Fallback' = node' /\ UNCHANGED committed
    BY <1>0, <1>6, RestartedNodes DEF Start, StartFromBackup
  <2>2. \A d \in V2Devices : ReportOf(node'[d]) = ReportOf(doc[d])
    BY <1>6, RestoredReports
  <2>3. WellFormed(node') /\ Cardinality(Behind(node', committed)) <= misreads'
    BY <2>2, <1>6, <1>0, SameDocuments
  <2> QED BY <2>1, <2>3 DEF NodesCurrent, FewBehind, WellFormed
<1>7. CASE StartFromBackup
  <2> DEFINE doc == visible["backup"].doc
  <2>1. /\ visible["backup"] \in survivors["backup"] /\ visible["backup"] \in F!Content
        /\ F!IsValid(visible["backup"]) /\ misreads' = misreads + 1 /\ RestoreFrom(doc)
    BY <1>0, <1>7 DEF StartFromBackup, FilesKept, LockInv, TypeOK, F!FilesTypeOK, F!File
  <2>2. doc \in Document /\ WellFormed(doc)
    BY <1>0, <2>1, DecodedDocument DEF FilesKept, F!File
  <2>3. Cardinality(Behind(doc, committed)) <= misreads'
    BY <1>0, <2>1 DEF FilesCurrent, FewBehind
  <2> HIDE DEF doc
  <2> QED BY <1>6, <1>7, <2>1, <2>2, <2>3
<1>8. CASE Start
  <2>1. misreads' = misreads /\ UNCHANGED committed
    BY <1>8 DEF Start
  <2>2. CASE F!Readable(visible["primary"], visible["backup"])
    <3> DEFINE doc == F!Recovered(visible["primary"], visible["backup"])
    <3>1. doc \in Document /\ WellFormed(doc) /\ FewBehind(doc, misreads)
      BY <2>2, RecoveredDocument
    <3>2. RestoreFrom(doc)
      BY <1>8, <2>2 DEF Start, F!Readable, F!StartsEmpty, F!IsValid, F!Absent
    <3> HIDE DEF doc
    <3> QED BY <1>6, <1>8, <2>1, <3>1, <3>2 DEF FewBehind
  <2>3. CASE ~F!Readable(visible["primary"], visible["backup"])
    <3>1. node' = [d \in Devices |-> EmptyNode] /\ visible["primary"] = F!Absent
      BY <1>8, <2>3 DEF Start, F!StartsEmpty
    <3>2. \A d \in V2Devices : committed[d] = NoReport
      BY <1>0, <3>1 DEF FilesKept, F!File
    <3>3. WellFormed(node') /\ \A d \in V2Devices : node'[d].at \in Nat
      BY <3>1 DEF WellFormed, EmptyNode
    <3>4. \A d \in V2Devices : AtLeast(node'[d], committed[d])
      BY <3>2, <3>3, NothingAnswered
    <3>5. Cardinality(Behind(node', committed)) <= 0 /\ Cardinality(Behind(node', committed)) \in Nat
      BY <3>4, BehindNone
    <3>6. Fallback' = node'
      BY <1>0, <1>8, RestartedNodes
    <3> QED BY <1>0, <2>1, <3>3, <3>5, <3>6 DEF NodesCurrent, FewBehind, WellFormed
  <2> QED BY <2>2, <2>3
<1> QED BY <1>0, <1>1, <1>2, <1>3, <1>4, <1>5, <1>7, <1>8, QuietStep
-----------------------------------------------------------------------------
\* Whoever commits holds persistMu and nodeMu, so nothing moves under the commit.
LEMMA ForwardStep == DurabilityInv /\ GenerationHeadroom /\ [Next]_vars => CommitForward'
<1> SUFFICES ASSUME DurabilityInv, GenerationHeadroom, [Next]_vars PROVE CommitForward'
  OBVIOUS
<1>0. /\ LockInv /\ CommitForward
      /\ \A h \in Handlers : pc[h] \in Critical => req[h].device \in V2Devices
      /\ DOMAIN pc = Procs /\ DOMAIN req = Procs /\ DOMAIN snap = Persisters
  BY DEF DurabilityInv, LockInv, TypeOK, Placed, Critical, Writing
<1>1. ASSUME \A d \in V2Devices : ReportOf(node'[d]) = ReportOf(node[d]),
             UNCHANGED <<snap, before>>,
             \A h \in Handlers : req'[h] = req[h] /\ (pc'[h] # "idle" => pc[h] # "idle"),
             \A p \in Persisters : pc'[p] \in Critical => pc[p] \in Critical
      PROVE  CommitForward'
  BY <1>0, <1>1 DEF CommitForward
<1>2. ASSUME NEW h \in Handlers, pc[h] \in Persisting, pc' = [pc EXCEPT ![h] = "idle"],
             req' = [req EXCEPT ![h] = NoRequest]
      PROVE  CommitForward'
  <2>1. \A p \in Persisters : pc'[p] \notin Critical
    BY <1>0, <1>2, OnePersister DEF Persisting, Critical, Writing
  <2> QED BY <1>0, <1>2, <2>1 DEF CommitForward
<1>3. ASSUME NEW h \in Handlers, NEW d \in V2Devices, NEW t \in 1..MaxTime, NEW g \in Digests,
             Begin(h, d, t, g)
      PROVE  CommitForward'
  <2>1. /\ pc' = [pc EXCEPT ![h] = "device"] /\ UNCHANGED <<node, snap, before>>
        /\ \A p \in Procs \ {h} : req'[p] = req[p]
    BY <1>0, <1>3 DEF Begin, Goto
  <2>2. req'[h].at = t /\ t > 0
    BY <1>0, <1>3 DEF Begin, NoRequest
  <2> QED BY <1>0, <2>1, <2>2 DEF CommitForward, Critical, Writing
<1>4. ASSUME NEW h \in Handlers, LockPersist(h) PROVE CommitForward'
  BY <1>0, <1>1, <1>4 DEF LockPersist, Goto, Critical, Writing
<1>5. ASSUME NEW h \in Handlers, Refuse(h) \/ PreflightFails(h) \/ Commit(h) \/ Rollback(h)
      PROVE  CommitForward'
  BY <1>2, <1>5 DEF Refuse, PreflightFails, Commit, Rollback, Release, Goto, Persisting, Critical
<1>6. ASSUME NEW h \in Handlers, Accept(h) PROVE CommitForward'
  <2> DEFINE d == req[h].device
  <2>1. /\ d \in V2Devices /\ req[h].at > node[d].at /\ before' = node[d]
        /\ req'[h].at = req[h].at /\ ReportOf(node'[d]) = ReportOf(req[h])
        /\ ReportOf(req'[h]) = ReportOf(req[h])
        /\ \A e \in Devices : ReportOf(snap'[h][e]) = ReportOf(node'[e])
        /\ pc' = [pc EXCEPT ![h] = "backup"] /\ pc[h] = "node"
        /\ req'[h].device = d /\ \A p \in Procs \ {h} : req'[p] = req[p]
    BY <1>0, <1>6, AcceptStores, AcceptEffect
  <2>2. \A p \in Persisters \ {h} : pc'[p] \notin Critical
    BY <1>0, <2>1, OnePersister DEF Persisting, Critical, Writing
  <2>3. req[h].at > 0
    BY <1>0, <2>1 DEF CommitForward
  <2>4. \A q \in Handlers : pc'[q] # "idle" => req'[q].at > 0
    BY <1>0, <2>1, <2>3 DEF CommitForward
  <2> QED BY <2>1, <2>2, <2>4 DEF CommitForward
<1>7. ASSUME NEW p \in Persisters, WriteStep(p) \/ WriteFails(p) PROVE CommitForward'
  <2>1. UNCHANGED <<node, snap, before, req>> /\ pc[p] \in Writing
    BY <1>7 DEF WriteStep, WriteBackup, SkipBackup, SyncBackup, WritePrimary, SyncPrimary, WriteFails, Writing
  <2>2. \E l \in Critical : pc' = [pc EXCEPT ![p] = l]
    BY <1>7 DEF WriteStep, WriteBackup, SkipBackup, SyncBackup, WritePrimary, SyncPrimary, WriteFails,
       Goto, Critical, Writing
  <2> QED BY <1>0, <1>1, <2>1, <2>2 DEF Writing, Critical
<1>8. CASE StatsSnapshot
  <2>1. /\ snap' = [snap EXCEPT ![Stats] = Snapshot(node)] /\ pc' = [pc EXCEPT ![Stats] = "backup"]
        /\ pc[Stats] = "snapshot" /\ UNCHANGED <<node, before, req>>
    BY <1>8 DEF StatsSnapshot, Goto
  <2>2. \A p \in Persisters \ {Stats} : pc'[p] \notin Critical
    BY <1>0, <2>1, OnePersister DEF Persisting, Critical, Writing
  <2>3. \A d \in V2Devices : ReportOf(snap'[Stats][d]) = ReportOf(node[d])
    BY <1>0, <2>1 DEF Snapshot, PersistedDevice, ReportOf
  <2>4. \A h \in Handlers : pc'[h] = pc[h]
    BY <1>0, <2>1
  <2> QED BY <1>0, <2>1, <2>2, <2>3, <2>4 DEF CommitForward
<1>9. CASE StatsDone
  <2>1. \A p \in Persisters : pc'[p] \notin Critical
    BY <1>0, <1>9, OnePersister DEF StatsDone, Release, Goto, Persisting, Critical, Writing
  <2>2. \A h \in Handlers : pc'[h] = pc[h] /\ req'[h] = req[h]
    BY <1>0, <1>9 DEF StatsDone, Release, Goto
  <2> QED BY <1>0, <2>1, <2>2 DEF CommitForward
<1>10. CASE StatsLock
  BY <1>0, <1>1, <1>10 DEF StatsLock, Goto, Critical, Writing
<1>11. ASSUME NEW p \in Handlers \cup Agents, LockDevice(p) PROVE CommitForward'
  BY <1>0, <1>1, <1>11 DEF LockDevice, Goto, Critical, Writing
<1>12. ASSUME NEW a \in Agents, Serve(a) PROVE CommitForward'
  <2>1. \A d \in V2Devices : ReportOf(node'[d]) = ReportOf(node[d])
    BY <1>0, <1>12, ServedNodes
  <2>2. /\ UNCHANGED <<snap, before>>
        /\ \A p \in Procs \ {a} : pc'[p] = pc[p] /\ req'[p] = req[p]
    BY <1>0, <1>12 DEF Serve, Connect, ReadUpdate, Ingest, Disconnect, Release, Goto
  <2>3. \A p \in Persisters : p \in Procs \ {a}
    BY <1>0, <1>12
  <2> HIDE DEF CommitForward
  <2> QED BY <1>0, <1>1, <2>1, <2>2, <2>3
<1>13. CASE Reload
  <2>1. \A d \in V2Devices : ReportOf(node'[d]) = ReportOf(node[d])
    BY <1>0, <1>13, ReloadedReports
  <2> QED BY <1>1, <1>13, <2>1 DEF Reload
<1>14. CASE Kill \/ PowerFailure
  BY <1>14, ForgottenNodes DEF Kill, PowerFailure, CommitForward, Critical, Writing
<1>15. CASE Start \/ StartFromBackup
  BY <1>0, <1>15, RestartedNodes DEF CommitForward, Critical, Writing
<1>16. CASE Damage \/ UNCHANGED vars
  BY <1>1, <1>16 DEF Damage, vars
<1> QED BY <1>3, <1>4, <1>5, <1>6, <1>7, <1>8, <1>9, <1>10, <1>11, <1>12, <1>13, <1>14, <1>15, <1>16
        DEF Next, Handle

\* The renames and fsyncs of a write happen in their order, and nobody else's
\* come between.
LEMMA ProgressStep == DurabilityInv /\ [Next]_vars => WriteProgress'
<1> SUFFICES ASSUME DurabilityInv, [Next]_vars PROVE WriteProgress'
  OBVIOUS
<1>0. /\ LockInv /\ WriteProgress
      /\ DOMAIN pc = Procs /\ DOMAIN snap = Persisters
      /\ DOMAIN visible = F!File /\ DOMAIN survivors = F!File
      /\ "primary" \in F!File /\ "backup" \in F!File
      /\ \A p, q \in Persisters : pc[p] \in Persisting /\ pc[q] \in Persisting => p = q
  BY OnePersister DEF DurabilityInv, LockInv, TypeOK, F!FilesTypeOK, F!File
<1>1. ASSUME NEW p \in Persisters, NEW l, pc' = [pc EXCEPT ![p] = l], pc[p] \in Persisting,
             l = "backupSync" => visible'["backup"] = visible'["primary"],
             l = "primarySync" => visible'["primary"] = F!Valid(snap'[p]),
             l = "stored" => survivors'["primary"] = {F!Valid(snap'[p])}
      PROVE  WriteProgress'
  BY <1>0, <1>1 DEF WriteProgress, Persisting, Critical, Writing
<1>2. ASSUME UNCHANGED <<visible, survivors, snap>>,
             \A p \in Persisters :
                pc'[p] = pc[p] \/ pc'[p] \notin {"backupSync", "primarySync", "stored"}
      PROVE  WriteProgress'
  BY <1>0, <1>2 DEF WriteProgress
<1>3. ASSUME NEW p \in Persisters, WriteBackup(p) PROVE WriteProgress'
  <2>1. visible'["backup"] = visible["primary"] /\ visible'["primary"] = visible["primary"]
    BY <1>0, <1>3 DEF WriteBackup, F!Rename
  <2> QED BY <1>1, <1>3, <2>1 DEF WriteBackup, Goto, Persisting, Critical, Writing
<1>4. ASSUME NEW p \in Persisters, SkipBackup(p) PROVE WriteProgress'
  BY <1>1, <1>4 DEF SkipBackup, Goto, Persisting, Critical, Writing
<1>5. ASSUME NEW p \in Persisters, SyncBackup(p) PROVE WriteProgress'
  <2>1. survivors'["primary"] = {visible["primary"]} /\ snap' = snap /\ pc[p] \in Persisting
    BY <1>0, <1>5 DEF SyncBackup, F!SyncDirectory, Persisting, Critical, Writing
  <2>2. CASE pc' = [pc EXCEPT ![p] = "primary"]
    BY <1>1, <2>1, <2>2
  <2>3. CASE pc' = [pc EXCEPT ![p] = "stored"] /\ visible["primary"] = F!Valid(snap[p])
    BY <1>1, <2>1, <2>3
  <2> QED BY <1>5, <2>2, <2>3 DEF SyncBackup, Goto
<1>6. ASSUME NEW p \in Persisters, WritePrimary(p) PROVE WriteProgress'
  <2>1. visible'["primary"] = F!Valid(snap'[p])
    BY <1>0, <1>6 DEF WritePrimary, F!Rename
  <2> QED BY <1>1, <1>6, <2>1 DEF WritePrimary, Goto, Persisting, Critical, Writing
<1>7. ASSUME NEW p \in Persisters, SyncPrimary(p) PROVE WriteProgress'
  <2>1. survivors'["primary"] = {F!Valid(snap'[p])}
    BY <1>0, <1>7 DEF SyncPrimary, F!SyncDirectory, WriteProgress
  <2> QED BY <1>1, <1>7, <2>1 DEF SyncPrimary, Goto, Persisting, Critical, Writing
<1>8. ASSUME NEW p \in Persisters, WriteFails(p) PROVE WriteProgress'
  BY <1>1, <1>8 DEF WriteFails, Goto, Persisting, Critical
<1>9. ASSUME NEW h \in Handlers, Accept(h) \/ Commit(h) \/ Rollback(h) PROVE WriteProgress'
  <2>1. \E l \in {"idle", "backup"} : pc' = [pc EXCEPT ![h] = l]
    BY <1>9 DEF Accept, Commit, Rollback, Release, Goto
  <2>2. pc[h] \in Persisting
    BY <1>9 DEF Accept, Commit, Rollback, Persisting, Critical
  <2> QED BY <1>1, <2>1, <2>2
<1>10. CASE StatsSnapshot \/ StatsDone
  <2>1. \E l \in {"idle", "backup"} : pc' = [pc EXCEPT ![Stats] = l]
    BY <1>10 DEF StatsSnapshot, StatsDone, Release, Goto
  <2>2. pc[Stats] \in Persisting
    BY <1>10 DEF StatsSnapshot, StatsDone, Persisting, Critical
  <2> QED BY <1>1, <2>1, <2>2
<1>11. CASE Kill \/ PowerFailure
  BY <1>11, ForgottenNodes DEF Kill, PowerFailure, WriteProgress
<1>12. CASE Damage
  <2>1. \A p \in Procs : pc'[p] = "idle"
    BY <1>0, <1>12 DEF Damage, LockInv, Placed
  <2> QED BY <2>1 DEF WriteProgress
<1>13. ASSUME NEW h \in Handlers, LockPersist(h) \/ Refuse(h) \/ PreflightFails(h)
                \/ \E d \in V2Devices, t \in 1..MaxTime, g \in Digests : Begin(h, d, t, g)
       PROVE  WriteProgress'
  <2>1. \E l \in {"idle", "device", "node"} : pc' = [pc EXCEPT ![h] = l]
    BY <1>13 DEF LockPersist, Refuse, PreflightFails, Begin, Release, Goto
  <2>2. UNCHANGED <<visible, survivors, snap>>
    BY <1>13 DEF LockPersist, Refuse, PreflightFails, Begin
  <2> QED BY <1>0, <1>2, <2>1, <2>2
<1>14. ASSUME NEW a \in Agents, Serve(a) PROVE WriteProgress'
  <2>1. \A p \in Persisters : pc'[p] = pc[p]
    BY <1>0, <1>14 DEF Serve, Connect, ReadUpdate, Ingest, Disconnect, Release, Goto
  <2>2. UNCHANGED <<visible, survivors, snap>>
    BY <1>14 DEF Serve, Connect, ReadUpdate, Ingest, Disconnect
  <2> QED BY <1>2, <2>1, <2>2
<1>15. ASSUME NEW p \in Handlers \cup Agents, LockDevice(p) PROVE WriteProgress'
  BY <1>0, <1>2, <1>15 DEF LockDevice, Goto
<1>16. CASE StatsLock
  BY <1>0, <1>2, <1>16 DEF StatsLock, Goto
<1>17. CASE Reload \/ Start \/ StartFromBackup \/ UNCHANGED vars
  BY <1>2, <1>17 DEF Reload, Start, StartFromBackup, vars
<1> QED BY <1>3, <1>4, <1>5, <1>6, <1>7, <1>8, <1>9, <1>10, <1>11, <1>12, <1>13, <1>14, <1>15, <1>16, <1>17
        DEF Next, Handle, WriteStep
-----------------------------------------------------------------------------
\* The invariant holds of a server that has never run,
LEMMA DurabilityInit == Init => DurabilityInv
<1> SUFFICES ASSUME Init PROVE DurabilityInv
  OBVIOUS
<1>1. LockInv
  BY LockInit
<1>2. \A d \in V2Devices : committed[d] = NoReport /\ node[d] = EmptyNode
  BY DEF Init
<1>3. Fallback = node
  BY <1>1, NothingInHand DEF Init
<1>4. WellFormed(node) /\ \A d \in V2Devices : node[d].at \in Nat
  BY <1>2 DEF WellFormed, EmptyNode
<1>5. \A d \in V2Devices : AtLeast(node[d], committed[d])
  BY <1>2, <1>4, NothingAnswered
<1>6. FewBehind(node, misreads)
  BY <1>5, BehindNone DEF Init, FewBehind
<1>7. FilesKept /\ FilesCurrent
  BY <1>2 DEF Init, F!FilesInit, FilesKept, FilesCurrent, F!IsValid, F!Absent, F!Corrupt, F!File
<1>8. CommitForward /\ WriteProgress
  BY DEF Init, CommitForward, WriteProgress, Critical, Writing
<1> QED BY <1>1, <1>3, <1>4, <1>6, <1>7, <1>8 DEF DurabilityInv, NodesCurrent

\* and every step keeps it.
LEMMA DurabilityStep ==
  GenerationInv /\ DurabilityInv /\ [Next]_vars => (GenerationInv /\ DurabilityInv)'
<1> SUFFICES ASSUME GenerationInv, DurabilityInv, [Next]_vars
             PROVE  (GenerationInv /\ DurabilityInv)'
  OBVIOUS
<1>1. GenerationInv' /\ LockInv' /\ GenerationHeadroom
  BY GenerationStep, LockStep DEF GenerationInv
<1> QED BY <1>1, KeptStep, CurrentStep, NodesStep, ForwardStep, ProgressStep DEF DurabilityInv

\* The invariant of the files and the nodes holds throughout.
LEMMA Durable == Spec => [](GenerationInv /\ DurabilityInv)
BY GenerationInit, DurabilityInit, DurabilityStep, PTL DEF Spec

\* With no misread every primary has every report answered as accepted.
LEMMA CommittedSurvives ==
  ASSUME DurabilityInv, misreads = 0,
         NEW p \in survivors["primary"], NEW b \in survivors["backup"], NEW d \in V2Devices
  PROVE  Survives(committed[d], d, p, b)
<1>1. /\ p \in F!Content /\ b \in F!Content /\ p # F!Corrupt /\ b # F!Corrupt
      /\ committed[d] \in Report
  BY DEF DurabilityInv, FilesKept, LockInv, TypeOK, F!FilesTypeOK, F!File
<1>2. CASE F!IsValid(p)
  <2>1. FewBehind(p.doc, 0)
    BY <1>2 DEF DurabilityInv, FilesCurrent
  <2>2. AtLeast(p.doc[d], committed[d])
    BY <2>1, BehindNone DEF FewBehind
  <2> QED BY <1>2, <2>2 DEF Survives, F!Readable, F!Recovered
<1>3. CASE p = F!Absent
  <2>1. \A e \in V2Devices : committed[e] = NoReport
    BY <1>3 DEF DurabilityInv, FilesKept
  <2>2. CASE F!IsValid(b)
    <3>1. b.doc \in Document /\ WellFormed(b.doc)
      BY <1>1, <2>2, DecodedDocument DEF DurabilityInv, FilesKept, F!File
    <3>2. \A e \in V2Devices : b.doc[e].at \in Nat
      BY <3>1 DEF Document, Persisted
    <3>3. AtLeast(b.doc[d], committed[d])
      BY <2>1, <3>1, <3>2, NothingAnswered
    <3> QED BY <1>3, <2>2, <3>3 DEF Survives, F!Readable, F!Recovered, F!IsValid, F!Absent
  <2>3. CASE b = F!Absent
    BY <1>3, <2>1, <2>3 DEF Survives, F!StartsEmpty
  <2> QED BY <1>1, <2>2, <2>3 DEF F!Content, F!IsValid
<1> QED BY <1>1, <1>2, <1>3 DEF F!Content, F!IsValid

\* A report answered 202 when it was accepted survives power failures at any
\* instant, as long as the primary file can be read.
THEOREM AcceptedDurable == Spec => []AcceptedSurvivesPowerLoss
<1>1. DurabilityInv => AcceptedSurvivesPowerLoss
  BY CommittedSurvives DEF AcceptedSurvivesPowerLoss
<1> QED BY Durable, <1>1, PTL

\* However many misreads there are, each costs one device its last accepted
\* report at most.
THEOREM MisreadsCostOneEach == Spec => []MisreadLosesOneReport
<1>1. DurabilityInv => MisreadLosesOneReport
  BY DEF DurabilityInv, NodesCurrent, FewBehind, Behind, MisreadLosesOneReport
<1> QED BY Durable, <1>1, PTL

\* A commit accepts a report collected after the last one accepted.
LEMMA CommitMovesOn ==
  ASSUME DurabilityInv, misreads = 0, NEW h \in Handlers, Commit(h)
  PROVE  /\ committed'[req[h].device] = ReportOf(req[h])
         /\ committed'[req[h].device].at > committed[req[h].device].at
<1> DEFINE e == req[h].device
<1>1. /\ e \in V2Devices /\ committed'[e] = ReportOf(req[h])
      /\ nodeMu = h /\ pc[h] \in Critical /\ up
  BY CommitEffect
<1>2. Fallback[e] = before /\ req[h].at > before.at
  BY <1>1 DEF Fallback, DurabilityInv, LockInv, TypeOK, CommitForward
<1>3. AtLeast(Fallback[e], committed[e])
  BY <1>1, BehindNone DEF DurabilityInv, NodesCurrent, FewBehind
<1>4. before.at \in Nat /\ committed[e].at \in Nat /\ req[h].at \in Nat
  BY <1>1 DEF DurabilityInv, LockInv, TypeOK, Node, Report, Request
<1>5. before.at >= committed[e].at
  BY <1>2, <1>3, <1>4, AtLeastOfReport DEF AtLeast, ReportOf
<1> QED BY <1>1, <1>2, <1>4, <1>5 DEF ReportOf

\* Nothing but a commit accepts a report.
LEMMA CommittedStep == [Next]_vars => UNCHANGED committed \/ \E h \in Handlers : Commit(h)
BY DEF Next, Handle, Serve, WriteStep, vars, Begin, LockDevice, LockPersist, Refuse,
       PreflightFails, Accept, Rollback, WriteBackup, SkipBackup, SyncBackup, WritePrimary,
       SyncPrimary, WriteFails, StatsLock, StatsSnapshot, StatsDone, Connect, ReadUpdate,
       Ingest, Disconnect, Reload, Kill, PowerFailure, Damage, Start, StartFromBackup

\* A device's newly accepted reports are collected later and later, whatever is
\* replayed, fails or crashes in between.
THEOREM AcceptedInOrder == Spec => NeverAcceptedTwice
<1> DEFINE Forward == \A d \in V2Devices :
                        committed'[d] = committed[d] \/ committed'[d].at > committed[d].at
<1>1. ASSUME DurabilityInv, misreads = 0, NEW h \in Handlers, Commit(h) PROVE Forward
  <2>1. \A d \in V2Devices \ {req[h].device} : committed'[d] = committed[d]
    BY <1>1, CommitEffect
  <2> QED BY <1>1, <2>1, CommitMovesOn
<1>2. DurabilityInv /\ [Next]_vars => [misreads = 0 => Forward]_committed
  BY <1>1, CommittedStep
<1> QED BY Durable, <1>2, PTL DEF Spec, NeverAcceptedTwice
-----------------------------------------------------------------------------
(* What readers are shown and what is answered 202, replays included. *)

\* The nodes are at least as recent as what a failed commit leaves of them.
LEMMA NodesAhead == DurabilityInv => \A d \in V2Devices : AtLeast(node[d], Fallback[d])
<1> SUFFICES ASSUME DurabilityInv, NEW d \in V2Devices PROVE AtLeast(node[d], Fallback[d])
  OBVIOUS
<1>1. CASE nodeMu # None /\ req[nodeMu].device = d
  <2>1. nodeMu \in Handlers /\ pc[nodeMu] \in Critical
    BY <1>1 DEF DurabilityInv, LockInv, TypeOK, LocksHeld
  <2>2. ReportOf(node[d]) = ReportOf(req[nodeMu]) /\ req[nodeMu].at > before.at
    BY <1>1, <2>1 DEF DurabilityInv, CommitForward
  <2>3. Fallback[d] = before
    BY <1>1 DEF Fallback
  <2> QED BY <2>2, <2>3 DEF AtLeast, ReportOf
<1>2. CASE ~(nodeMu # None /\ req[nodeMu].device = d)
  BY <1>2 DEF Fallback, AtLeast
<1> QED BY <1>1, <1>2

\* Only a new primary, a power failure or a misread changes what a restart reads.
LEMMA SurvivalStep ==
  ASSUME DurabilityInv, [Next]_vars, misreads' = 0, NEW r, NEW d \in V2Devices,
         Survives(r, d, visible["primary"], visible["backup"])
  PROVE  \/ Survives(r, d, visible'["primary"], visible'["backup"])
         \/ PowerFailure
         \/ \E p \in Persisters : WritePrimary(p)
<1>0. /\ DOMAIN visible = F!File /\ "primary" \in F!File /\ "backup" \in F!File
      /\ misreads \in Nat
  BY DEF DurabilityInv, LockInv, TypeOK, F!FilesTypeOK, F!File
<1>1. ASSUME NEW p \in Persisters, WriteBackup(p)
      PROVE  Survives(r, d, visible'["primary"], visible'["backup"])
  <2>1. visible'["primary"] = visible["primary"] /\ F!IsValid(visible["primary"])
    BY <1>0, <1>1 DEF WriteBackup, F!Rename
  <2> QED BY <2>1 DEF Survives, F!Readable, F!Recovered, F!StartsEmpty, F!IsValid, F!Absent
<1>2. ~Damage
  BY <1>0 DEF Damage
<1>3. CASE UNCHANGED visible
  BY <1>3
<1> QED
  BY <1>1, <1>2, <1>3
  DEF Next, Handle, Serve, WriteStep, vars, Begin, LockDevice, LockPersist, Refuse, PreflightFails,
      Accept, Commit, Rollback, SkipBackup, SyncBackup, SyncPrimary, WriteFails, StatsLock,
      StatsSnapshot, StatsDone, Connect, ReadUpdate, Ingest, Disconnect, Reload, Kill, Start,
      StartFromBackup, F!SyncDirectory

\* A new primary has what the nodes may fall back to.
LEMMA PrimaryWritten ==
  ASSUME DurabilityInv, NEW p \in Persisters, WritePrimary(p), NEW r, NEW d \in V2Devices,
         r.at \in Nat, AtLeast(Fallback[d], r)
  PROVE  Survives(r, d, visible'["primary"], visible'["backup"])
<1>1. pc[p] \in Critical /\ visible'["primary"] = F!Valid(snap[p])
  BY DEF WritePrimary, F!Rename, Critical, Writing, DurabilityInv, LockInv, TypeOK, F!FilesTypeOK, F!File
<1>2. node[d].at \in Nat /\ Fallback[d].at \in Nat
  BY FallbackType DEF DurabilityInv, LockInv, TypeOK, Node
<1>3. AtLeast(node[d], r)
  BY <1>2, NodesAhead, AtLeastTransitive
<1>4. AtLeast(snap[p][d], r)
  BY <1>1, <1>3, AtLeastOfReport DEF DurabilityInv, CommitForward
<1> QED BY <1>1, <1>4 DEF Survives, F!Readable, F!Recovered, F!Valid, F!IsValid

\* Nothing is shown that a killed server would come back without.
LEMMA ShownStep == DurabilityInv /\ GenerationHeadroom /\ ShownKept /\ [Next]_vars => ShownKept'
<1> SUFFICES ASSUME DurabilityInv, GenerationHeadroom, ShownKept, [Next]_vars,
                    misreads' = 0, up', NEW d \in V2Devices
             PROVE  Survives(ReportOf(Fallback'[d]), d, visible'["primary"], visible'["backup"])
  BY DEF ShownKept, Survives
<1>0. /\ LockInv /\ misreads = 0
      /\ Fallback[d].at \in Nat /\ AtLeast(Fallback[d], ReportOf(Fallback[d]))
      /\ ReportOf(Fallback[d]).at \in Nat
      /\ "primary" \in F!File /\ "backup" \in F!File
  BY MisreadsGrow, FallbackType DEF DurabilityInv, LockInv, TypeOK, AtLeast, ReportOf, Node, F!File
<1>1. up => Survives(ReportOf(Fallback[d]), d, visible["primary"], visible["backup"])
  BY <1>0 DEF ShownKept
<1>2. CASE SameReports /\ UNCHANGED <<up, committed>>
  <2>1. ~PowerFailure
    BY DEF PowerFailure, ForgetMemory
  <2>2. Survives(ReportOf(Fallback[d]), d, visible'["primary"], visible'["backup"])
    BY <1>0, <1>1, <1>2, <2>1, SurvivalStep, PrimaryWritten
  <2> QED BY <1>2, <2>2 DEF SameReports
<1>3. ASSUME NEW h \in Handlers, Accept(h) \/ Rollback(h)
      PROVE  Survives(ReportOf(Fallback'[d]), d, visible'["primary"], visible'["backup"])
  <2>1. Fallback' = Fallback /\ UNCHANGED visible /\ up
    BY <1>0, <1>3, AcceptStores, RollbackEffect
  <2> QED BY <1>1, <2>1
<1>4. ASSUME NEW h \in Handlers, Commit(h)
      PROVE  Survives(ReportOf(Fallback'[d]), d, visible'["primary"], visible'["backup"])
  <2>1. /\ visible["primary"] = F!Valid(snap[h]) /\ UNCHANGED <<visible, node>> /\ nodeMu' = None
        /\ ReportOf(snap[h][d]) = ReportOf(node[d])
    BY <1>4, CommitEffect DEF Commit
  <2>2. Fallback'[d] = node[d]
    BY <2>1 DEF Fallback
  <2>3. AtLeast(snap[h][d], ReportOf(node[d]))
    BY <2>1 DEF AtLeast, ReportOf
  <2> QED BY <2>1, <2>2, <2>3 DEF Survives, F!Readable, F!Recovered, F!Valid, F!IsValid
<1>5. CASE Start
  <2>1. Fallback' = node' /\ UNCHANGED visible
    BY <1>0, <1>5, RestartedNodes DEF Start
  <2>2. CASE F!Readable(visible["primary"], visible["backup"])
    <3> DEFINE doc == F!Recovered(visible["primary"], visible["backup"])
    <3>1. doc \in Document
      BY <2>2, RecoveredDocument
    <3>2. RestoreFrom(doc)
      BY <1>5, <2>2 DEF Start, F!Readable, F!StartsEmpty, F!IsValid, F!Absent
    <3>3. ReportOf(node'[d]) = ReportOf(doc[d])
      <4> HIDE DEF doc
      <4> QED BY <3>1, <3>2, RestoredReports
    <3>4. AtLeast(doc[d], ReportOf(node'[d]))
      BY <3>3 DEF AtLeast, ReportOf
    <3> QED BY <2>1, <2>2, <3>4 DEF Survives
  <2>3. CASE ~F!Readable(visible["primary"], visible["backup"])
    <3>1. F!StartsEmpty(visible["primary"], visible["backup"]) /\ node'[d] = EmptyNode
      BY <1>5, <2>3 DEF Start
    <3> QED BY <2>1, <3>1 DEF Survives, ReportOf, EmptyNode, NoReport
  <2> QED BY <2>2, <2>3
<1>6. ~Kill /\ ~PowerFailure /\ ~StartFromBackup
  BY <1>0 DEF Kill, PowerFailure, ForgetMemory, StartFromBackup
<1> QED BY <1>0, <1>2, <1>3, <1>4, <1>5, <1>6, QuietStep

\* acked moves with a commit and with the replay of what the node has.
LEMMA AckedStep ==
  ASSUME [Next]_vars
  PROVE  UNCHANGED acked \/ \E h \in Handlers : Commit(h) \/ Refuse(h)
BY DEF Next, Handle, Serve, WriteStep, vars, Begin, LockDevice, LockPersist, PreflightFails,
       Accept, Rollback, WriteBackup, SkipBackup, SyncBackup, WritePrimary, SyncPrimary,
       WriteFails, StatsLock, StatsSnapshot, StatsDone, Connect, ReadUpdate, Ingest, Disconnect,
       Reload, Kill, PowerFailure, Damage, Start, StartFromBackup

\* Power failures are counted too.
LEMMA PowerFailuresGrow == [Next]_vars => powerFailures' = powerFailures \/ PowerFailure
BY DEF Next, Handle, Serve, WriteStep, vars, Begin, LockDevice, LockPersist, Refuse,
       PreflightFails, Accept, Commit, Rollback, WriteBackup, SkipBackup, SyncBackup,
       WritePrimary, SyncPrimary, WriteFails, StatsLock, StatsSnapshot, StatsDone, Connect,
       ReadUpdate, Ingest, Disconnect, Reload, Kill, Damage, Start, StartFromBackup

\* Nothing is answered 202 that a killed server would come back without.
LEMMA AnsweredStep ==
  DurabilityInv /\ GenerationHeadroom /\ ShownKept /\ AnsweredKept /\ [Next]_vars => AnsweredKept'
<1> SUFFICES ASSUME DurabilityInv, GenerationHeadroom, ShownKept, AnsweredKept, [Next]_vars,
                    misreads' = 0, powerFailures' = 0, NEW d \in V2Devices
             PROVE  /\ Survives(acked'[d], d, visible'["primary"], visible'["backup"])
                    /\ up' => AtLeast(Fallback'[d], acked'[d])
  BY DEF AnsweredKept, Survives, AtLeast, ReportOf
<1> DEFINE Goal == /\ Survives(acked'[d], d, visible'["primary"], visible'["backup"])
                   /\ up' => AtLeast(Fallback'[d], acked'[d])
<1>0. /\ LockInv /\ misreads = 0 /\ powerFailures = 0 /\ ~PowerFailure
      /\ acked[d].at \in Nat /\ acked \in [V2Devices -> Report]
      /\ "primary" \in F!File /\ "backup" \in F!File
  <2>1. powerFailures \in Nat /\ misreads \in Nat
    BY DEF DurabilityInv, LockInv, TypeOK
  <2>2. ~PowerFailure
    BY <2>1 DEF PowerFailure
  <2> QED BY <2>1, <2>2, MisreadsGrow, PowerFailuresGrow DEF DurabilityInv, LockInv, TypeOK, Report, F!File
<1>1. /\ Survives(acked[d], d, visible["primary"], visible["backup"])
      /\ up => AtLeast(Fallback[d], acked[d])
  BY <1>0 DEF AnsweredKept
<1>2. CASE SameReports /\ UNCHANGED <<up, committed, acked>>
  <2>1. AtLeast(Fallback[d], acked[d]) <=> AtLeast(Fallback'[d], acked[d])
    BY <1>2, AtLeastOfReport DEF SameReports
  <2>2. \A p \in Persisters : WritePrimary(p) => up
    BY <1>0 DEF WritePrimary, LockInv, Placed
  <2>3. Survives(acked[d], d, visible'["primary"], visible'["backup"])
    BY <1>0, <1>1, <2>2, SurvivalStep, PrimaryWritten
  <2> QED BY <1>1, <1>2, <2>1, <2>3
<1>3. ASSUME NEW h \in Handlers, Accept(h) \/ Rollback(h) PROVE Goal
  <2>1. Fallback' = Fallback /\ UNCHANGED <<visible, acked>> /\ up
    BY <1>0, <1>3, AcceptStores, RollbackEffect
  <2> QED BY <1>1, <2>1
<1>4. ASSUME NEW h \in Handlers, Commit(h) PROVE Goal
  <2> DEFINE e == req[h].device
  <2>1. /\ visible["primary"] = F!Valid(snap[h]) /\ UNCHANGED <<visible, node>> /\ nodeMu' = None
        /\ ReportOf(snap[h][d]) = ReportOf(node[d]) /\ e \in V2Devices
        /\ ReportOf(node[e]) = ReportOf(req[h]) /\ nodeMu = h /\ up
    BY <1>4, CommitEffect DEF Commit
  <2>2. Fallback'[d] = node[d] /\ (d # e => Fallback[d] = node[d])
    BY <2>1 DEF Fallback
  <2>3. acked' = [acked EXCEPT ![e] = ReportOf(req[h])]
    BY <1>4 DEF Commit
  <2>4. CASE d = e
    <3>1. acked'[d] = ReportOf(node[d])
      BY <1>0, <2>1, <2>3, <2>4
    <3>2. AtLeast(snap[h][d], acked'[d]) /\ AtLeast(node[d], acked'[d])
      BY <2>1, <3>1 DEF AtLeast, ReportOf
    <3> QED BY <2>1, <2>2, <3>2 DEF Survives, F!Readable, F!Recovered, F!Valid, F!IsValid
  <2>5. CASE d # e
    BY <1>0, <1>1, <2>1, <2>2, <2>3, <2>5
  <2> QED BY <2>4, <2>5
<1>5. ASSUME NEW h \in Handlers, Refuse(h) PROVE Goal
  <2> DEFINE e == req[h].device
  <2>1. /\ nodeMu = None /\ nodeMu' = None /\ UNCHANGED <<visible, node, up>> /\ pc[h] = "node" /\ up
    BY <1>0, <1>5 DEF Refuse, Release, LockInv, Placed
  <2>2. Fallback[d] = node[d] /\ Fallback'[d] = node[d] /\ e \in V2Devices
    BY <1>0, <2>1 DEF Fallback, LockInv, Placed
  <2>3. CASE acked' = acked
    BY <1>1, <2>1, <2>2, <2>3
  <2>4. CASE acked' = [acked EXCEPT ![e] = ReportOf(node[e])]
    <3>1. CASE d # e
      BY <1>0, <1>1, <2>1, <2>2, <2>4, <3>1
    <3>2. CASE d = e
      <4>1. acked'[d] = ReportOf(node[d])
        BY <1>0, <2>2, <2>4, <3>2
      <4>2. Survives(ReportOf(node[d]), d, visible["primary"], visible["backup"])
        BY <1>0, <2>1, <2>2 DEF ShownKept
      <4> QED BY <2>1, <2>2, <4>1, <4>2 DEF AtLeast, ReportOf
    <3> QED BY <3>1, <3>2
  <2> QED BY <1>5, <2>3, <2>4 DEF Refuse
<1>6. CASE Kill
  BY <1>1, <1>6, ForgottenNodes DEF Kill
<1>7. CASE Start
  <2>1. Fallback' = node' /\ UNCHANGED <<visible, acked>>
    BY <1>0, <1>7, RestartedNodes DEF Start
  <2>2. CASE F!Readable(visible["primary"], visible["backup"])
    <3> DEFINE doc == F!Recovered(visible["primary"], visible["backup"])
    <3>1. doc \in Document
      BY <2>2, RecoveredDocument
    <3>2. RestoreFrom(doc) /\ ~F!StartsEmpty(visible["primary"], visible["backup"])
      BY <1>7, <2>2 DEF Start, F!Readable, F!StartsEmpty, F!IsValid, F!Absent
    <3>3. AtLeast(doc[d], acked[d])
      BY <1>1, <2>2, <3>2 DEF Survives
    <3>4. AtLeast(node'[d], acked[d])
      <4> HIDE DEF doc
      <4> QED BY <3>1, <3>2, <3>3, RestoredReports, AtLeastOfReport
    <3> QED BY <1>1, <2>1, <3>4
  <2>3. CASE ~F!Readable(visible["primary"], visible["backup"])
    <3>1. node'[d] = EmptyNode /\ acked[d] = NoReport
      BY <1>1, <1>7, <2>3 DEF Start, Survives
    <3> QED BY <1>1, <2>1, <3>1 DEF AtLeast, ReportOf, EmptyNode, NoReport
  <2> QED BY <2>2, <2>3
<1>8. ~StartFromBackup
  BY <1>0 DEF StartFromBackup
<1> QED BY <1>0, <1>2, <1>3, <1>4, <1>5, <1>6, <1>7, <1>8, QuietStep, AckedStep

\* At first nothing has been shown or answered.
LEMMA AnswerInit == Init => ShownKept /\ AnsweredKept
<1> SUFFICES ASSUME Init PROVE ShownKept /\ AnsweredKept
  OBVIOUS
<1>1. Fallback = node
  BY LockInit, NothingInHand DEF Init
<1>2. F!StartsEmpty(visible["primary"], visible["backup"])
  BY DEF Init, F!FilesInit, F!StartsEmpty, F!File
<1>3. \A d \in V2Devices : ReportOf(node[d]) = NoReport /\ acked[d] = NoReport
  BY DEF Init, ReportOf, EmptyNode, NoReport
<1> QED BY <1>1, <1>2, <1>3 DEF ShownKept, AnsweredKept, Survives, AtLeast, ReportOf, NoReport

\* What is shown and answered is kept throughout.
LEMMA Answered == Spec => [](DurabilityInv /\ ShownKept /\ AnsweredKept)
<1> DEFINE I == GenerationInv /\ DurabilityInv /\ ShownKept /\ AnsweredKept
<1>1. Init => I
  BY GenerationInit, DurabilityInit, AnswerInit
<1>2. I /\ [Next]_vars => I'
  <2>1. GenerationInv => GenerationHeadroom
    BY DEF GenerationInv
  <2> QED BY <2>1, DurabilityStep, ShownStep, AnsweredStep
<1>3. I => DurabilityInv /\ ShownKept /\ AnsweredKept
  OBVIOUS
<1> HIDE DEF I
<1> QED BY <1>1, <1>2, <1>3, PTL DEF Spec

\* No reader of the nodes ever sees a report that is not on disk yet, although
\* the nodes are changed before the files are written.
THEOREM ShownDurable == Spec => []ShownIsStored
<1>1. DurabilityInv /\ ShownKept => ShownIsStored
  <2> SUFFICES ASSUME DurabilityInv, ShownKept, up, nodeMu = None, misreads = 0,
                      NEW d \in V2Devices
               PROVE  Survives(ReportOf(node[d]), d, visible["primary"], visible["backup"])
    BY DEF ShownIsStored
  <2>1. Fallback = node
    BY NothingInHand DEF DurabilityInv
  <2> QED BY <2>1 DEF ShownKept
<1> QED BY Answered, <1>1, PTL

\* Every 202, that of a replay included, survives kills of the process.
THEOREM AnsweredDurable == Spec => []AnsweredSurvivesKill
<1>1. AnsweredKept => AnsweredSurvivesKill
  BY DEF AnsweredKept, AnsweredSurvivesKill
<1> QED BY Answered, <1>1, PTL
-----------------------------------------------------------------------------
(* The server implements ReportStore: what a restart would restore is the     *)
(* abstract store, and a commit is the acknowledgement of a stored report.    *)
Stored == [d \in V2Devices |-> StoredReport(d)]

\* What a restart would restore is a report,
LEMMA StoredType == LockInv => Stored \in [V2Devices -> Report]
<1> SUFFICES ASSUME LockInv, NEW d \in V2Devices PROVE StoredReport(d) \in Report
  BY DEF Stored
<1>1. visible["primary"] \in F!Content /\ visible["backup"] \in F!Content
  BY DEF LockInv, TypeOK, F!FilesTypeOK, F!File
<1>2. CASE F!Readable(visible["primary"], visible["backup"])
  <2> DEFINE doc == F!Recovered(visible["primary"], visible["backup"])
  <2>1. doc \in Document
    BY <1>1, <1>2, RecoveredType
  <2>2. doc[d].at \in Nat /\ doc[d].digest \in Digests \cup {NoDigest}
    <3> HIDE DEF doc
    <3> QED BY <2>1 DEF Document, Persisted
  <2> QED BY <1>2, <2>2 DEF StoredReport, ReportOf, Report
<1>3. CASE ~F!Readable(visible["primary"], visible["backup"])
  BY <1>3 DEF StoredReport, NoReport, Report
<1> QED BY <1>2, <1>3

\* not older than an answered one that survives.
LEMMA SurvivesStored ==
  ASSUME NEW d \in V2Devices, NEW r \in Report, StoredReport(d) \in Report,
         Survives(r, d, visible["primary"], visible["backup"])
  PROVE  Store!NotOlder(StoredReport(d), r)
<1>1. CASE F!Readable(visible["primary"], visible["backup"])
           /\ AtLeast(F!Recovered(visible["primary"], visible["backup"])[d], r)
  <2>1. StoredReport(d) = ReportOf(F!Recovered(visible["primary"], visible["backup"])[d])
    BY <1>1 DEF StoredReport
  <2>2. StoredReport(d).at > r.at \/ StoredReport(d) = ReportOf(r)
    BY <1>1, <2>1 DEF AtLeast, ReportOf
  <2>3. ReportOf(r) = r
    BY DEF ReportOf, Report
  <2> QED BY <2>2, <2>3 DEF Store!NotOlder
<1>2. CASE F!StartsEmpty(visible["primary"], visible["backup"]) /\ r = NoReport
  BY <1>2 DEF StoredReport, F!StartsEmpty, F!Readable, F!IsValid, F!Absent, Store!NotOlder
<1> QED BY <1>1, <1>2 DEF Survives

\* An empty directory stores nothing, and nothing has been acknowledged.
LEMMA StoreInit == Init => Store!Init
<1> SUFFICES ASSUME Init PROVE Store!Init
  OBVIOUS
<1>1. \A d \in V2Devices : StoredReport(d) = NoReport
  BY DEF Init, F!FilesInit, F!File, StoredReport, F!Readable, F!IsValid, F!Absent
<1>2. Stored = [d \in V2Devices |-> NoReport] /\ committed = [d \in V2Devices |-> NoReport]
  BY <1>1 DEF Init, Stored
<1>3. NoReport \in Report /\ NoReport.at = 0
  BY DEF NoReport, Report
<1> QED BY <1>2, <1>3 DEF Store!Init, Store!Report, Stored, Report

\* What a restart would restore is never older than what was acknowledged, as
\* long as the primary file can be read.
StoredCurrent ==
    /\ Stored \in [V2Devices -> Report]
    /\ \A d \in V2Devices : Store!NotOlder(Stored[d], committed[d])

\* The invariant says so.
LEMMA StoredIsCurrent == DurabilityInv /\ misreads = 0 => StoredCurrent
<1> SUFFICES ASSUME DurabilityInv, misreads = 0 PROVE StoredCurrent
  OBVIOUS
<1>1. Stored \in [V2Devices -> Report]
  BY StoredType DEF DurabilityInv
<1>2. ASSUME NEW d \in V2Devices PROVE Store!NotOlder(Stored[d], committed[d])
  <2>1. committed[d] \in Report /\ Stored[d] = StoredReport(d) /\ Stored[d] \in Report
    BY <1>1 DEF Stored, DurabilityInv, LockInv, TypeOK
  <2>2. visible["primary"] \in survivors["primary"] /\ visible["backup"] \in survivors["backup"]
    BY DEF DurabilityInv, FilesKept, F!File
  <2>3. Survives(committed[d], d, visible["primary"], visible["backup"])
    BY <2>2, CommittedSurvives
  <2> QED BY <2>1, <2>3, SurvivesStored
<1> QED BY <1>1, <1>2 DEF StoredCurrent

\* A commit acknowledges the report it stored; every other step changes the
\* store as it may change, or not at all.
LEMMA StoreStep ==
    DurabilityInv /\ misreads = 0 /\ StoredCurrent /\ StoredCurrent' /\ [Next]_vars
        => [Store!Next]_(Store!vars)
<1> SUFFICES ASSUME DurabilityInv, misreads = 0, StoredCurrent, StoredCurrent', [Next]_vars
             PROVE  [Store!Next]_(Store!vars)
  OBVIOUS
<1>1. CASE UNCHANGED committed
  <2>1. /\ Stored' \in [V2Devices -> Report]
        /\ \A d \in V2Devices : Store!NotOlder(Stored'[d], committed[d])
    BY <1>1 DEF StoredCurrent, Store!NotOlder
  <2> QED BY <1>1, <2>1 DEF Store!Next, Store!Store, Store!Report, Report, Stored
<1>2. ASSUME NEW h \in Handlers, Commit(h) PROVE Store!Next
  <2> DEFINE e == req[h].device
  <2>1. /\ e \in V2Devices /\ committed' = [committed EXCEPT ![e] = ReportOf(req[h])]
        /\ ReportOf(node[e]) = ReportOf(req[h]) /\ nodeMu = h /\ pc[h] \in Critical /\ up
        /\ visible["primary"] = F!Valid(snap[h])
        /\ \A d \in V2Devices : ReportOf(snap[h][d]) = ReportOf(node[d])
    BY <1>2, CommitEffect
  <2>2. Stored[e] = ReportOf(req[h])
    BY <2>1 DEF Stored, StoredReport, F!Readable, F!Recovered, F!Valid, F!IsValid
  <2>3. committed'[e].at > committed[e].at /\ committed'[e] = ReportOf(req[h])
    BY <1>2, <2>1, CommitMovesOn
  <2>4. Stored' = Stored
    BY <1>2 DEF Commit, Stored, StoredReport
  <2>5. Stored[e].at > committed[e].at /\ committed' = [committed EXCEPT ![e] = Stored[e]]
    BY <2>1, <2>2, <2>3
  <2>6. Store!Acknowledge(e)
    BY <2>4, <2>5 DEF Store!Acknowledge, Stored
  <2> QED BY <2>1, <2>6 DEF Store!Next
<1> QED BY <1>1, <1>2, CommittedStep

\* As long as the primary file can be read, the server with its locks, files,
\* faults and crashes is a ReportStore.
THEOREM ReportStoreImplemented == Spec /\ [](misreads = 0) => ImplementsReportStore
BY Durable, StoreInit, StoredIsCurrent, StoreStep, PTL DEF Spec, ImplementsReportStore, Store!Spec
=============================================================================
