----------------------------- MODULE ToolProofs -----------------------------
(* The tools: the rotation of a device's token and the migration of a       *)
(* server's statistics, for any number of runs that overlap, fail or are    *)
(* killed anywhere, and any number of changes of what they read.            *)
EXTENDS CredentialRotation, StatsMigration, TLAPS

USE RotationAssumption, MigrationAssumption DEF Slots, NoToken
-----------------------------------------------------------------------------
(* The rotation of a token. *)

Credential == [token : Nat, window : {"none", "now", "later"}]

RotationTypes ==
    /\ record \in [Slots -> Credential]
    /\ tokenFile \in Nat /\ tokens \in Nat
    /\ tool \in [pc : {"done", "staged", "recorded"}, slot : Slots, window : {"now", "later"},
                 overwrite : BOOLEAN, existed : SUBSET {"server", "client"},
                 committed : SUBSET {"server", "client"}]
    /\ careless \in BOOLEAN /\ inService \in BOOLEAN

\* A record without a credential for the device in service would have been there
\* when the run began, so a run never removes it; the slot a run writes is not the one
\* in use; once the record is in place, the token to come is in it.
RunIsSafe ==
    /\ inService => tokenFile # NoToken
    /\ tool.pc # "done" => tokens # NoToken
    /\ tool.pc # "done" /\ ~careless =>
          /\ inService => "server" \in tool.existed
          /\ tool.window = "now"
          /\ tool.pc = "staged" /\ inService => record[tool.slot].token # tokenFile
    /\ tool.pc = "recorded" /\ ~careless =>
          /\ record[tool.slot] = [token |-> tokens, window |-> "now"]
          /\ inService => \E s \in Slots \ {tool.slot} :
                                record[s] = [token |-> tokenFile, window |-> "now"]

RotationInv == RotationTypes /\ RunIsSafe /\ TokenAccepted

\* A run begins: what it may remove and write is settled.
LEMMA ProvisionStep == ASSUME RotationInv, Provision PROVE RotationInv'
<1> USE DEF RotationInv
<1>1. PICK slot \in Slots, window \in {"now", "later"}, overwrite \in BOOLEAN :
         /\ tool' = [pc |-> "staged", slot |-> slot, window |-> window,
                     overwrite |-> overwrite, existed |-> Existing, committed |-> {}]
         /\ careless' = (careless \/ window = "later"
                         \/ (tokenFile # NoToken /\ record[slot].token = tokenFile))
  BY DEF Provision
<1>2. Existing \in SUBSET {"server", "client"}
  BY DEF Existing
<1>3. UNCHANGED <<record, tokenFile, inService>> /\ tokens' = tokens + 1
  BY DEF Provision
<1>4. RotationTypes'
  BY <1>1, <1>2, <1>3 DEF RotationTypes
<1>5. TokenAccepted'
  BY <1>1, <1>3 DEF TokenAccepted, RotationTypes
<1>6. inService /\ ~careless' => "server" \in Existing
  <2> SUFFICES ASSUME inService, ~careless' PROVE record # NoRecord
    BY DEF Existing
  <2>1. PICK s \in Slots : record[s] = [token |-> tokenFile, window |-> "now"]
    BY <1>1 DEF TokenAccepted, RotationTypes
  <2> QED BY <2>1 DEF NoRecord, Empty
<1>7. /\ tool'.pc = "staged" /\ tool'.slot = slot /\ tool'.window = window
      /\ tool'.existed = Existing
  BY <1>1
<1>8. tokens' # NoToken
  BY <1>3 DEF RotationTypes
<1>9. ~careless' => window = "now" /\ (inService => record[slot].token # tokenFile)
  BY <1>1 DEF RunIsSafe
<1>10. RunIsSafe'
  BY <1>3, <1>6, <1>7, <1>8, <1>9 DEF RunIsSafe
<1> QED BY <1>4, <1>5, <1>10

\* The record is put in place.
LEMMA CommitRecordStep == ASSUME RotationInv, CommitRecord PROVE RotationInv'
<1> USE DEF RotationInv
<1>1. record' = [record EXCEPT ![tool.slot] = [token |-> tokens, window |-> tool.window]]
  BY DEF CommitRecord, MergeRecord
<1>t. tool' = [pc |-> "recorded", slot |-> tool.slot, window |-> tool.window,
               overwrite |-> tool.overwrite, existed |-> tool.existed, committed |-> {"server"}]
  <2> DEFINE recorded == [tool EXCEPT !.pc = "recorded"]
  <2>1. tool' = [recorded EXCEPT !.committed = {"server"}]
    BY Zenon DEF CommitRecord
  <2>2. recorded = [pc |-> "recorded", slot |-> tool.slot, window |-> tool.window,
                    overwrite |-> tool.overwrite, existed |-> tool.existed,
                    committed |-> tool.committed]
    BY DEF RotationTypes
  <2> HIDE DEF recorded
  <2> QED BY <2>1, <2>2
<1>2. RotationTypes'
  BY <1>1, <1>t DEF CommitRecord, RotationTypes, Credential
<1>3. ASSUME inService, ~careless
      PROVE  \E s \in Slots \ {tool.slot} : record'[s] = [token |-> tokenFile, window |-> "now"]
  <2>1. PICK s \in Slots : record[s] = [token |-> tokenFile, window |-> "now"]
    BY <1>3 DEF TokenAccepted
  <2>2. s # tool.slot
    BY <1>3, <2>1 DEF RunIsSafe, CommitRecord
  <2> QED BY <1>1, <2>1, <2>2 DEF RotationTypes
<1>4. TokenAccepted'
  BY <1>3 DEF TokenAccepted, CommitRecord
<1>5. ~careless => record'[tool.slot] = [token |-> tokens, window |-> "now"]
  BY <1>1 DEF RunIsSafe, RotationTypes, CommitRecord
<1>6. RunIsSafe'
  BY <1>3, <1>5 DEF RunIsSafe, RotationTypes, CommitRecord
<1> QED BY <1>2, <1>4, <1>6

\* The token is put in place: it is in the record already.
LEMMA CommitTokenStep == ASSUME RotationInv, CommitToken PROVE RotationInv'
BY DEF RotationInv, RotationTypes, RunIsSafe, TokenAccepted, CommitToken, ToolDone

\* Nothing was changed yet.
LEMMA StageFailsStep == ASSUME RotationInv, StageFails PROVE RotationInv'
BY DEF RotationInv, RotationTypes, RunIsSafe, TokenAccepted, StageFails, ToolDone

\* A killed run leaves both files as they are.
LEMMA KillToolStep == ASSUME RotationInv, KillTool PROVE RotationInv'
BY DEF RotationInv, RotationTypes, RunIsSafe, TokenAccepted, KillTool, ToolDone

\* A failed run removes only what it made: with a device in service the record was
\* there before, so it stays, with or without the new token.
LEMMA CommitFailsStep == ASSUME RotationInv, CommitFails PROVE RotationInv'
<1> USE DEF RotationInv
<1> DEFINE merged == [record EXCEPT ![tool.slot] = [token |-> tokens, window |-> tool.window]]
<1>1. /\ tool.pc \in {"staged", "recorded"} /\ tool' = ToolDone
      /\ UNCHANGED <<tokens, careless, inService>>
  BY DEF CommitFails
<1>2. /\ record' \in {NoRecord, record, merged}
      /\ "server" \in tool.existed => record' \in {record, merged}
      /\ tool.pc = "recorded" => record' \in {NoRecord, record}
      /\ tokenFile' \in {tokenFile, tokens}
      /\ tool.pc = "staged" => tokenFile' = tokenFile
  BY DEF CommitFails, MergeRecord
<1>3. RotationTypes'
  <2>1. NoRecord \in [Slots -> Credential] /\ merged \in [Slots -> Credential]
    BY DEF NoRecord, Empty, RotationTypes, Credential
  <2> HIDE DEF merged
  <2> QED BY <1>1, <1>2, <2>1 DEF RotationTypes, ToolDone
<1>4. RunIsSafe'
  BY <1>1, <1>2 DEF RunIsSafe, ToolDone, RotationTypes
<1>5. TokenAccepted'
  <2> SUFFICES ASSUME inService, ~careless
               PROVE  \E s \in Slots : record'[s] = [token |-> tokenFile', window |-> "now"]
    BY <1>1 DEF TokenAccepted
  <2>1. record' \in {record, merged}
    BY <1>1, <1>2 DEF RunIsSafe
  <2>2. PICK s \in Slots : record[s] = [token |-> tokenFile, window |-> "now"]
    BY DEF TokenAccepted
  <2>3. CASE tool.pc = "staged"
    <3>1. s # tool.slot
      BY <2>2, <2>3 DEF RunIsSafe
    <3>2. merged[s] = record[s]
      BY <3>1 DEF RotationTypes
    <3> HIDE DEF merged
    <3> QED BY <1>2, <2>1, <2>2, <2>3, <3>2
  <2>4. CASE tool.pc = "recorded"
    <3>1. record' = record \/ record' = NoRecord
      BY <1>2, <2>4
    <3>2. record' = record
      <4>1. CASE NoRecord = merged
        <5>1. merged[tool.slot].token = tokens /\ NoRecord[tool.slot].token = NoToken
          BY DEF RotationTypes, NoRecord, Empty
        <5>2. tokens # NoToken
          BY <2>4 DEF RunIsSafe
        <5> HIDE DEF merged
        <5> QED BY <4>1, <5>1, <5>2
      <4> HIDE DEF merged
      <4> QED BY <2>1, <3>1, <4>1
    <3>3. record[tool.slot] = [token |-> tokens, window |-> "now"] /\ tool.slot \in Slots
      BY <2>4 DEF RunIsSafe, RotationTypes
    <3> HIDE DEF merged
    <3> QED BY <1>2, <2>2, <3>2, <3>3
  <2> QED BY <1>1, <2>3, <2>4
<1> QED BY <1>3, <1>4, <1>5

\* A credential that becomes valid was not valid: those that were stay as they are.
LEMMA WindowOpensStep == ASSUME RotationInv, WindowOpens PROVE RotationInv'
<1> USE DEF RotationInv
<1>1. PICK s \in Slots : /\ record[s].window = "later"
                         /\ record' = [record EXCEPT ![s].window = "now"]
  BY DEF WindowOpens
<1>2. UNCHANGED <<tokenFile, tool, tokens, careless, inService>>
  BY DEF WindowOpens
<1>3. record' = [record EXCEPT ![s] = [token |-> record[s].token, window |-> "now"]]
  <2>1. [record[s] EXCEPT !.window = "now"] = [token |-> record[s].token, window |-> "now"]
    BY DEF RotationTypes, Credential
  <2>2. record' = [record EXCEPT ![s] = [record[s] EXCEPT !.window = "now"]]
    BY <1>1, Zenon
  <2> QED BY <2>1, <2>2, Zenon
<1>4. \A r \in Slots : /\ record'[r].token = record[r].token
                       /\ record[r].window = "now" => record'[r] = record[r]
  BY <1>1, <1>3 DEF RotationTypes, Credential
<1>5. RotationTypes'
  BY <1>2, <1>3 DEF RotationTypes, Credential
<1>6. TokenAccepted'
  BY <1>2, <1>4 DEF TokenAccepted
<1>7. RunIsSafe'
  BY <1>2, <1>4 DEF RunIsSafe, RotationTypes
<1> QED BY <1>5, <1>6, <1>7

\* Wherever a run of the tool stops or fails, and however often, the token in the
\* client's file stays one of the record's and valid.
THEOREM RotationTokenAccepted == RotationSpec => []TokenAccepted
<1>1. RotationInit => RotationInv
  <2>1. NoRecord \in [Slots -> Credential]
    BY DEF NoRecord, Empty, Credential
  <2>2. ASSUME RotationInit PROVE RotationTypes
    <3>1. tool = ToolDone /\ record = NoRecord /\ tokenFile = 0 /\ tokens = 0
          /\ careless \in BOOLEAN /\ inService \in BOOLEAN
      BY <2>2 DEF RotationInit
    <3>2. tool \in [pc : {"done", "staged", "recorded"}, slot : Slots, window : {"now", "later"},
                    overwrite : BOOLEAN, existed : SUBSET {"server", "client"},
                    committed : SUBSET {"server", "client"}]
      BY <3>1 DEF ToolDone
    <3> QED BY <2>1, <3>1, <3>2 DEF RotationTypes
  <2>3. RotationInit => RunIsSafe /\ TokenAccepted
    BY DEF RotationInit, RunIsSafe, TokenAccepted, ToolDone
  <2> QED BY <2>2, <2>3 DEF RotationInv
<1>2. RotationInv /\ [RotationNext]_rotationVars => RotationInv'
  <2>1. CASE UNCHANGED rotationVars
    BY <2>1 DEF RotationInv, RotationTypes, RunIsSafe, TokenAccepted, rotationVars
  <2> QED BY <2>1, ProvisionStep, StageFailsStep, CommitRecordStep, CommitTokenStep,
             CommitFailsStep, KillToolStep, WindowOpensStep DEF RotationNext
<1>3. RotationInv => TokenAccepted
  BY DEF RotationInv
<1> QED BY <1>1, <1>2, <1>3, PTL DEF RotationSpec
-----------------------------------------------------------------------------
(* The migration of the statistics. *)

ReadingPcs == {"head", "tail", "compare"}
PreparedPcs == {"mkdir", "temporary", "recheck"}
LinkingPcs == {"link", "sync", "unlink"}
Printed == Nat \X BOOLEAN \X Nat
Halves == Int \X Int
MigrationTool ==
    [pc : {"idle"} \cup ReadingPcs \cup PreparedPcs \cup LinkingPcs, fd : Nat,
     before : {<<>>} \cup Printed, head : Nat, tail : Nat,
     print : {<<>>} \cup Printed, data : {NoStats} \cup (Nat \X Nat)]

Inode == [head : Nat, tail : Nat, stamp : Nat]

MigrationTypes ==
    /\ inodes \in Seq(Inode) /\ Len(inodes) > 0
    /\ changes \in Nat
    /\ migration \in [Tools -> MigrationTool]
    /\ newStats \in {NoStats} \cup Halves /\ reported \in {NoStats} \cup Halves
    /\ synced \in BOOLEAN

\* Between two steps the source is whole or truncated, and no document is from
\* the future.
SourceSound ==
    \A fd \in 1..Len(inodes) :
        inodes[fd].head = inodes[fd].tail /\ inodes[fd].head \in 0..changes + 1

\* The file fd has held the document v: what it holds now, or will when it is
\* written again, is that one or a later one.
Held(v, fd) ==
    /\ fd \in 1..Len(inodes) /\ v \in 1..changes + 1
    /\ IF inodes[fd].head = Truncated THEN v <= changes ELSE v <= inodes[fd].head

\* A first reading sees no document before one it has seen.
FirstReading(m) ==
    /\ m.pc = "head" => m.tail = Truncated
    /\ m.pc = "tail" => m.tail = Truncated /\ Held(m.head, m.fd)
    /\ m.pc = "compare" /\ m.tail # Truncated => m.head \in 1..m.tail /\ Held(m.tail, m.fd)

\* What was copied may mix an earlier and a later document of one file ...
Copied(m) ==
    /\ m.data[1] \in 1..m.data[2]
    /\ Held(m.data[2], m.print[1])

\* ... but then the head, read again from that file, is no longer the earlier one.
SecondReading(m) ==
    m.pc \in {"tail", "compare"} /\ m.fd = m.print[1] /\ m.head # Truncated => m.head >= m.data[2]

RunSound(m) ==
    /\ m.pc \in ReadingPcs => m.fd \in 1..Len(inodes) /\ m.before # <<>> /\ m.before[1] = m.fd
    /\ m.pc = "idle" => m = ToolIdle
    /\ m.pc \in ReadingPcs /\ m.data = NoStats => FirstReading(m)
    /\ m.pc \in PreparedPcs \cup LinkingPcs => m.data # NoStats
    /\ m.pc \in ReadingPcs /\ m.data # NoStats => Copied(m) /\ SecondReading(m)
    /\ m.pc \in PreparedPcs => Copied(m)
    /\ m.pc \in LinkingPcs => m.data[1] = m.data[2]

ReadingSound == \A t \in Tools : RunSound(migration[t])

\* A tool that has linked the target is its author, and what was reported is on
\* disk under its name.
TargetSound ==
    /\ \A t \in Tools :
          /\ migration[t].pc \in {"sync", "unlink"} => newStats = migration[t].data
          /\ migration[t].pc = "unlink" => synced
    /\ reported # NoStats => synced

MigrationInv == MigrationTypes /\ SourceSound /\ ReadingSound /\ TargetSound /\ MigratedWhole

\* However the source changes, it keeps what it has held.
LEMMA SourceChanges ==
  ASSUME MigrationInv, ReplaceSource \/ TruncateSource \/ FillSource
  PROVE  /\ inodes' \in Seq(Inode) /\ Len(inodes') >= Len(inodes)
         /\ changes' \in Nat /\ SourceSound'
         /\ \A v, fd : Held(v, fd) => Held(v, fd)'
<1> DEFINE last == Len(inodes)
<1>t. /\ inodes \in Seq(Inode) /\ last \in Nat \ {0}
      /\ changes \in Nat /\ last = Len(inodes)
      /\ \A fd \in 1..last : inodes[fd].head = inodes[fd].tail /\ inodes[fd].head \in 0..changes + 1
      /\ \A fd \in 1..last : inodes[fd].stamp \in Nat
  <2>1. inodes \in Seq(Inode) /\ last \in Nat \ {0} /\ changes \in Nat /\ SourceSound
    BY DEF MigrationInv, MigrationTypes
  <2>2. \A fd \in 1..last : inodes[fd] \in Inode
    BY <2>1
  <2> QED BY <2>1, <2>2 DEF SourceSound, Inode
<1>1. CASE ReplaceSource
  <2>1. /\ inodes' = Append(inodes, [head |-> changes + 2, tail |-> changes + 2, stamp |-> 0])
        /\ changes' = changes + 1
    BY <1>1 DEF ReplaceSource, WholeDocument
  <2>2. /\ inodes' \in Seq(Inode) /\ Len(inodes') = last + 1
        /\ \A fd \in 1..last : inodes'[fd] = inodes[fd]
        /\ inodes'[last + 1] = [head |-> changes + 2, tail |-> changes + 2, stamp |-> 0]
    <3>1. [head |-> changes + 2, tail |-> changes + 2, stamp |-> 0] \in Inode
      BY <1>t DEF Inode
    <3> QED BY <1>t, <2>1, <3>1
  <2> HIDE DEF last
  <2>3. SourceSound'
    BY <1>t, <2>1, <2>2 DEF SourceSound
  <2>4. ASSUME NEW v, NEW fd, Held(v, fd) PROVE Held(v, fd)'
    BY <1>t, <2>1, <2>2, <2>4 DEF Held
  <2> QED BY <1>t, <2>1, <2>2, <2>3, <2>4
<1>2. CASE TruncateSource \/ FillSource
  <2> DEFINE version == IF TruncateSource THEN Truncated ELSE changes + 1
  <2>1. \E stamp \in Nat : inodes' = [inodes EXCEPT ![last] = WholeDocument(version, stamp)]
    <3>1. CASE TruncateSource
      <4>1. inodes' = [inodes EXCEPT ![last] = WholeDocument(Truncated, inodes[last].stamp)]
        BY <3>1, Zenon DEF TruncateSource
      <4>2. version = Truncated /\ inodes[last].stamp \in Nat
        BY <1>t, <3>1
      <4> HIDE DEF version, last
      <4> QED BY <4>1, <4>2, Zenon
    <3>2. CASE ~TruncateSource
      <4>1. PICK later \in {0, 1} :
              inodes' = [inodes EXCEPT ![last] = WholeDocument(changes + 1, inodes[last].stamp + later)]
        BY <1>2, <3>2, Zenon DEF FillSource
      <4>2. inodes[last].stamp + later \in Nat
        BY <1>t
      <4> QED BY <3>2, <4>1, <4>2
    <3> QED BY <3>1, <3>2
  <2>2. PICK stamp \in Nat :
          inodes' = [inodes EXCEPT ![last] = [head |-> version, tail |-> version, stamp |-> stamp]]
    BY <2>1 DEF WholeDocument
  <2>3. /\ TruncateSource => version = 0 /\ changes' = changes + 1
        /\ ~TruncateSource => version = changes + 1 /\ changes' = changes
        /\ ~TruncateSource => inodes[last].tail = 0
    BY <1>2 DEF TruncateSource, FillSource, Source, Truncated
  <2>4. /\ inodes' \in Seq(Inode) /\ Len(inodes') = last
        /\ \A fd \in 1..last \ {last} : inodes'[fd] = inodes[fd]
        /\ inodes'[last] = [head |-> version, tail |-> version, stamp |-> stamp]
    <3>1. [head |-> version, tail |-> version, stamp |-> stamp] \in Inode
      BY <1>t, <2>3 DEF Inode
    <3> HIDE DEF version
    <3> QED BY <1>t, <2>2, <3>1
  <2> HIDE DEF last, version
  <2>5. SourceSound'
    BY <1>t, <2>3, <2>4 DEF SourceSound
  <2>6. ASSUME NEW v, NEW fd, Held(v, fd) PROVE Held(v, fd)'
    <3>1. CASE fd = last
      BY <1>t, <2>3, <2>4, <2>6, <3>1 DEF Held, Truncated
    <3>2. CASE fd # last
      BY <1>t, <2>3, <2>4, <2>6, <3>2 DEF Held, Truncated
    <3> QED BY <3>1, <3>2
  <2> QED BY <1>t, <2>3, <2>4, <2>5, <2>6
<1> QED BY <1>1, <1>2

\* What is known of a run outlives a change of the source.
LEMMA SourceStep ==
  ASSUME MigrationInv, ReplaceSource \/ TruncateSource \/ FillSource PROVE MigrationInv'
<1>1. UNCHANGED <<migration, newStats, synced, reported>>
  BY DEF ReplaceSource, TruncateSource, FillSource
<1>2. /\ inodes' \in Seq(Inode) /\ Len(inodes') >= Len(inodes)
      /\ changes' \in Nat /\ SourceSound'
      /\ \A v, fd : Held(v, fd) => Held(v, fd)'
  BY SourceChanges
<1>3. MigrationTypes'
  <2>1. Len(inodes') > 0
    <3>1. inodes \in Seq(Inode) /\ Len(inodes) > 0
      BY DEF MigrationInv, MigrationTypes
    <3> QED BY <1>2, <3>1
  <2> QED BY <1>1, <1>2, <2>1 DEF MigrationInv, MigrationTypes
<1>4. ReadingSound'
  <2> SUFFICES ASSUME NEW t \in Tools PROVE RunSound(migration[t])'
    BY DEF ReadingSound
  <2>1. RunSound(migration[t]) /\ migration'[t] = migration[t]
    BY <1>1 DEF MigrationInv, ReadingSound
  <2>2. Copied(migration[t]) => Copied(migration[t])'
    BY <1>1, <1>2 DEF Copied
  <2>3. FirstReading(migration[t]) => FirstReading(migration[t])'
    BY <1>1, <1>2 DEF FirstReading
  <2>4. SecondReading(migration[t]) => SecondReading(migration[t])'
    BY <1>1 DEF SecondReading
  <2>5. Len(inodes) \in Nat /\ Len(inodes') \in Nat
    <3>1. inodes \in Seq(Inode)
      BY DEF MigrationInv, MigrationTypes
    <3> QED BY <1>2, <3>1
  <2> QED BY <1>1, <1>2, <2>1, <2>2, <2>3, <2>4, <2>5 DEF RunSound
<1>5. TargetSound' /\ MigratedWhole'
  BY <1>1 DEF MigrationInv, TargetSound, MigratedWhole
<1> QED BY <1>2, <1>3, <1>4, <1>5 DEF MigrationInv
\* A step of one run, into a state that is sound, leaves the others sound.
LEMMA RunStep ==
  ASSUME MigrationInv, NEW t \in Tools, NEW next \in MigrationTool,
         migration' = [migration EXCEPT ![t] = next], RunSound(next),
         UNCHANGED <<inodes, changes>>
  PROVE  /\ migration' \in [Tools -> MigrationTool] /\ SourceSound' /\ ReadingSound'
         /\ migration'[t] = next /\ \A u \in Tools \ {t} : migration'[u] = migration[u]
<1>1. /\ migration' \in [Tools -> MigrationTool] /\ migration'[t] = next
      /\ \A u \in Tools \ {t} : migration'[u] = migration[u]
  BY DEF MigrationInv, MigrationTypes
<1>2. ReadingSound'
  <2> SUFFICES ASSUME NEW u \in Tools PROVE RunSound(migration[u])'
    BY DEF ReadingSound
  <2>1. RunSound(migration'[u])
    BY <1>1 DEF MigrationInv, ReadingSound
  <2> QED BY <2>1 DEF RunSound, FirstReading, Copied, SecondReading, Held
<1> QED BY <1>1, <1>2 DEF MigrationInv, SourceSound

\* A step of one run that touches nothing of the target but what it linked itself.
LEMMA QuietStep ==
  ASSUME MigrationInv, NEW t \in Tools, NEW next \in MigrationTool,
         migration' = [migration EXCEPT ![t] = next], RunSound(next),
         next.pc \notin {"sync", "unlink"},
         UNCHANGED <<inodes, changes, newStats, synced, reported>>
  PROVE  MigrationInv'
<1>1. /\ migration' \in [Tools -> MigrationTool] /\ SourceSound' /\ ReadingSound'
      /\ migration'[t] = next /\ \A u \in Tools \ {t} : migration'[u] = migration[u]
  BY RunStep
<1>2. MigrationTypes'
  BY <1>1 DEF MigrationInv, MigrationTypes
<1>3. TargetSound' /\ MigratedWhole'
  BY <1>1 DEF MigrationInv, TargetSound, MigratedWhole
<1> QED BY <1>1, <1>2, <1>3 DEF MigrationInv

\* A run that ends keeps nothing.
LEMMA IdleRun == ToolIdle \in MigrationTool /\ RunSound(ToolIdle)
BY DEF ToolIdle, MigrationTool, RunSound, ReadingPcs, PreparedPcs, LinkingPcs, NoStats, Truncated

\* A run that reads knows what the source held, in the file it has open.
LEMMA ReadStep ==
  ASSUME MigrationInv, NEW t \in Tools, OpenSource(t) \/ ReadHead(t) \/ ReadTail(t)
  PROVE  MigrationInv'
<1> DEFINE m == migration[t]
<1>m. m \in MigrationTool /\ RunSound(m)
  BY DEF MigrationInv, MigrationTypes, ReadingSound
<1>s. /\ Len(inodes) \in Nat \ {0} /\ SourceSound /\ changes \in Nat
      /\ \A fd \in 1..Len(inodes) : inodes[fd].head \in Nat /\ inodes[fd].tail \in Nat /\ inodes[fd].stamp \in Nat
  <2>1. inodes \in Seq(Inode) /\ Len(inodes) > 0 /\ SourceSound /\ changes \in Nat
    BY DEF MigrationInv, MigrationTypes
  <2>2. \A fd \in 1..Len(inodes) : inodes[fd] \in Inode
    BY <2>1
  <2> QED BY <2>1, <2>2 DEF Inode
<1>1. CASE OpenSource(t)
  <2> DEFINE fd == Len(inodes)
             next == [pc |-> "head", fd |-> fd, before |-> Fingerprint(fd), head |-> m.head,
                      tail |-> m.tail, print |-> m.print, data |-> m.data]
  <2>1. /\ migration' = [migration EXCEPT ![t] = next]
        /\ m.pc \in {"idle", "recheck"}
        /\ UNCHANGED <<inodes, changes, newStats, synced, reported>>
    <3>1. next = [m EXCEPT !.pc = "head", !.fd = fd, !.before = Fingerprint(fd)]
      <4> DEFINE opened == [m EXCEPT !.pc = "head"]
                 found == [opened EXCEPT !.fd = fd]
      <4>1. opened = [pc |-> "head", fd |-> m.fd, before |-> m.before, head |-> m.head,
                      tail |-> m.tail, print |-> m.print, data |-> m.data]
        BY <1>m DEF MigrationTool
      <4> HIDE DEF opened
      <4>2. found = [pc |-> "head", fd |-> fd, before |-> m.before, head |-> m.head,
                     tail |-> m.tail, print |-> m.print, data |-> m.data]
        BY <4>1
      <4> HIDE DEF found
      <4>3. next = [found EXCEPT !.before = Fingerprint(fd)]
        BY <4>2
      <4> QED BY <4>3, Zenon DEF found, opened
    <3> QED BY <1>1, <3>1, Zenon DEF OpenSource, Goes
  <2>2. Fingerprint(fd) \in Printed /\ Fingerprint(fd)[1] = fd
    <3> DEFINE cut == inodes[fd].tail = Truncated
    <3>1. fd \in Nat /\ cut \in BOOLEAN /\ inodes[fd].stamp \in Nat
      BY <1>s
    <3>2. Fingerprint(fd) = <<fd, cut, inodes[fd].stamp>>
      BY DEF Fingerprint
    <3> HIDE DEF fd, cut
    <3> QED BY <3>1, <3>2 DEF Printed
  <2>3. next \in MigrationTool
    BY <1>m, <1>s, <2>2 DEF MigrationTool, ReadingPcs
  <2>4. RunSound(next)
    <3>1. m.pc = "idle" => m.tail = Truncated /\ m.data = NoStats
      BY <1>m DEF RunSound, ToolIdle
    <3>2. m.pc = "recheck" => m.data # NoStats /\ Copied(m)
      BY <1>m DEF RunSound, PreparedPcs
    <3>3. Copied(m) => Copied(next)
      BY DEF Copied
    <3>4. Fingerprint(fd) # <<>>
      BY DEF Fingerprint
    <3>5. FirstReading(next) <=> m.tail = Truncated
      BY DEF FirstReading
    <3>6. SecondReading(next)
      BY DEF SecondReading
    <3> HIDE DEF m
    <3> QED BY <1>s, <2>1, <2>2, <3>1, <3>2, <3>3, <3>4, <3>5, <3>6
            DEF RunSound, ReadingPcs, PreparedPcs, LinkingPcs
  <2> QED
    <3>1. next.pc = "head"
      OBVIOUS
    <3> HIDE DEF next
    <3> QED BY <2>1, <2>3, <2>4, <3>1, QuietStep
<1>2. CASE ReadHead(t)
  <2> DEFINE head == inodes[m.fd].head
             pc == IF head = Truncated THEN "compare" ELSE "tail"
             next == [pc |-> pc, fd |-> m.fd, before |-> m.before, head |-> head,
                      tail |-> m.tail, print |-> m.print, data |-> m.data]
  <2>1. /\ migration' = [migration EXCEPT ![t] = next] /\ m.pc = "head"
        /\ UNCHANGED <<inodes, changes, newStats, synced, reported>>
    <3>1. next = [m EXCEPT !.pc = pc, !.head = head]
      <4> DEFINE seen == [m EXCEPT !.pc = pc]
      <4> HIDE DEF pc, head
      <4>1. seen = [pc |-> pc, fd |-> m.fd, before |-> m.before, head |-> m.head,
                    tail |-> m.tail, print |-> m.print, data |-> m.data]
        BY <1>m DEF MigrationTool
      <4> HIDE DEF seen
      <4>2. next = [seen EXCEPT !.head = head]
        BY <4>1
      <4> QED BY <4>2, Zenon DEF seen
    <3> QED BY <1>2, <3>1, Zenon DEF ReadHead, Goes
  <2>2. m.fd \in 1..Len(inodes) /\ m.before # <<>> /\ m.before[1] = m.fd
    BY <1>m, <2>1 DEF RunSound, ReadingPcs
  <2>3. head \in Nat /\ head \in 0..changes + 1 /\ head = inodes[m.fd].head
    BY <1>s, <2>2 DEF SourceSound
  <2> HIDE DEF head
  <2>4. next \in MigrationTool
    BY <1>m, <2>3 DEF MigrationTool, ReadingPcs
  <2>5. RunSound(next)
    <3>1. m.data = NoStats => m.tail = Truncated
      BY <1>m, <2>1 DEF RunSound, FirstReading, ReadingPcs
    <3>2. m.data # NoStats => Copied(m)
      BY <1>m, <2>1 DEF RunSound, ReadingPcs
    <3>3. Copied(m) => Copied(next)
      BY DEF Copied
    <3>4. m.tail = Truncated => FirstReading(next)
      BY <1>s, <2>2, <2>3 DEF FirstReading, Held, Truncated
    <3>5. Copied(m) => SecondReading(next)
      BY <1>s, <2>2, <2>3 DEF SecondReading, Copied, Held, Truncated
    <3>6. pc \in {"tail", "compare"}
      OBVIOUS
    <3> HIDE DEF m, pc
    <3> QED BY <2>2, <3>1, <3>2, <3>3, <3>4, <3>5, <3>6
            DEF RunSound, ReadingPcs, PreparedPcs, LinkingPcs
  <2> QED
    <3>1. next.pc \notin {"sync", "unlink"}
      OBVIOUS
    <3> HIDE DEF next
    <3> QED BY <2>1, <2>4, <2>5, <3>1, QuietStep
<1>3. CASE ReadTail(t)
  <2> DEFINE tail == inodes[m.fd].tail
             next == [pc |-> "compare", fd |-> m.fd, before |-> m.before, head |-> m.head,
                      tail |-> tail, print |-> m.print, data |-> m.data]
  <2>1. /\ migration' = [migration EXCEPT ![t] = next] /\ m.pc = "tail"
        /\ UNCHANGED <<inodes, changes, newStats, synced, reported>>
    <3>1. next = [m EXCEPT !.pc = "compare", !.tail = tail]
      <4> DEFINE seen == [m EXCEPT !.pc = "compare"]
      <4> HIDE DEF tail
      <4>1. seen = [pc |-> "compare", fd |-> m.fd, before |-> m.before, head |-> m.head,
                    tail |-> m.tail, print |-> m.print, data |-> m.data]
        BY <1>m DEF MigrationTool
      <4> HIDE DEF seen
      <4>2. next = [seen EXCEPT !.tail = tail]
        BY <4>1
      <4> QED BY <4>2, Zenon DEF seen
    <3> QED BY <1>3, <3>1, Zenon DEF ReadTail, Goes
  <2>2. m.fd \in 1..Len(inodes) /\ m.before # <<>> /\ m.before[1] = m.fd
    BY <1>m, <2>1 DEF RunSound, ReadingPcs
  <2>3. tail \in Nat /\ tail \in 0..changes + 1 /\ tail = inodes[m.fd].head
    BY <1>s, <2>2 DEF SourceSound
  <2> HIDE DEF tail
  <2>4. next \in MigrationTool
    BY <1>m, <2>3 DEF MigrationTool, ReadingPcs
  <2>5. RunSound(next)
    <3>1. m.data = NoStats => Held(m.head, m.fd)
      BY <1>m, <2>1 DEF RunSound, FirstReading, ReadingPcs
    <3>2. m.data # NoStats => Copied(m) /\ SecondReading(m)
      BY <1>m, <2>1 DEF RunSound, ReadingPcs
    <3>3. Copied(m) => Copied(next)
      BY DEF Copied
    <3>4. Held(m.head, m.fd) => FirstReading(next)
      BY <1>s, <2>2, <2>3 DEF FirstReading, Held, Truncated
    <3>5. SecondReading(m) => SecondReading(next)
      BY <2>1 DEF SecondReading
    <3> HIDE DEF m
    <3> QED BY <2>2, <3>1, <3>2, <3>3, <3>4, <3>5
            DEF RunSound, ReadingPcs, PreparedPcs, LinkingPcs
  <2> QED
    <3>1. next.pc \notin {"sync", "unlink"}
      OBVIOUS
    <3> HIDE DEF next
    <3> QED BY <2>1, <2>4, <2>5, <3>1, QuietStep
<1> QED BY <1>1, <1>2, <1>3
\* A run that looks at what it read, prepares the target or ends.
LEMMA PrepareStep ==
  ASSUME MigrationInv, NEW t \in Tools,
         \/ CheckSource(t) \/ MakeDirectory(t) \/ WriteTemporary(t) \/ RecheckSource(t)
         \/ MigrationFails(t) \/ KillMigration(t)
  PROVE  MigrationInv'
<1> DEFINE m == migration[t]
<1>m. m \in MigrationTool /\ RunSound(m)
  BY DEF MigrationInv, MigrationTypes, ReadingSound
<1>e. ASSUME migration' = [migration EXCEPT ![t] = ToolIdle],
             UNCHANGED <<inodes, changes, newStats, synced, reported>>
      PROVE  MigrationInv'
  <2>1. ToolIdle.pc \notin {"sync", "unlink"}
    BY DEF ToolIdle
  <2> QED BY <1>e, <2>1, IdleRun, QuietStep
<1>1. CASE CheckSource(t)
  <2> DEFINE next == [pc |-> "mkdir", fd |-> 0, before |-> <<>>, head |-> Truncated,
                      tail |-> Truncated, print |-> m.before, data |-> <<m.head, m.tail>>]
  <2>1. /\ m.pc = "compare" /\ m.data = NoStats
        /\ UNCHANGED <<inodes, changes, newStats, synced, reported>>
    BY <1>1 DEF CheckSource
  <2>2. \/ migration' = [migration EXCEPT ![t] = ToolIdle]
        \/ m.tail # Truncated /\ migration' = [migration EXCEPT ![t] = next]
    <3>1. next = [ToolIdle EXCEPT !.pc = "mkdir", !.print = m.before, !.data = <<m.head, m.tail>>]
      <4> DEFINE a == [ToolIdle EXCEPT !.pc = "mkdir"]
                 b == [a EXCEPT !.print = m.before]
      <4>1. a = [pc |-> "mkdir", fd |-> 0, before |-> <<>>, head |-> Truncated,
                 tail |-> Truncated, print |-> <<>>, data |-> NoStats]
        BY DEF ToolIdle
      <4> HIDE DEF a
      <4>2. b = [pc |-> "mkdir", fd |-> 0, before |-> <<>>, head |-> Truncated,
                 tail |-> Truncated, print |-> m.before, data |-> NoStats]
        BY <4>1
      <4> HIDE DEF b
      <4>3. next = [b EXCEPT !.data = <<m.head, m.tail>>]
        BY <4>2
      <4> QED BY <4>3, Zenon DEF b, a
    <3> QED BY <1>1, <3>1, Zenon DEF CheckSource, Goes
  <2>3. ASSUME m.tail # Truncated PROVE next \in MigrationTool /\ RunSound(next)
    <3>1. /\ m.fd \in 1..Len(inodes) /\ m.before # <<>> /\ m.before[1] = m.fd
          /\ m.head \in 1..m.tail /\ Held(m.tail, m.fd)
      BY <1>m, <2>1, <2>3 DEF RunSound, FirstReading, ReadingPcs
    <3>2. m.head \in Nat /\ m.tail \in Nat /\ m.before \in {<<>>} \cup Printed
      BY <1>m DEF MigrationTool
    <3>3. next \in MigrationTool
      BY <3>2 DEF MigrationTool, PreparedPcs, Truncated
    <3>4. Copied(next)
      BY <3>1, <3>2 DEF Copied
    <3>5. next.data # NoStats
      BY DEF NoStats
    <3> QED BY <3>3, <3>4, <3>5 DEF RunSound, ReadingPcs, PreparedPcs, LinkingPcs
  <2>4. next.pc \notin {"sync", "unlink"}
    OBVIOUS
  <2> HIDE DEF next
  <2> QED BY <1>e, <2>1, <2>2, <2>3, <2>4, QuietStep
<1>2. CASE MakeDirectory(t) \/ WriteTemporary(t)
  <2> DEFINE pc == IF MakeDirectory(t) THEN "temporary" ELSE "recheck"
             next == [m EXCEPT !.pc = pc]
  <2>1. /\ m.pc \in {"mkdir", "temporary"}
        /\ UNCHANGED <<inodes, changes, newStats, synced, reported>>
    BY <1>2 DEF MakeDirectory, WriteTemporary
  <2>2. \/ migration' = [migration EXCEPT ![t] = ToolIdle]
        \/ migration' = [migration EXCEPT ![t] = next]
    BY <1>2, Zenon DEF MakeDirectory, WriteTemporary, Goes
  <2>3. pc \in {"temporary", "recheck"}
    OBVIOUS
  <2> HIDE DEF pc
  <2>4. next = [pc |-> pc, fd |-> m.fd, before |-> m.before, head |-> m.head,
                tail |-> m.tail, print |-> m.print, data |-> m.data]
    BY <1>m DEF MigrationTool
  <2> HIDE DEF next
  <2>5. next \in MigrationTool
    BY <1>m, <2>3, <2>4 DEF MigrationTool, PreparedPcs
  <2>6. m.data # NoStats /\ Copied(m)
    BY <1>m, <2>1 DEF RunSound, PreparedPcs
  <2>7. RunSound(next)
    <3>1. Copied(next)
      BY <2>4, <2>6 DEF Copied
    <3> QED BY <2>3, <2>4, <2>6, <3>1 DEF RunSound, ReadingPcs, PreparedPcs, LinkingPcs
  <2> QED BY <1>e, <2>1, <2>2, <2>3, <2>4, <2>5, <2>7, QuietStep
<1>3. CASE RecheckSource(t)
  <2> DEFINE next == [ToolIdle EXCEPT !.pc = "link", !.data = m.data]
  <2>1. /\ m.pc = "compare" /\ m.data # NoStats
        /\ UNCHANGED <<inodes, changes, newStats, synced, reported>>
    BY <1>3 DEF RecheckSource
  <2>2. \/ migration' = [migration EXCEPT ![t] = ToolIdle]
        \/ /\ m.before = m.print /\ <<m.head, m.tail>> = m.data
           /\ migration' = [migration EXCEPT ![t] = next]
    BY <1>3, Zenon DEF RecheckSource, Goes
  <2>3. next = [pc |-> "link", fd |-> 0, before |-> <<>>, head |-> Truncated,
                tail |-> Truncated, print |-> <<>>, data |-> m.data]
    <3> DEFINE a == [ToolIdle EXCEPT !.pc = "link"]
    <3>1. a = [pc |-> "link", fd |-> 0, before |-> <<>>, head |-> Truncated,
               tail |-> Truncated, print |-> <<>>, data |-> NoStats]
      BY DEF ToolIdle
    <3> HIDE DEF a
    <3>2. [a EXCEPT !.data = m.data] =
             [pc |-> "link", fd |-> 0, before |-> <<>>, head |-> Truncated,
              tail |-> Truncated, print |-> <<>>, data |-> m.data]
      BY <3>1
    <3> QED BY <3>2, Zenon DEF a
  <2>4. ASSUME m.before = m.print, <<m.head, m.tail>> = m.data
        PROVE  next \in MigrationTool /\ RunSound(next)
    <3>1. /\ Copied(m) /\ SecondReading(m) /\ m.before[1] = m.fd
      BY <1>m, <2>1 DEF RunSound, ReadingPcs
    <3>2. m.head \in Nat /\ m.tail \in Nat /\ m.data \in {NoStats} \cup (Nat \X Nat)
      BY <1>m DEF MigrationTool
    <3>3. m.data[1] = m.head /\ m.data[2] = m.tail
      BY <2>4
    <3>4. m.data[1] = m.data[2]
      BY <2>1, <2>4, <3>1, <3>2, <3>3 DEF Copied, SecondReading, Truncated
    <3> HIDE DEF next
    <3>5. next \in MigrationTool
      BY <2>3, <3>2 DEF MigrationTool, LinkingPcs, Truncated
    <3> QED BY <2>1, <2>3, <3>4, <3>5 DEF RunSound, ReadingPcs, PreparedPcs, LinkingPcs
  <2>5. next.pc \notin {"sync", "unlink"}
    BY <2>3
  <2> HIDE DEF next
  <2> QED BY <1>e, <2>1, <2>2, <2>4, <2>5, QuietStep
<1>4. CASE MigrationFails(t) \/ KillMigration(t)
  <2>1. /\ migration' = [migration EXCEPT ![t] = ToolIdle]
        /\ UNCHANGED <<inodes, changes, newStats, synced, reported>>
    BY <1>4 DEF MigrationFails, KillMigration, Ends, Goes
  <2> QED BY <1>e, <2>1
<1> QED BY <1>1, <1>2, <1>3, <1>4

\* Between its link and its end a run finds the target as it linked it.
LEMMA LinkedIsThere ==
  ASSUME MigrationInv
  PROVE  \A u \in Tools : migration[u].pc \in {"sync", "unlink"} =>
                              newStats = migration[u].data /\ newStats # NoStats
<1> SUFFICES ASSUME NEW u \in Tools, migration[u].pc \in {"sync", "unlink"}
             PROVE  newStats = migration[u].data /\ newStats # NoStats
  OBVIOUS
<1>1. newStats = migration[u].data
  BY DEF MigrationInv, TargetSound
<1>2. RunSound(migration[u])
  BY DEF MigrationInv, ReadingSound
<1>3. migration[u].data # NoStats
  BY <1>2 DEF RunSound, LinkingPcs
<1> QED BY <1>1, <1>3

\* A run that links the target does so with a whole document, and only where nothing
\* was; what it reports is on disk.
LEMMA TargetStep ==
  ASSUME MigrationInv, NEW t \in Tools, LinkTarget(t) \/ SyncTarget(t) \/ ReportResult(t)
  PROVE  MigrationInv'
<1> DEFINE m == migration[t]
<1>m. m \in MigrationTool /\ RunSound(m)
  BY DEF MigrationInv, MigrationTypes, ReadingSound
<1>1. /\ m.pc \in LinkingPcs /\ m.data \in Nat \X Nat /\ m.data # NoStats
      /\ m.data[1] = m.data[2] /\ m.data \in Halves
  <2>1. m.pc \in LinkingPcs
    BY DEF LinkTarget, SyncTarget, ReportResult, LinkingPcs
  <2>2. m.data # NoStats /\ m.data[1] = m.data[2]
    BY <1>m, <2>1 DEF RunSound
  <2>3. m.data \in Nat \X Nat
    BY <1>m, <2>2 DEF MigrationTool
  <2> QED BY <2>1, <2>2, <2>3 DEF Halves
<1>a. ASSUME NEW pc \in LinkingPcs, NEW next, next = [m EXCEPT !.pc = pc]
      PROVE  next \in MigrationTool /\ RunSound(next) /\ next.pc = pc /\ next.data = m.data
  <2>1. next = [pc |-> pc, fd |-> m.fd, before |-> m.before, head |-> m.head,
                tail |-> m.tail, print |-> m.print, data |-> m.data]
    BY <1>a, <1>m DEF MigrationTool
  <2>2. next \in MigrationTool
    BY <1>m, <2>1 DEF MigrationTool
  <2> QED BY <1>1, <2>1, <2>2 DEF RunSound, ReadingPcs, PreparedPcs, LinkingPcs
<1>k. \A u \in Tools : migration[u].pc \in {"sync", "unlink"} =>
                           newStats = migration[u].data /\ newStats # NoStats
  BY LinkedIsThere
<1>2. CASE LinkTarget(t) /\ newStats = NoStats
  <2> DEFINE next == [m EXCEPT !.pc = "sync"]
  <2>1. /\ newStats' = m.data /\ migration' = [migration EXCEPT ![t] = next]
        /\ UNCHANGED <<inodes, changes, synced, reported>>
    BY <1>2, Zenon DEF LinkTarget, Goes
  <2>2. next \in MigrationTool /\ RunSound(next) /\ next.pc = "sync" /\ next.data = m.data
    BY <1>a DEF LinkingPcs
  <2> HIDE DEF next
  <2>3. /\ migration' \in [Tools -> MigrationTool] /\ SourceSound' /\ ReadingSound'
        /\ migration'[t] = next /\ \A u \in Tools \ {t} : migration'[u] = migration[u]
    BY <2>1, <2>2, RunStep
  <2>4. MigrationTypes'
    BY <1>1, <2>1, <2>3 DEF MigrationInv, MigrationTypes
  <2>5. reported = NoStats
    BY <1>2 DEF MigrationInv, MigratedWhole
  <2>6. TargetSound'
    BY <1>2, <1>k, <2>1, <2>2, <2>3, <2>5 DEF TargetSound
  <2>7. MigratedWhole'
    BY <1>1, <2>1, <2>5 DEF MigratedWhole
  <2> QED BY <2>3, <2>4, <2>6, <2>7 DEF MigrationInv
<1>3. CASE LinkTarget(t) /\ newStats # NoStats
  <2>1. /\ migration' = [migration EXCEPT ![t] = ToolIdle]
        /\ UNCHANGED <<inodes, changes, newStats, synced, reported>>
    BY <1>3 DEF LinkTarget, Goes
  <2>2. ToolIdle.pc \notin {"sync", "unlink"}
    BY DEF ToolIdle
  <2> QED BY <2>1, <2>2, IdleRun, QuietStep
<1>4. CASE SyncTarget(t)
  <2> DEFINE next == [m EXCEPT !.pc = "unlink"]
  <2>1. /\ m.pc = "sync" /\ synced' = TRUE /\ migration' = [migration EXCEPT ![t] = next]
        /\ UNCHANGED <<inodes, changes, newStats, reported>>
    BY <1>4, Zenon DEF SyncTarget, Goes
  <2>2. next \in MigrationTool /\ RunSound(next) /\ next.pc = "unlink" /\ next.data = m.data
    BY <1>a DEF LinkingPcs
  <2> HIDE DEF next
  <2>3. /\ migration' \in [Tools -> MigrationTool] /\ SourceSound' /\ ReadingSound'
        /\ migration'[t] = next /\ \A u \in Tools \ {t} : migration'[u] = migration[u]
    BY <2>1, <2>2, RunStep
  <2>4. MigrationTypes'
    BY <2>1, <2>3 DEF MigrationInv, MigrationTypes
  <2>5. TargetSound'
    BY <1>k, <2>1, <2>2, <2>3 DEF TargetSound
  <2>6. MigratedWhole'
    BY <2>1 DEF MigrationInv, MigratedWhole
  <2> QED BY <2>3, <2>4, <2>5, <2>6 DEF MigrationInv
<1>5. CASE ReportResult(t)
  <2>1. /\ m.pc = "unlink" /\ reported' = m.data /\ migration' = [migration EXCEPT ![t] = ToolIdle]
        /\ UNCHANGED <<inodes, changes, newStats, synced>>
    BY <1>5 DEF ReportResult, Goes
  <2>2. /\ migration' \in [Tools -> MigrationTool] /\ SourceSound' /\ ReadingSound'
        /\ migration'[t] = ToolIdle /\ \A u \in Tools \ {t} : migration'[u] = migration[u]
    BY <2>1, IdleRun, RunStep
  <2>3. MigrationTypes'
    BY <1>1, <2>1, <2>2 DEF MigrationInv, MigrationTypes
  <2>4. synced /\ newStats = m.data
    BY <1>k, <2>1 DEF MigrationInv, TargetSound
  <2>5. TargetSound'
    BY <1>k, <2>1, <2>2, <2>4 DEF MigrationInv, TargetSound, ToolIdle
  <2>6. MigratedWhole'
    BY <2>1, <2>4 DEF MigrationInv, MigratedWhole
  <2> QED BY <2>2, <2>3, <2>5, <2>6 DEF MigrationInv
<1> QED BY <1>2, <1>3, <1>4, <1>5

\* The host loses power, or a server is started on the target.
LEMMA HostStep == ASSUME MigrationInv, LosePower \/ ServerCreatesStats PROVE MigrationInv'
<1>1. CASE LosePower
  <2>1. /\ migration' = [t \in Tools |-> ToolIdle] /\ UNCHANGED <<inodes, changes>>
        /\ newStats' \in {newStats, NoStats} /\ reported' \in {reported, NoStats}
        /\ synced' = (newStats' # NoStats)
        /\ reported' # NoStats /\ synced => newStats' = newStats
    BY <1>1 DEF LosePower
  <2>2. \A t \in Tools : migration'[t] = ToolIdle
    BY <2>1
  <2>3. ReadingSound'
    BY <2>1, <2>2, IdleRun DEF ReadingSound, RunSound, ToolIdle, ReadingPcs, PreparedPcs, LinkingPcs
  <2>4. MigrationTypes'
    BY <2>1, IdleRun DEF MigrationInv, MigrationTypes
  <2>5. reported' # NoStats => reported' = reported /\ newStats' = newStats /\ newStats = reported
    BY <2>1 DEF MigrationInv, TargetSound, MigratedWhole
  <2>6. TargetSound' /\ MigratedWhole'
    BY <2>1, <2>2, <2>5 DEF MigrationInv, TargetSound, MigratedWhole, ToolIdle
  <2> QED BY <2>1, <2>3, <2>4, <2>6 DEF MigrationInv, SourceSound
<1>2. CASE ServerCreatesStats
  <2>1. /\ newStats = NoStats /\ newStats' = <<-1, -1>>
        /\ UNCHANGED <<inodes, changes, migration, synced, reported>>
    BY <1>2 DEF ServerCreatesStats, ServerDocument
  <2>2. reported = NoStats
    BY <2>1 DEF MigrationInv, MigratedWhole
  <2>3. \A t \in Tools : migration[t].pc \notin {"sync", "unlink"}
    BY <2>1, LinkedIsThere
  <2>4. MigrationTypes'
    BY <2>1 DEF MigrationInv, MigrationTypes, Halves
  <2>5. SourceSound' /\ ReadingSound'
    BY <2>1 DEF MigrationInv, SourceSound, ReadingSound, RunSound, FirstReading, Copied,
                SecondReading, Held
  <2>6. TargetSound' /\ MigratedWhole'
    BY <2>1, <2>2, <2>3 DEF TargetSound, MigratedWhole
  <2> QED BY <2>4, <2>5, <2>6 DEF MigrationInv
<1> QED BY <1>1, <1>2

\* However the source changes while it is read, and however many runs overlap, fail
\* or are killed, the target is one whole document, and what a tool reported is there
\* (migrate, src/scripts/migrate_stats_data.py).
THEOREM MigrationWhole == MigrationSpec => []MigratedWhole
<1>1. MigrationInit => MigrationInv
  <2> SUFFICES ASSUME MigrationInit PROVE MigrationInv
    OBVIOUS
  <2>1. [head |-> 1, tail |-> 1, stamp |-> 0] \in Inode
    BY DEF Inode
  <2>2. MigrationTypes
    <3>1. inodes \in Seq(Inode) /\ Len(inodes) = 1
      BY <2>1 DEF MigrationInit
    <3>2. migration \in [Tools -> MigrationTool]
      BY IdleRun DEF MigrationInit
    <3>3. changes \in Nat /\ newStats = NoStats /\ reported = NoStats /\ synced \in BOOLEAN
      BY DEF MigrationInit
    <3> QED BY <3>1, <3>2, <3>3 DEF MigrationTypes
  <2>3. \A t \in Tools : migration[t] = ToolIdle
    BY DEF MigrationInit
  <2>4. ReadingSound /\ TargetSound /\ MigratedWhole
    BY <2>3, IdleRun DEF MigrationInit, ReadingSound, TargetSound, MigratedWhole, ToolIdle
  <2>5. SourceSound
    BY DEF MigrationInit, SourceSound
  <2> QED BY <2>2, <2>4, <2>5 DEF MigrationInv
<1>2. MigrationInv /\ [MigrationNext]_migrationVars => MigrationInv'
  <2> SUFFICES ASSUME MigrationInv, [MigrationNext]_migrationVars PROVE MigrationInv'
    OBVIOUS
  <2>1. CASE UNCHANGED migrationVars
    BY <2>1 DEF MigrationInv, MigrationTypes, SourceSound, ReadingSound, TargetSound, MigratedWhole,
                RunSound, FirstReading, Copied, SecondReading, Held, migrationVars
  <2> QED BY <2>1, SourceStep, HostStep, ReadStep, PrepareStep, TargetStep DEF MigrationNext
<1>3. MigrationInv => MigratedWhole
  BY DEF MigrationInv
<1> QED BY <1>1, <1>2, <1>3, PTL DEF MigrationSpec
=============================================================================
