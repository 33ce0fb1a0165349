------------------------- MODULE ConfigStoreProofs -------------------------
(* The configuration store, for any documents, goroutines and bounds: the  *)
(* configuration in force and in the file never goes back behind the last  *)
(* change that was answered, and concurrent changes add up.                *)
EXTENDS ConfigStore, FiniteSetTheorems, SequenceTheorems, TLAPS

USE ConfigAssumption DEF disk, checks, history, budget

\* What the goroutines and the files are made of, as far as the proofs need it.
ConfigTypes ==
    /\ document \in Documents
    /\ pc \in [Admins -> {"idle", "backup", "copy", "rename", "syncDirectory", "truncate",
                          "rewrite", "syncFile", "apply", "reconcile"}]
    /\ req \in [Admins -> Request]
    /\ file \in Content /\ survivors \subseteq Content /\ file \in survivors
    /\ certs \in [Certs -> {"absent", "idle", "checking"}]
    /\ running \in [Certs -> Nat]

\* Only the holder of mutationMu is at work.
OneAtWork == \A a \in Admins : pc[a] # "idle" => up /\ mutationMu = a

\* The document a request makes is wanted, and differs from the one in force
\* in what the request is about only.
RequestSound ==
    \A a \in Admins :
        /\ pc[a] # "idle" => req[a].op # "none" /\ req[a].doc \in wanted
        /\ pc[a] \notin {"idle", "reconcile"} =>
             req[a].doc \ req[a].changed = document \ req[a].changed

\* What the file holds is wanted, or torn on a mount.
FileSound ==
    /\ up => document \in wanted
    /\ \A c \in survivors : \/ c = Torn /\ mounted
                            \/ c # Torn /\ c.doc \in wanted

\* What a write in progress has reached: what the file holds is the request's
\* document or an edit made meanwhile, and once it is fsynced nothing else
\* can come back.
WriteReached ==
    \A a \in Admins :
        /\ pc[a] \in {"truncate", "rewrite"} => mounted
        /\ pc[a] \in {"syncDirectory", "syncFile"} =>
             file # Torn /\ file.doc \in {req[a].doc} \cup racing
        /\ (pc[a] \in {"apply", "reconcile"} /\ req[a].op = "write") =>
             \A c \in survivors : c # Torn /\ c.doc \in {req[a].doc} \cup racing

\* The certificates are those of the document in force, except between its
\* being applied and their being reconciled.
CertsSound ==
    /\ \A a \in Admins : pc[a] = "reconcile" => document = req[a].doc
    /\ (up /\ \A a \in Admins : pc[a] # "reconcile") =>
         {k \in Certs : certs[k] # "absent"} = document \cap Certs
    /\ C!CheckingMeansRunning

ConfigInv ==
    /\ ConfigTypes /\ OneAtWork /\ RequestSound /\ FileSound /\ WriteReached /\ CertsSound

-----------------------------------------------------------------------------
(* Each action keeps the invariant. *)

\* A request to change the configuration takes mutationMu, and its document
\* becomes wanted.
LEMMA BeginWriteStep ==
  ASSUME ConfigInv, NEW a \in Admins, NEW changed \in Documents, NEW doc \in Documents,
         doc \ changed = document \ changed, BeginWrite(a, changed, doc)
  PROVE  ConfigInv'
<1> USE DEF ConfigInv, ConfigTypes, OneAtWork
<1>1. ConfigTypes'
  BY DEF BeginWrite, Goto, Request
<1>2. OneAtWork'
  BY DEF BeginWrite, Lock, Goto
<1>3. RequestSound'
  BY <1>2 DEF BeginWrite, Lock, RequestSound
<1>4. FileSound'
  BY DEF BeginWrite, FileSound
<1>5. WriteReached'
  BY DEF BeginWrite, Goto, WriteReached
<1>6. CertsSound'
  BY DEF BeginWrite, Goto, CertsSound, C!CheckingMeansRunning
<1> QED BY <1>1, <1>2, <1>3, <1>4, <1>5, <1>6

\* A reload takes mutationMu, and asks for what the file holds.
LEMMA BeginReloadStep ==
  ASSUME ConfigInv, NEW a \in Admins, BeginReload(a)
  PROVE  ConfigInv'
<1> USE DEF ConfigInv, ConfigTypes, OneAtWork
<1>1. ConfigTypes'
  BY DEF BeginReload, Goto, Loads, Documents, Content, Torn, Intact, Request
<1>2. OneAtWork'
  BY DEF BeginReload, Lock, Goto
<1>3. RequestSound'
  BY <1>2 DEF BeginReload, Lock, Loads, RequestSound, Documents, Content, Torn, Intact,
              FileSound
<1>4. FileSound'
  BY DEF BeginReload, FileSound
<1>5. WriteReached'
  BY DEF BeginReload, Goto, WriteReached
<1>6. CertsSound'
  BY DEF BeginReload, Goto, CertsSound, C!CheckingMeansRunning
<1> QED BY <1>1, <1>2, <1>3, <1>4, <1>5, <1>6

\* A change refused because the file cannot be copied releases mutationMu.
LEMMA BackupRefusedStep ==
  ASSUME ConfigInv, NEW a \in Admins, BackupRefused(a)
  PROVE  ConfigInv'
<1> USE DEF ConfigInv, ConfigTypes, OneAtWork
<1>1. ConfigTypes'
  BY DEF BackupRefused, Release, Goto, Documents, Request, NoRequest
<1>2. OneAtWork'
  BY DEF BackupRefused, Release, Goto
<1>3. RequestSound'
  BY <1>2 DEF BackupRefused, Release, RequestSound
<1>4. FileSound'
  BY DEF BackupRefused, FileSound
<1>5. WriteReached'
  BY <1>2 DEF BackupRefused, Release, WriteReached
<1>6. CertsSound'
  BY <1>2 DEF BackupRefused, Release, CertsSound, C!CheckingMeansRunning
<1> QED BY <1>1, <1>2, <1>3, <1>4, <1>5, <1>6

\* Making the backup touches neither the file nor the configuration,
LEMMA CreateBackupStep ==
  ASSUME ConfigInv, NEW a \in Admins, CreateBackup(a)
  PROVE  ConfigInv'
<1> USE DEF ConfigInv, ConfigTypes, OneAtWork
<1>1. ConfigTypes'
  BY DEF CreateBackup, Goto
<1>2. OneAtWork'
  BY DEF CreateBackup, Goto
<1>3. RequestSound'
  BY <1>2 DEF CreateBackup, RequestSound
<1>4. FileSound'
  BY DEF CreateBackup, FileSound
<1>5. WriteReached'
  BY DEF CreateBackup, Goto, WriteReached
<1>6. CertsSound'
  BY DEF CreateBackup, Goto, CertsSound, C!CheckingMeansRunning
<1> QED BY <1>1, <1>2, <1>3, <1>4, <1>5, <1>6

\* nor does filling it and pruning the older ones.
LEMMA FillBackupStep ==
  ASSUME ConfigInv, NEW a \in Admins, FillBackup(a)
  PROVE  ConfigInv'
<1> USE DEF ConfigInv, ConfigTypes, OneAtWork
<1>1. ConfigTypes'
  BY DEF FillBackup, Goto
<1>2. OneAtWork'
  BY DEF FillBackup, Goto
<1>3. RequestSound'
  BY <1>2 DEF FillBackup, RequestSound
<1>4. FileSound'
  BY DEF FillBackup, FileSound
<1>5. WriteReached'
  BY DEF FillBackup, Goto, WriteReached
<1>6. CertsSound'
  BY DEF FillBackup, Goto, CertsSound, C!CheckingMeansRunning
<1> QED BY <1>1, <1>2, <1>3, <1>4, <1>5, <1>6

\* The rename makes the request's document one the file may come back with.
LEMMA RenameStep ==
  ASSUME ConfigInv, NEW a \in Admins, Rename(a)
  PROVE  ConfigInv'
<1> USE DEF ConfigInv, ConfigTypes, OneAtWork
<1>1. ConfigTypes'
  BY DEF Rename, Goto, Content, Request
<1>2. OneAtWork'
  BY DEF Rename, Goto
<1>3. RequestSound'
  BY <1>2 DEF Rename, RequestSound
<1>4. FileSound'
  BY DEF Rename, FileSound, Torn, Intact, RequestSound
<1>5. WriteReached'
  BY DEF Rename, Goto, WriteReached, Torn, Intact
<1>6. CertsSound'
  BY DEF Rename, Goto, CertsSound, C!CheckingMeansRunning
<1> QED BY <1>1, <1>2, <1>3, <1>4, <1>5, <1>6

\* The directory fsync leaves no other.
LEMMA SyncDirectoryStep ==
  ASSUME ConfigInv, NEW a \in Admins, SyncDirectory(a)
  PROVE  ConfigInv'
<1> USE DEF ConfigInv, ConfigTypes, OneAtWork
<1>1. ConfigTypes'
  BY DEF SyncDirectory, Goto
<1>2. OneAtWork'
  BY DEF SyncDirectory, Goto
<1>3. RequestSound'
  BY <1>2 DEF SyncDirectory, RequestSound
<1>4. FileSound'
  BY DEF SyncDirectory, FileSound
<1>5. WriteReached'
  BY DEF SyncDirectory, Goto, WriteReached
<1>6. CertsSound'
  BY DEF SyncDirectory, Goto, CertsSound, C!CheckingMeansRunning
<1> QED BY <1>1, <1>2, <1>3, <1>4, <1>5, <1>6

\* Only a mounted file is truncated,
LEMMA TruncateStep ==
  ASSUME ConfigInv, NEW a \in Admins, Truncate(a)
  PROVE  ConfigInv'
<1> USE DEF ConfigInv, ConfigTypes, OneAtWork
<1>1. ConfigTypes'
  BY DEF Truncate, Goto, Content
<1>2. OneAtWork'
  BY DEF Truncate, Goto
<1>3. RequestSound'
  BY <1>2 DEF Truncate, RequestSound
<1>4. FileSound'
  BY DEF Truncate, FileSound, WriteReached
<1>5. WriteReached'
  BY DEF Truncate, Goto, WriteReached
<1>6. CertsSound'
  BY DEF Truncate, Goto, CertsSound, C!CheckingMeansRunning
<1> QED BY <1>1, <1>2, <1>3, <1>4, <1>5, <1>6

\* and rewritten,
LEMMA RewriteStep ==
  ASSUME ConfigInv, NEW a \in Admins, Rewrite(a)
  PROVE  ConfigInv'
<1> USE DEF ConfigInv, ConfigTypes, OneAtWork
<1>1. ConfigTypes'
  BY DEF Rewrite, Goto, Content, Request
<1>2. OneAtWork'
  BY DEF Rewrite, Goto
<1>3. RequestSound'
  BY <1>2 DEF Rewrite, RequestSound
<1>4. FileSound'
  BY DEF Rewrite, FileSound, Torn, Intact, RequestSound
<1>5. WriteReached'
  BY DEF Rewrite, Goto, WriteReached, Torn, Intact
<1>6. CertsSound'
  BY DEF Rewrite, Goto, CertsSound, C!CheckingMeansRunning
<1> QED BY <1>1, <1>2, <1>3, <1>4, <1>5, <1>6

\* and fsynced, which again leaves no other document.
LEMMA SyncFileStep ==
  ASSUME ConfigInv, NEW a \in Admins, SyncFile(a)
  PROVE  ConfigInv'
<1> USE DEF ConfigInv, ConfigTypes, OneAtWork
<1>1. ConfigTypes'
  BY DEF SyncFile, Goto
<1>2. OneAtWork'
  BY DEF SyncFile, Goto
<1>3. RequestSound'
  BY <1>2 DEF SyncFile, RequestSound
<1>4. FileSound'
  BY DEF SyncFile, FileSound
<1>5. WriteReached'
  BY DEF SyncFile, Goto, WriteReached
<1>6. CertsSound'
  BY DEF SyncFile, Goto, CertsSound, C!CheckingMeansRunning
<1> QED BY <1>1, <1>2, <1>3, <1>4, <1>5, <1>6

\* A failed write leaves behind only what was wanted, or torn.
LEMMA WriteFailsStep ==
  ASSUME ConfigInv, NEW a \in Admins, WriteFails(a)
  PROVE  ConfigInv'
<1> USE DEF ConfigInv, ConfigTypes, OneAtWork
<1>1. ConfigTypes'
  BY DEF WriteFails, Release, Goto, Documents, Request, NoRequest
<1>2. OneAtWork'
  BY DEF WriteFails, Release, Goto
<1>3. RequestSound'
  BY <1>2 DEF WriteFails, Release, RequestSound
<1>4. FileSound'
  BY DEF WriteFails, FileSound
<1>5. WriteReached'
  BY <1>2 DEF WriteFails, Release, WriteReached
<1>6. CertsSound'
  BY <1>2 DEF WriteFails, Release, CertsSound, C!CheckingMeansRunning
<1> QED BY <1>1, <1>2, <1>3, <1>4, <1>5, <1>6

\* The document is applied, the certificates not yet.
LEMMA ApplyStep ==
  ASSUME ConfigInv, NEW a \in Admins, Apply(a)
  PROVE  ConfigInv'
<1> USE DEF ConfigInv, ConfigTypes, OneAtWork
<1>1. ConfigTypes'
  BY DEF Apply, Goto, Request
<1>2. OneAtWork'
  BY DEF Apply, Goto
<1>3. RequestSound'
  BY <1>2 DEF Apply, RequestSound
<1>4. FileSound'
  BY DEF Apply, FileSound, RequestSound
<1>5. WriteReached'
  BY DEF Apply, Goto, WriteReached
<1>6. CertsSound'
  BY DEF Apply, Goto, CertsSound, C!CheckingMeansRunning
<1> QED BY <1>1, <1>2, <1>3, <1>4, <1>5, <1>6

\* The answer makes the request's document, and edits since, all that is wanted.
LEMMA AnswerStep ==
  ASSUME ConfigInv, NEW a \in Admins, Answer(a)
  PROVE  ConfigInv'
<1> USE DEF ConfigInv, ConfigTypes, OneAtWork
<1>1. ConfigTypes'
  BY DEF Answer, Release, Goto, C!Reconcile, Documents, Request, NoRequest
<1>2. OneAtWork'
  BY DEF Answer, Release, Goto
<1>3. RequestSound'
  BY <1>2 DEF Answer, Release, RequestSound
<1>4. FileSound'
  <2>1. document = req[a].doc /\ req[a].op \in {"write", "reload"} /\ up
    BY DEF Answer, CertsSound, RequestSound, Request
  <2>2. CASE req[a].op = "reload"
    BY <2>2 DEF Answer, FileSound
  <2>3. CASE req[a].op = "write"
    BY <2>1 DEF Answer, FileSound, WriteReached
  <2> QED BY <2>1, <2>2, <2>3
<1>5. WriteReached'
  BY <1>2 DEF Answer, Release, WriteReached
<1>6. CertsSound'
  <2>1. document' = req[a].doc /\ pc'[a] = "idle" /\ \A b \in Admins : pc'[b] = "idle"
    BY DEF Answer, Release, Goto, CertsSound
  <2>2. {k \in Certs : certs'[k] # "absent"} = document' \cap Certs
    <3>1. certs' = [k \in Certs |-> IF k \notin document' \cap Certs THEN "absent"
                                     ELSE IF certs[k] = "absent" THEN "idle" ELSE certs[k]]
      BY <2>1 DEF Answer, C!Reconcile
    <3>2. \A k \in Certs : certs'[k] # "absent" <=> k \in document'
      BY <3>1
    <3> QED BY <3>2
  <2>3. \A k \in Certs : certs'[k] = "checking" => certs[k] = "checking"
    BY DEF Answer, C!Reconcile
  <2>4. running' = running
    BY DEF Answer, C!Reconcile
  <2> QED BY <2>1, <2>2, <2>3, <2>4 DEF CertsSound, C!CheckingMeansRunning
<1> QED BY <1>1, <1>2, <1>3, <1>4, <1>5, <1>6

\* Certificate checks keep the invariant.
LEMMA CheckStep ==
  ASSUME ConfigInv, CheckCertificates
  PROVE  ConfigInv'
<1> USE DEF ConfigInv
<1>1. UNCHANGED <<up, document, mutationMu, pc, req, mounted, file, survivors, wanted, racing>>
  BY DEF CheckCertificates
<1>2. /\ certs' \in [Certs -> {"absent", "idle", "checking"}]
      /\ running' \in [Certs -> Nat]
      /\ \A k \in Certs : certs'[k] = "absent" <=> certs[k] = "absent"
      /\ C!CheckingMeansRunning'
  <2>1. CASE \E due \in SUBSET Certs : C!StartDue(due)
    BY <2>1 DEF C!StartDue, ConfigTypes, CertsSound, C!CheckingMeansRunning
  <2>2. CASE \E k \in Certs : C!FinishCheck(k)
    BY <2>2 DEF C!FinishCheck, ConfigTypes, CertsSound, C!CheckingMeansRunning
  <2> QED BY <2>1, <2>2 DEF CheckCertificates
<1>3. ConfigTypes' /\ OneAtWork' /\ RequestSound' /\ FileSound' /\ WriteReached'
  BY <1>1, <1>2 DEF ConfigTypes, OneAtWork, RequestSound, FileSound, WriteReached
<1>4. CertsSound'
  BY <1>1, <1>2 DEF CertsSound
<1> QED BY <1>3, <1>4

\* An edit by hand keeps the invariant.
LEMMA EditStep ==
  ASSUME ConfigInv, NEW doc \in Documents, Edit(doc)
  PROVE  ConfigInv'
<1> USE DEF ConfigInv, ConfigTypes, OneAtWork
<1>1. ConfigTypes' /\ OneAtWork'
  BY DEF Edit, Content
<1>2. RequestSound'
  BY DEF Edit, RequestSound
<1>3. FileSound'
  BY DEF Edit, FileSound, Torn, Intact
<1>4. WriteReached'
  BY DEF Edit, WriteReached, Torn, Intact
<1>5. CertsSound'
  BY DEF Edit, CertsSound, C!CheckingMeansRunning
<1> QED BY <1>1, <1>2, <1>3, <1>4, <1>5

\* A crash keeps what the files hold sound, and leaves nobody at work.
LEMMA CrashStep ==
  ASSUME ConfigInv, Kill \/ PowerFailure
  PROVE  ConfigInv'
<1> USE DEF ConfigInv
<1>1. ForgetMemory /\ UNCHANGED <<mounted, wanted>>
  BY DEF Kill, PowerFailure
<1>2. file' \in survivors' /\ survivors' \subseteq survivors
  BY DEF Kill, PowerFailure, ConfigTypes
<1>3. ConfigTypes'
  BY <1>1, <1>2 DEF ForgetMemory, ConfigTypes, Documents, Request, NoRequest
<1>4. \A a \in Admins : pc'[a] = "idle"
  BY <1>1 DEF ForgetMemory
<1>5. OneAtWork' /\ RequestSound' /\ WriteReached'
  BY <1>4 DEF OneAtWork, RequestSound, WriteReached
<1>6. FileSound'
  BY <1>1, <1>2 DEF ForgetMemory, FileSound
<1>7. CertsSound'
  BY <1>1 DEF ForgetMemory, CertsSound, C!CheckingMeansRunning
<1> QED BY <1>3, <1>5, <1>6, <1>7

\* Starting, and the repair before it, keep the invariant.
LEMMA StartStep ==
  ASSUME ConfigInv, Start \/ Repair
  PROVE  ConfigInv'
<1> USE DEF ConfigInv
<1>1. ~up /\ \A a \in Admins : pc[a] = "idle" /\ pc'[a] = "idle"
  BY DEF Start, Repair, OneAtWork
<1>2. OneAtWork' /\ RequestSound' /\ WriteReached'
  BY <1>1 DEF OneAtWork, RequestSound, WriteReached
<1>3. CASE Start
  <2>1. file \in survivors /\ file # Torn /\ file.doc \in Documents /\ file.doc \in wanted
    BY <1>3 DEF Start, Loads, ConfigTypes, FileSound, Content, Torn, Intact
  <2>2. certs' \in [Certs -> {"absent", "idle", "checking"}]
    BY <1>3 DEF Start, C!Reconcile, ConfigTypes
  <2>3. ConfigTypes' /\ FileSound'
    BY <1>3, <2>1 DEF Start, C!Reconcile, ConfigTypes, FileSound
  <2>4. {k \in Certs : certs'[k] # "absent"} = document' \cap Certs
    <3>1. certs' = [k \in Certs |-> IF k \notin document' \cap Certs THEN "absent"
                                     ELSE IF certs[k] = "absent" THEN "idle" ELSE certs[k]]
      BY <1>3 DEF Start, C!Reconcile
    <3>2. \A k \in Certs : certs'[k] # "absent" <=> k \in document'
      BY <3>1
    <3> QED BY <3>2
  <2>5. C!CheckingMeansRunning'
    BY <1>3 DEF Start, C!Reconcile, CertsSound, C!CheckingMeansRunning
  <2>6. CertsSound'
    BY <1>1, <2>4, <2>5 DEF CertsSound
  <2> QED BY <1>2, <2>3, <2>6
<1>4. CASE Repair
  <2>1. PICK doc \in Documents :
          file' = Intact(doc) /\ survivors' = {file'} /\ wanted' = {doc}
    BY <1>4 DEF Repair
  <2>3. UNCHANGED <<up, document, pc, req, mounted, certs, running>> /\ ~up
    BY <1>4 DEF Repair
  <2>4. Intact(doc) \in Content
    BY DEF Content
  <2>5. ConfigTypes'
    BY <2>1, <2>3, <2>4 DEF ConfigTypes
  <2>6. FileSound'
    BY <2>1, <2>3 DEF FileSound, Torn, Intact
  <2>2. CertsSound'
    BY <1>4 DEF Repair, CertsSound, C!CheckingMeansRunning
  <2> QED BY <1>2, <2>5, <2>6, <2>2
<1> QED BY <1>3, <1>4

\* Init satisfies the invariant.
LEMMA InitStep == Init => ConfigInv
<1> SUFFICES ASSUME Init PROVE ConfigInv
  OBVIOUS
<1>1. ConfigTypes /\ OneAtWork /\ RequestSound
  BY DEF Init, C!CertsInit, ConfigTypes, OneAtWork, RequestSound, Request, NoRequest,
         Documents, Content
<1>2. FileSound /\ WriteReached
  BY DEF Init, FileSound, WriteReached, Torn, Intact
<1>3. CertsSound
  BY DEF Init, C!CertsInit, CertsSound, C!CheckingMeansRunning
<1> QED BY <1>1, <1>2, <1>3 DEF ConfigInv

\* Every step keeps the invariant.
LEMMA ConfigStep == ConfigInv /\ [Next]_vars => ConfigInv'
<1> SUFFICES ASSUME ConfigInv, [Next]_vars PROVE ConfigInv'
  OBVIOUS
<1>1. CASE UNCHANGED vars
  BY <1>1 DEF vars, ConfigInv, ConfigTypes, OneAtWork, RequestSound, FileSound,
              WriteReached, CertsSound, C!CheckingMeansRunning
<1>2. ASSUME NEW a \in Admins, Ask(a) PROVE ConfigInv'
  <2>1. CASE BeginReload(a)
    BY <2>1, BeginReloadStep
  <2>2. ASSUME NEW doc \in Documents, Replace(a, doc) PROVE ConfigInv'
    <3>1. document \in Documents /\ Items \in Documents
      BY DEF ConfigInv, ConfigTypes, Documents
    <3>2. doc \ Items = document \ Items
      BY <3>1 DEF Documents
    <3> QED BY <2>2, <3>1, <3>2, BeginWriteStep DEF Replace
  <2>3. ASSUME NEW i \in Items, NEW j \in Items, Create(a, i) \/ Update(a, i, j) \/ Delete(a, i)
        PROVE  ConfigInv'
    <3>1. document \subseteq Items
      BY DEF ConfigInv, ConfigTypes, Documents
    <3>2. CASE Create(a, i)
      <4> DEFINE doc == document \cup {i}
      <4>1. doc \in Documents /\ {i} \in Documents /\ doc \ {i} = document \ {i}
        BY <3>1 DEF Documents
      <4> QED BY <3>2, <4>1, BeginWriteStep DEF Create
    <3>3. CASE Update(a, i, j)
      <4> DEFINE doc == (document \ {i}) \cup {j}
      <4>1. doc \in Documents /\ {i, j} \in Documents /\ doc \ {i, j} = document \ {i, j}
        BY <3>1 DEF Documents
      <4> QED BY <3>3, <4>1, BeginWriteStep DEF Update
    <3>4. CASE Delete(a, i)
      <4> DEFINE doc == document \ {i}
      <4>1. doc \in Documents /\ {i} \in Documents /\ doc \ {i} = document \ {i}
        BY <3>1 DEF Documents
      <4> QED BY <3>4, <4>1, BeginWriteStep DEF Delete
    <3> QED BY <2>3, <3>2, <3>3, <3>4
  <2> QED BY <1>2, <2>1, <2>2, <2>3 DEF Ask
<1>3. ASSUME NEW a \in Admins, Write(a) PROVE ConfigInv'
  BY <1>3, BackupRefusedStep, CreateBackupStep, FillBackupStep, RenameStep, SyncDirectoryStep, TruncateStep, RewriteStep, SyncFileStep, WriteFailsStep
     DEF Write
<1>4. ASSUME NEW a \in Admins, Apply(a) \/ Answer(a) PROVE ConfigInv'
  BY <1>4, ApplyStep, AnswerStep
<1>5. CASE CheckCertificates
  BY <1>5, CheckStep
<1>6. ASSUME NEW doc \in Documents, Edit(doc) PROVE ConfigInv'
  BY <1>6, EditStep
<1>7. CASE Kill \/ PowerFailure \/ Start \/ Repair
  BY <1>7, CrashStep, StartStep
<1> QED BY <1>1, <1>2, <1>3, <1>4, <1>5, <1>6, <1>7 DEF Next

\* The invariant holds of every behaviour.
LEMMA ConfigInvariance == Spec => []ConfigInv
BY InitStep, ConfigStep, PTL DEF Spec

-----------------------------------------------------------------------------
\* Neither the configuration in force nor what the file may hold after a power
\* failure goes back behind the last change that was answered (writeConfig
\* before applyValidatedConfig, atomicWrite's fsyncs), for any number of
\* goroutines, documents, errors, crashes and edits.
THEOREM ConfigNeverBehind == Spec => []NeverBehindAnswered
<1>1. ConfigInv => NeverBehindAnswered
  BY DEF ConfigInv, FileSound, ConfigTypes, NeverBehindAnswered, Content, Torn, Intact
<1> QED BY <1>1, ConfigInvariance, PTL

\* The items a change is not about stay as they are when it takes effect:
\* mutationMu is held from the reading of the document to its replacement
\* (MutateConfig), so that changes asked for together add up.
THEOREM ConfigChangesAddUp == Spec => ChangesAddUp
<1> DEFINE Keeps == \A a \in Admins :
          (pc[a] = "apply" /\ pc'[a] = "reconcile") =>
              document' \ req[a].changed = document \ req[a].changed
<1>1. ConfigInv /\ [Next]_vars => [Keeps]_vars
  <2> SUFFICES ASSUME ConfigInv, Next, NEW a \in Admins, pc[a] = "apply", pc'[a] = "reconcile"
               PROVE  document' \ req[a].changed = document \ req[a].changed
    OBVIOUS
  <2>1. req[a].doc \ req[a].changed = document \ req[a].changed
    BY DEF ConfigInv, RequestSound
  <2>2. document' \in {document, req[a].doc}
    <3> USE DEF ConfigInv, ConfigTypes, OneAtWork
    <3>1. ASSUME NEW b \in Admins, Ask(b) PROVE document' = document
      BY <3>1 DEF Ask, Replace, Create, Update, Delete, BeginWrite, BeginReload
    <3>2. ASSUME NEW b \in Admins, Write(b) PROVE document' = document
      BY <3>2 DEF Write, BackupRefused, CreateBackup, FillBackup, Rename, SyncDirectory,
                  Truncate, Rewrite, SyncFile, WriteFails
    <3>3. ASSUME NEW b \in Admins, Apply(b) PROVE document' = req[a].doc
      <4>1. pc[b] = "apply" /\ mutationMu = b /\ mutationMu = a
        BY <3>3 DEF Apply
      <4> QED BY <3>3 DEF Apply
    <3>4. ASSUME NEW b \in Admins, Answer(b) PROVE document' = document
      BY <3>4 DEF Answer
    <3>5. CheckCertificates \/ (\E doc \in Documents : Edit(doc)) => document' = document
      BY DEF CheckCertificates, Edit
    <3>6. ~(Kill \/ PowerFailure \/ Start \/ Repair)
      BY DEF Kill, PowerFailure, ForgetMemory, Start, Repair
    <3> QED BY <3>1, <3>2, <3>3, <3>4, <3>5, <3>6 DEF Next
  <2> QED BY <2>1, <2>2
<1> QED BY <1>1, ConfigInvariance, PTL DEF Spec, ChangesAddUp

\* The certificates checked are those of the document in force whenever no
\* change is in progress (reconcileCerts runs before mutationMu is released).
THEOREM ConfigCertsFollow == Spec => []CertsFollowDocument
<1>1. ConfigInv => CertsFollowDocument
  <2> SUFFICES ASSUME ConfigInv, up, mutationMu = None
               PROVE  {k \in Certs : certs[k] # "absent"} = document \cap Certs
    BY DEF CertsFollowDocument
  <2>1. \A a \in Admins : pc[a] # "reconcile"
    BY DEF ConfigInv, OneAtWork
  <2> QED BY <2>1 DEF ConfigInv, CertsSound
<1> QED BY <1>1, ConfigInvariance, PTL

\* A certificate marked as being checked has a check in flight, whatever
\* changes of the configuration it lived through (executeSSLCheck finds the
\* state again by its key).
THEOREM ConfigNoCertStuck == Spec => []NoCertStuck
<1>1. ConfigInv => NoCertStuck
  BY DEF ConfigInv, CertsSound, NoCertStuck
<1> QED BY <1>1, ConfigInvariance, PTL

-----------------------------------------------------------------------------
(* The backups: what could be put in place of a torn file, and what a write   *)
(* is about to overwrite.                                                     *)

\* A backup that is of no use to an operator.
Useless(b) == ~b.full \/ b.content.torn

\* Of the backups s, the newest useful one is of a document of w, unless a
\* write has filled the kept ones with useless ones.
Recoverable(s, w) ==
    LET n == Len(s) IN
    \/ \E i \in 1..n : /\ ~Useless(s[i]) /\ s[i].content.doc \in w
                       /\ \A j \in i+1..n : Useless(s[j])
    \/ n >= Keep /\ \A j \in n-Keep+1..n : Useless(s[j])

\* So it is while the file is torn or about to be; a backup being copied is of
\* a wanted document, or of a torn file.
BackupsRecover ==
    /\ backups \in Seq(Backup)
    /\ \A i \in 1..Len(backups) : backups[i].content.torn \/ Loads(backups[i].content)
    /\ (file.torn \/ \E a \in Admins : pc[a] \in {"rename", "truncate"}) =>
          Recoverable(backups, wanted)
    /\ \A a \in Admins : pc[a] = "copy" =>
          LET last == backups[Len(backups)] IN
          /\ Len(backups) > 0
          /\ IF last.content.torn THEN Recoverable(backups, wanted)
             ELSE last.content.doc \in wanted

\* The write in progress has a backup of what it is about to overwrite, unless
\* that was edited in meanwhile.
OverwriteBacked ==
    \A a \in Admins :
        /\ pc[a] = "copy" =>
              /\ Len(backups) > 0 /\ backups[Len(backups)] \in Backup
              /\ ~file.torn /\ file.doc \notin racing => backups[Len(backups)].content = file
        /\ pc[a] \in {"rename", "truncate"} /\ ~file.torn /\ file.doc \notin racing =>
              \E i \in DOMAIN backups : backups[i].full /\ backups[i].content = file
        /\ pc[a] = "rewrite" => file.torn

\* The kept backups are the last ones.
LEMMA PrunedProperties ==
  ASSUME NEW S, NEW s \in Seq(S)
  PROVE  /\ Pruned(s) \in Seq(S) /\ Len(Pruned(s)) <= Len(s)
         /\ Len(Pruned(s)) = IF Len(s) <= Keep THEN Len(s) ELSE Keep
         /\ \A i \in 1..Len(Pruned(s)) : Pruned(s)[i] = s[Len(s) - Len(Pruned(s)) + i]
<1>0. Keep \in Nat \ {0} /\ Len(s) \in Nat
  BY DEF ConfigAssumption
<1>1. CASE Len(s) <= Keep
  BY <1>0, <1>1 DEF Pruned
<1>2. CASE Len(s) > Keep
  <2> DEFINE m == Len(s) - Keep + 1
  <2>1. m \in 1..Len(s) /\ \A i \in m..Len(s) : s[i] \in S
    BY <1>0, <1>2
  <2>2. Pruned(s) = SubSeq(s, m, Len(s))
    BY <1>0, <1>2 DEF Pruned
  <2>3. /\ SubSeq(s, m, Len(s)) \in Seq(S) /\ Len(SubSeq(s, m, Len(s))) = Keep
        /\ \A i \in 1..Keep : SubSeq(s, m, Len(s))[i] = s[m + i - 1]
    BY <1>0, <2>1, SubSeqProperties
  <2>4. ASSUME NEW i \in 1..Keep PROVE Pruned(s)[i] = s[Len(s) - Keep + i]
    <3>1. m + i - 1 = Len(s) - Keep + i
      BY <1>0
    <3> QED BY <2>2, <2>3, <3>1
  <2>5. Pruned(s) \in Seq(S) /\ Len(Pruned(s)) = Keep
    BY <2>2, <2>3
  <2> HIDE DEF m
  <2>6. Keep <= Len(s) /\ ~(Len(s) <= Keep)
    BY <1>0, <1>2
  <2> QED BY <2>4, <2>5, <2>6
<1> QED BY <1>0, <1>1, <1>2

\* One more useless backup leaves the others to recover from,
LEMMA RecoverableAppend ==
  ASSUME NEW s \in Seq(Backup), NEW w, NEW b \in Backup, Useless(b), Recoverable(s, w)
  PROVE  Recoverable(Append(s, b), w)
<1> DEFINE t == Append(s, b)
<1>1. /\ Len(s) \in Nat /\ Len(t) = Len(s) + 1 /\ t[Len(s) + 1] = b
      /\ \A i \in 1..Len(s) : t[i] = s[i]
  OBVIOUS
<1> HIDE DEF t
<1>2. Keep \in Nat \ {0}
  BY DEF ConfigAssumption
<1>3. ASSUME NEW i \in 1..Len(s), ~Useless(s[i]), s[i].content.doc \in w,
             \A j \in i+1..Len(s) : Useless(s[j])
      PROVE  Recoverable(t, w)
  <2>1. i \in 1..Len(t) /\ ~Useless(t[i]) /\ t[i].content.doc \in w
    BY <1>1, <1>3
  <2>2. \A j \in i+1..Len(t) : Useless(t[j])
    <3> SUFFICES ASSUME NEW j \in i+1..Len(t) PROVE Useless(t[j])
      OBVIOUS
    <3>1. j = Len(s) + 1 \/ j \in i+1..Len(s)
      BY <1>1, <1>3
    <3> QED BY <1>1, <1>3, <3>1
  <2> QED BY <2>1, <2>2 DEF Recoverable
<1>4. ASSUME Len(s) >= Keep, \A j \in Len(s)-Keep+1..Len(s) : Useless(s[j])
      PROVE  Recoverable(t, w)
  <2>1. \A j \in Len(t)-Keep+1..Len(t) : Useless(t[j])
    <3> SUFFICES ASSUME NEW j \in Len(t)-Keep+1..Len(t) PROVE Useless(t[j])
      OBVIOUS
    <3>1. j = Len(s) + 1 \/ (j \in Len(s)-Keep+1..Len(s) /\ j \in 1..Len(s))
      BY <1>1, <1>2, <1>4
    <3> QED BY <1>1, <1>4, <3>1
  <2> QED BY <1>1, <1>2, <1>4, <2>1 DEF Recoverable
<1> QED BY <1>3, <1>4 DEF Recoverable, t

\* the torn copy being completed is still useless,
LEMMA RecoverableFilled ==
  ASSUME NEW s \in Seq(Backup), NEW w, Len(s) > 0, s[Len(s)].content.torn, Recoverable(s, w)
  PROVE  Recoverable([s EXCEPT ![Len(s)].full = TRUE], w)
<1> DEFINE t == [s EXCEPT ![Len(s)].full = TRUE]
<1>1. /\ Len(s) \in Nat /\ Len(t) = Len(s) /\ t[Len(s)].content = s[Len(s)].content
      /\ \A i \in 1..Len(s)-1 : t[i] = s[i]
  BY DEF Backup
<1>2. Keep \in Nat \ {0}
  BY DEF ConfigAssumption
<1>3. Useless(s[Len(s)]) /\ Useless(t[Len(s)])
  BY <1>1 DEF Useless
<1> HIDE DEF t
<1>4. \A j \in 1..Len(s) : Useless(s[j]) => Useless(t[j])
  BY <1>1, <1>3
<1>5. \A j \in 1..Len(s) : ~Useless(s[j]) => t[j] = s[j]
  BY <1>1, <1>3
<1>6. ASSUME NEW i \in 1..Len(s), ~Useless(s[i]), s[i].content.doc \in w,
             \A j \in i+1..Len(s) : Useless(s[j])
      PROVE  Recoverable(t, w)
  <2>1. i \in 1..Len(t) /\ t[i] = s[i]
    BY <1>1, <1>5, <1>6
  <2>2. \A j \in i+1..Len(t) : Useless(t[j])
    BY <1>1, <1>4, <1>6
  <2> QED BY <1>6, <2>1, <2>2 DEF Recoverable
<1>7. ASSUME Len(s) >= Keep, \A j \in Len(s)-Keep+1..Len(s) : Useless(s[j])
      PROVE  Recoverable(t, w)
  BY <1>1, <1>2, <1>4, <1>7 DEF Recoverable
<1> QED BY <1>6, <1>7 DEF Recoverable, t

\* pruning drops a useful one only behind enough useless ones,
LEMMA RecoverablePruned ==
  ASSUME NEW s \in Seq(Backup), NEW w, Recoverable(s, w)
  PROVE  Recoverable(Pruned(s), w)
<1> DEFINE t == Pruned(s)
           k == Len(s) - Len(t)
<1>1. /\ Keep \in Nat \ {0} /\ Len(s) \in Nat /\ t \in Seq(Backup) /\ Len(t) \in Nat
      /\ Len(t) <= Len(s) /\ (Len(t) = IF Len(s) <= Keep THEN Len(s) ELSE Keep)
      /\ k \in Nat /\ \A i \in 1..Len(t) : t[i] = s[k + i]
  BY PrunedProperties DEF ConfigAssumption
<1> HIDE DEF t
<1>a. /\ Len(s) \in Nat /\ Len(t) \in Nat /\ Keep \in Nat \ {0} /\ k \in Nat /\ Len(s) = k + Len(t)
      /\ k > 0 \/ Len(s) >= Keep => Len(t) = Keep
  BY <1>1
<1>0. ASSUME NEW j \in k+1..Len(s) PROVE j - k \in 1..Len(t) /\ t[j - k] = s[j]
  <2>1. j - k \in 1..Len(t) /\ k + (j - k) = j
    BY <1>a
  <2> QED BY <1>1, <2>1
<1> HIDE DEF k
<1>2. ASSUME NEW i \in 1..Len(s), ~Useless(s[i]), s[i].content.doc \in w,
             \A j \in i+1..Len(s) : Useless(s[j])
      PROVE  Recoverable(t, w)
  <2>1. CASE i > k
    <3>1. i - k \in 1..Len(t) /\ t[i - k] = s[i]
      BY <1>0, <1>1, <2>1
    <3>2. ASSUME NEW j \in (i - k)+1..Len(t) PROVE Useless(t[j])
      <4>1. j \in 1..Len(t) /\ k + j \in i+1..Len(s)
        BY <1>a, <2>1
      <4> QED BY <1>1, <1>2, <4>1
    <3> QED BY <1>2, <3>1, <3>2 DEF Recoverable
  <2>2. CASE i <= k
    <3>1. Len(t) = Keep /\ \A j \in 1..Len(t) : Useless(t[j])
      <4>1. k > 0 /\ Len(t) = Keep
        BY <1>a, <2>2
      <4>2. ASSUME NEW j \in 1..Len(t) PROVE Useless(t[j])
        <5>1. k + j \in i+1..Len(s)
          BY <1>a, <2>2
        <5> QED BY <1>1, <1>2, <5>1
      <4> QED BY <4>1, <4>2
    <3> QED BY <1>1, <3>1 DEF Recoverable
  <2> QED BY <1>1, <2>1, <2>2
<1>3. ASSUME Len(s) >= Keep, \A j \in Len(s)-Keep+1..Len(s) : Useless(s[j])
      PROVE  Recoverable(t, w)
  <2>1. Len(t) = Keep /\ \A j \in 1..Keep : Useless(t[j])
    <3>1. Len(t) = Keep
      BY <1>a, <1>3
    <3>2. ASSUME NEW j \in 1..Keep PROVE Useless(t[j])
      <4>1. k + j \in Len(s)-Keep+1..Len(s)
        BY <1>a, <3>1
      <4> QED BY <1>1, <1>3, <3>1, <4>1
    <3> QED BY <3>1, <3>2
  <2> QED BY <1>1, <2>1 DEF Recoverable
<1> QED BY <1>2, <1>3 DEF Recoverable, t

\* and a complete copy of a wanted document is enough.
LEMMA RecoverableFresh ==
  ASSUME NEW s \in Seq(Backup), NEW w, Len(s) > 0, ~Useless(s[Len(s)]),
         s[Len(s)].content.doc \in w
  PROVE  Recoverable(s, w)
BY DEF Recoverable

\* What is wanted only grows while a write is in progress.
LEMMA RecoverableMore ==
  ASSUME NEW s, NEW w, NEW x, w \subseteq x, Recoverable(s, w)
  PROVE  Recoverable(s, x)
BY DEF Recoverable

\* What the file holds is torn, or a document that is wanted.
LEMMA FileWanted ==
  ASSUME ConfigInv
  PROVE  /\ file \in Content /\ (file.torn <=> file = Torn)
         /\ ~file.torn => file = Intact(file.doc) /\ file.doc \in wanted
BY DEF ConfigInv, ConfigTypes, FileSound, Content, Torn, Intact

\* The holder of mutationMu is alone.
LEMMA Alone ==
  ASSUME ConfigInv, NEW a \in Admins, pc[a] # "idle", NEW b \in Admins \ {a}
  PROVE  pc[b] = "idle"
BY DEF ConfigInv, OneAtWork

\* Steps that make no backup, tear nothing and forget nothing that is wanted.
LEMMA RecoverQuiet ==
  ASSUME BackupsRecover, UNCHANGED backups, wanted \subseteq wanted', file'.torn => file.torn,
         \A a \in Admins : /\ pc'[a] = "copy" => pc[a] = "copy"
                           /\ pc'[a] \in {"rename", "truncate"} => pc[a] \in {"rename", "truncate"}
  PROVE  BackupsRecover'
<1>1. Recoverable(backups, wanted) => Recoverable(backups, wanted')
  BY RecoverableMore
<1> QED BY <1>1 DEF BackupsRecover

\* Between the name of a backup and its content, the older backups serve: the new
\* one is useless and counts among those the premise allows.
LEMMA RecoverCreate ==
  ASSUME ConfigInv, BackupsRecover, NEW a \in Admins, CreateBackup(a)
  PROVE  BackupsRecover'
<1> DEFINE b == [content |-> file, full |-> FALSE, durable |-> FALSE]
           n == Len(backups)
<1>1. /\ backups \in Seq(Backup) /\ backups' = Append(backups, b) /\ b \in Backup /\ Useless(b)
      /\ UNCHANGED <<file, wanted>> /\ pc' = [pc EXCEPT ![a] = "copy"]
      /\ pc \in [Admins -> {"idle", "backup", "copy", "rename", "syncDirectory", "truncate",
                            "rewrite", "syncFile", "apply", "reconcile"}]
      /\ \A c \in Admins \ {a} : pc[c] = "idle"
  <2>1. pc[a] = "backup"
    BY DEF CreateBackup
  <2> QED BY <2>1, FileWanted, Alone DEF CreateBackup, Goto, BackupsRecover, Backup, Useless,
             ConfigInv, ConfigTypes
<1>2. /\ backups' \in Seq(Backup) /\ Len(backups') = n + 1 /\ n \in Nat /\ backups'[n + 1] = b
      /\ \A i \in 1..n : backups'[i] = backups[i]
  BY <1>1
<1>3. ASSUME NEW i \in 1..Len(backups')
      PROVE  backups'[i].content.torn \/ Loads(backups'[i].content)
  <2>1. CASE i = n + 1
    BY <1>2, <2>1 DEF CreateBackup
  <2>2. CASE i # n + 1
    <3>1. i \in 1..n
      BY <1>2, <2>2
    <3> QED BY <1>2, <3>1 DEF BackupsRecover
  <2> QED BY <2>1, <2>2
<1>4. file.torn => Recoverable(backups', wanted')
  BY <1>1, RecoverableAppend DEF BackupsRecover
<1>5. ~file.torn => file.doc \in wanted
  BY FileWanted
<1>6. \A c \in Admins : pc'[c] \in {"idle", "copy"}
  BY <1>1
<1>7. backups'[Len(backups')].content = file /\ Len(backups') > 0
  BY <1>2
<1> HIDE DEF b, n
<1>8. IF backups'[Len(backups')].content.torn THEN Recoverable(backups', wanted')
      ELSE backups'[Len(backups')].content.doc \in wanted'
  BY <1>1, <1>4, <1>5, <1>7
<1>9. (file'.torn \/ \E c \in Admins : pc'[c] \in {"rename", "truncate"}) => Recoverable(backups', wanted')
  BY <1>1, <1>4, <1>6
<1> QED BY <1>2, <1>3, <1>7, <1>8, <1>9 DEF BackupsRecover

\* The copy is of a whole file or of a torn one; what pruning removes is too old to
\* be the one that serves.
LEMMA RecoverFill ==
  ASSUME ConfigInv, BackupsRecover, NEW a \in Admins, FillBackup(a)
  PROVE  BackupsRecover'
<1> DEFINE n == Len(backups)
           filled == [backups EXCEPT ![n].full = TRUE]
<1>1. /\ backups \in Seq(Backup) /\ n \in Nat \ {0} /\ backups' = Pruned(filled)
      /\ UNCHANGED <<file, wanted>> /\ pc' = [pc EXCEPT ![a] = "rename"]
      /\ \A c \in Admins \ {a} : pc[c] = "idle"
      /\ pc \in [Admins -> {"idle", "backup", "copy", "rename", "syncDirectory", "truncate",
                            "rewrite", "syncFile", "apply", "reconcile"}]
  <2>1. pc[a] = "copy"
    BY DEF FillBackup
  <2> QED BY <2>1, Alone DEF FillBackup, Goto, BackupsRecover, ConfigInv, ConfigTypes
<1>2. /\ filled \in Seq(Backup) /\ Len(filled) = n /\ filled[n].content = backups[n].content
      /\ filled[n].full /\ \A i \in 1..n : filled[i].content = backups[i].content
  <2> DEFINE e == [backups[n] EXCEPT !.full = TRUE]
  <2>1. n \in 1..Len(backups) /\ backups[n] \in Backup
    BY <1>1
  <2>2. e \in Backup /\ e.full /\ e.content = backups[n].content
    BY <2>1 DEF Backup
  <2>3. filled = [backups EXCEPT ![n] = e]
    OBVIOUS
  <2> HIDE DEF e, filled
  <2>4. /\ filled \in Seq(Backup) /\ Len(filled) = n
        /\ \A i \in 1..n : filled[i] = IF i = n THEN e ELSE backups[i]
    BY <1>1, <2>1, <2>2, <2>3, ExceptSeq
  <2> QED BY <2>1, <2>2, <2>4
<1> HIDE DEF filled
<1>3. /\ Pruned(filled) \in Seq(Backup) /\ Len(Pruned(filled)) \in Nat
      /\ Len(Pruned(filled)) <= n
      /\ \A i \in 1..Len(Pruned(filled)) : Pruned(filled)[i] = filled[n - Len(Pruned(filled)) + i]
  BY <1>2, PrunedProperties
<1>4. ASSUME NEW i \in 1..Len(backups')
      PROVE  backups'[i].content.torn \/ Loads(backups'[i].content)
  <2>1. n - Len(Pruned(filled)) + i \in 1..n
    BY <1>1, <1>3
  <2> QED BY <1>1, <1>2, <1>3, <2>1 DEF BackupsRecover
<1>5. Recoverable(filled, wanted)
  <2>1. CASE backups[n].content.torn
    <3>1. Recoverable(backups, wanted)
      BY <2>1 DEF BackupsRecover, FillBackup
    <3> QED BY <1>1, <2>1, <3>1, RecoverableFilled DEF filled
  <2>2. CASE ~backups[n].content.torn
    <3>1. backups[n].content.doc \in wanted
      BY <2>2 DEF BackupsRecover, FillBackup
    <3> QED BY <1>1, <1>2, <2>2, <3>1, RecoverableFresh DEF Useless
  <2> QED BY <2>1, <2>2
<1>6. Recoverable(backups', wanted')
  BY <1>1, <1>2, <1>5, RecoverablePruned
<1> QED BY <1>1, <1>3, <1>4, <1>6 DEF BackupsRecover

\* The answer to a write makes only its own document wanted, but then the file
\* is not torn and nobody else writes; so it is with a repair.
LEMMA RecoverAnswer ==
  ASSUME ConfigInv, BackupsRecover, NEW a \in Admins, Answer(a)
  PROVE  BackupsRecover'
<1>1. /\ pc[a] = "reconcile" /\ pc' = [pc EXCEPT ![a] = "idle"] /\ UNCHANGED <<backups, file>>
      /\ wanted' = IF req[a].op = "reload" THEN wanted ELSE {req[a].doc} \cup racing
  BY DEF Answer, Release, Goto
<1>2. \A c \in Admins : pc'[c] = "idle"
  BY <1>1, Alone DEF ConfigInv, ConfigTypes
<1>3. CASE req[a].op = "reload"
  BY <1>1, <1>2, <1>3 DEF BackupsRecover
<1>4. CASE req[a].op # "reload"
  <2>1. req[a].op = "write"
    BY <1>1, <1>4 DEF ConfigInv, ConfigTypes, RequestSound, Request
  <2>2. file # Torn
    BY <1>1, <2>1 DEF ConfigInv, ConfigTypes, WriteReached
  <2>3. ~file.torn
    BY <2>2, FileWanted
  <2> QED BY <1>1, <1>2, <2>3 DEF BackupsRecover
<1> QED BY <1>3, <1>4

\* A directory fsync makes every backup durable and leaves what they hold.
LEMMA RecoverSync ==
  ASSUME ConfigInv, BackupsRecover, NEW a \in Admins, SyncDirectory(a)
  PROVE  BackupsRecover'
<1> DEFINE n == Len(backups)
<1>1. /\ pc[a] = "syncDirectory" /\ pc' = [pc EXCEPT ![a] = "apply"] /\ file' = file
      /\ backups' = [i \in DOMAIN backups |-> [backups[i] EXCEPT !.durable = TRUE]]
  BY DEF SyncDirectory, Goto
<1>2. \A c \in Admins : pc'[c] \in {"idle", "apply"}
  BY <1>1, Alone DEF ConfigInv, ConfigTypes
<1>3. ~file.torn
  BY <1>1, FileWanted DEF ConfigInv, WriteReached
<1>4. backups \in Seq(Backup) /\ n \in Nat /\ DOMAIN backups = 1..n
  BY DEF BackupsRecover
<1>5. /\ backups' \in Seq(Backup) /\ Len(backups') = n
      /\ \A i \in 1..n : backups'[i].content = backups[i].content
  <2>1. ASSUME NEW i \in 1..n
        PROVE  backups'[i] \in Backup /\ backups'[i].content = backups[i].content
    <3>1. backups[i] \in Backup /\ backups'[i] = [backups[i] EXCEPT !.durable = TRUE]
      BY <1>1, <1>4
    <3> QED BY <3>1 DEF Backup
  <2>2. backups' \in [1..n -> Backup]
    BY <1>1, <1>4, <2>1
  <2> QED BY <1>4, <2>1, <2>2
<1> QED BY <1>1, <1>2, <1>3, <1>4, <1>5 DEF BackupsRecover

\* As long as power does not fail, every step leaves what an operator needs.
LEMMA RecoverStep ==
    ConfigInv /\ (~powerFailed => BackupsRecover) /\ [Next]_vars => (~powerFailed => BackupsRecover)'
<1> SUFFICES ASSUME ConfigInv, ~powerFailed => BackupsRecover, [Next]_vars, ~powerFailed'
             PROVE  BackupsRecover'
  OBVIOUS
<1>0. ~powerFailed /\ BackupsRecover /\ ~PowerFailure
  <2>1. UNCHANGED powerFailed \/ PowerFailure
    <3>1. ASSUME NEW a \in Admins, Ask(a) PROVE UNCHANGED powerFailed
      BY <3>1 DEF Ask, Replace, Create, Update, Delete, BeginWrite, BeginReload
    <3>2. ASSUME NEW a \in Admins, Write(a) PROVE UNCHANGED powerFailed
      BY <3>2 DEF Write, BackupRefused, CreateBackup, FillBackup, Rename, SyncDirectory, Truncate,
                  Rewrite, SyncFile, WriteFails
    <3>3. ASSUME NEW a \in Admins, Apply(a) \/ Answer(a) PROVE UNCHANGED powerFailed
      BY <3>3 DEF Apply, Answer
    <3>4. CASE CheckCertificates \/ (\E doc \in Documents : Edit(doc)) \/ Kill \/ Start \/ Repair
               \/ UNCHANGED vars
      BY <3>4 DEF CheckCertificates, Edit, Kill, Start, Repair, vars
    <3> QED BY <3>1, <3>2, <3>3, <3>4 DEF Next
  <2>2. ~PowerFailure
    BY DEF PowerFailure
  <2> QED BY <2>1, <2>2
<1>1. pc \in [Admins -> {"idle", "backup", "copy", "rename", "syncDirectory", "truncate",
                         "rewrite", "syncFile", "apply", "reconcile"}]
  BY DEF ConfigInv, ConfigTypes
<1>2. ASSUME NEW a \in Admins, Ask(a) PROVE BackupsRecover'
  <2>1. /\ UNCHANGED <<backups, file>> /\ wanted \subseteq wanted'
        /\ \E l \in {"backup", "apply"} : pc' = [pc EXCEPT ![a] = l]
    BY <1>2 DEF Ask, Replace, Create, Update, Delete, BeginWrite, BeginReload, Goto
  <2> QED BY <1>0, <1>1, <2>1, RecoverQuiet
<1>3. ASSUME NEW a \in Admins,
             BackupRefused(a) \/ Rename(a) \/ Rewrite(a) \/ SyncFile(a) \/ WriteFails(a) \/ Apply(a)
      PROVE  BackupsRecover'
  <2>1. UNCHANGED <<backups, wanted>> /\ (file' = file \/ file' = Intact(req[a].doc))
    BY <1>3 DEF BackupRefused, Rename, Rewrite, SyncFile, WriteFails, Apply
  <2>2. file'.torn => file.torn
    BY <2>1 DEF Intact
  <2>3. \A b \in Admins :
          /\ pc'[b] = "copy" => pc[b] = "copy"
          /\ pc'[b] \in {"rename", "truncate"} => pc[b] \in {"rename", "truncate"}
    BY <1>1, <1>3 DEF BackupRefused, Rename, Rewrite, SyncFile, WriteFails, Apply, Release, Goto
  <2> QED BY <1>0, <2>1, <2>2, <2>3, RecoverQuiet
<1>4. ASSUME NEW a \in Admins, Truncate(a) PROVE BackupsRecover'
  <2>1. UNCHANGED <<backups, wanted>> /\ pc[a] = "truncate" /\ pc' = [pc EXCEPT ![a] = "rewrite"]
    BY <1>4 DEF Truncate, Goto
  <2> QED BY <1>0, <1>1, <2>1 DEF BackupsRecover
<1>5. ASSUME NEW doc \in Documents, Edit(doc) PROVE BackupsRecover'
  <2>1. UNCHANGED <<backups, pc>> /\ wanted \subseteq wanted' /\ ~file'.torn
    BY <1>5 DEF Edit, Intact
  <2> QED BY <1>0, <2>1, RecoverQuiet
<1>6. CASE CheckCertificates \/ Start \/ UNCHANGED vars
  BY <1>0, <1>6, RecoverQuiet DEF CheckCertificates, Start, vars
<1>7. CASE Kill
  <2>1. UNCHANGED <<backups, wanted, file>> /\ \A a \in Admins : pc'[a] = "idle"
    BY <1>7 DEF Kill, ForgetMemory
  <2> QED BY <1>0, <2>1, RecoverQuiet
<1>8. CASE Repair
  <2>1. UNCHANGED <<backups, pc>> /\ ~file'.torn /\ \A a \in Admins : pc[a] = "idle"
    BY <1>8 DEF Repair, ConfigInv, OneAtWork, Intact
  <2> QED BY <1>0, <2>1 DEF BackupsRecover
<1> QED BY <1>0, <1>2, <1>3, <1>4, <1>5, <1>6, <1>7, <1>8, RecoverCreate, RecoverFill,
           RecoverAnswer, RecoverSync DEF Next, Write

\* With fewer useless backups than are kept, a recoverable sequence has a
\* backup to restore, and it is of a wanted document.
LEMMA RestorableWanted ==
  ASSUME backups \in Seq(Backup), Recoverable(backups, wanted),
         \A i \in 1..Len(backups) : backups[i].content.torn \/ Loads(backups[i].content),
         Cardinality({i \in DOMAIN backups : Useless(backups[i])}) < Keep
  PROVE  Restorable # 0 /\ backups[Restorable].content.doc \in wanted
<1> DEFINE n == Len(backups)
           torn == {i \in DOMAIN backups : Useless(backups[i])}
           loads == {i \in DOMAIN backups : backups[i].full /\ Loads(backups[i].content)}
<1>0. n \in Nat /\ DOMAIN backups = 1..n /\ Keep \in Nat \ {0}
  BY DEF ConfigAssumption
<1>1. ~(n >= Keep /\ \A j \in n-Keep+1..n : Useless(backups[j]))
  <2> SUFFICES ASSUME n >= Keep, \A j \in n-Keep+1..n : Useless(backups[j]) PROVE FALSE
    OBVIOUS
  <2>1. (n-Keep+1..n) \in SUBSET torn /\ torn \in SUBSET (1..n)
    BY <1>0
  <2>2. IsFiniteSet(1..n)
    BY <1>0, FS_Interval
  <2>3. IsFiniteSet(torn)
    BY <2>1, <2>2, FS_Subset
  <2>4. Cardinality(n-Keep+1..n) <= Cardinality(torn)
    BY <2>1, <2>3, FS_Subset
  <2>5. n-Keep+1 \in Int /\ n \in Int
    BY <1>0
  <2>6. Cardinality(n-Keep+1..n) = IF n-Keep+1 > n THEN 0 ELSE n - (n-Keep+1) + 1
    BY <2>5, FS_Interval
  <2>7. Cardinality(torn) \in Nat
    BY <2>3, FS_CardinalityType
  <2> HIDE DEF torn, n
  <2>8. Cardinality(n-Keep+1..n) = Keep
    BY <1>0, <2>6
  <2> QED BY <1>0, <2>4, <2>7, <2>8 DEF torn
<1>2. PICK i \in 1..n : /\ ~Useless(backups[i]) /\ backups[i].content.doc \in wanted
                        /\ \A j \in i+1..n : Useless(backups[j])
  BY <1>1 DEF Recoverable
<1>3. i \in loads /\ \A j \in loads : j <= i
  <2>1. i \in loads
    BY <1>0, <1>2 DEF Useless
  <2>2. ASSUME NEW j \in loads, j > i PROVE FALSE
    <3>1. j \in i+1..n /\ backups[j].full /\ Loads(backups[j].content)
      BY <1>0, <2>2
    <3> QED BY <1>2, <3>1 DEF Useless, Loads
  <2> QED BY <1>0, <2>1, <2>2
<1>4. Restorable = i
  <2>1. Restorable = CHOOSE k \in loads : \A j \in loads : j <= k
    BY <1>3 DEF Restorable
  <2>2. \A k \in loads : (\A j \in loads : j <= k) => k = i
    BY <1>0, <1>3
  <2> HIDE DEF loads
  <2> QED BY <1>3, <2>1, <2>2
<1> QED BY <1>0, <1>2, <1>4

\* A mounted file left torn can be put right from the newest backup that loads.
THEOREM ConfigTornRecoverable == Spec => []TornIsRecoverable
<1>1. Init => (~powerFailed => BackupsRecover)
  BY DEF Init, BackupsRecover, Intact
<1>2. ConfigInv /\ (~powerFailed => BackupsRecover) => TornIsRecoverable
  <2> SUFFICES ASSUME ConfigInv, BackupsRecover, file.torn,
                      Cardinality({i \in DOMAIN backups : ~backups[i].full \/ backups[i].content.torn}) < Keep
               PROVE  Restorable # 0 /\ backups[Restorable].content.doc \in wanted
    BY DEF TornIsRecoverable
  <2>1. Cardinality({i \in DOMAIN backups : Useless(backups[i])}) < Keep
    BY DEF Useless
  <2> QED BY <2>1, RestorableWanted DEF BackupsRecover
<1> QED BY InitStep, ConfigStep, RecoverStep, <1>1, <1>2, PTL DEF Spec

\* The backups are a sequence, of whatever a power failure has left of them.
BackupsListed == \E S : backups \in Seq(S)

\* Every step makes a sequence of them again.
LEMMA ListedStep == BackupsListed /\ [Next]_vars => BackupsListed'
<1> SUFFICES ASSUME NEW S, backups \in Seq(S), [Next]_vars PROVE BackupsListed'
  BY DEF BackupsListed
<1> DEFINE n == Len(backups)
<1>0. n \in Nat /\ DOMAIN backups = 1..n
  OBVIOUS
<1>1. ASSUME NEW a \in Admins, CreateBackup(a) PROVE BackupsListed'
  <2> DEFINE b == [content |-> file, full |-> FALSE, durable |-> FALSE]
  <2>1. backups' = Append(backups, b) /\ backups \in Seq(S \cup {b})
    BY <1>1 DEF CreateBackup
  <2> HIDE DEF b
  <2>2. backups' \in Seq(S \cup {b})
    BY <2>1
  <2> QED BY <2>2 DEF BackupsListed
<1>2. ASSUME NEW a \in Admins, FillBackup(a) PROVE BackupsListed'
  <2> DEFINE e == [backups[n] EXCEPT !.full = TRUE]
             filled == [backups EXCEPT ![n] = e]
  <2>1. backups' = Pruned(filled)
    BY <1>2 DEF FillBackup
  <2> HIDE DEF e
  <2>2. filled \in Seq(S \cup {e})
    <3>1. backups \in [1..n -> S] /\ filled = [backups EXCEPT ![n] = e]
      BY <1>0
    <3>2. filled \in [1..n -> S \cup {e}]
      BY <3>1
    <3> QED BY <1>0, <3>2
  <2> HIDE DEF filled
  <2>3. Pruned(filled) \in Seq(S \cup {e})
    BY <2>2, PrunedProperties
  <2> QED BY <2>1, <2>3 DEF BackupsListed
<1>3. ASSUME NEW a \in Admins, SyncDirectory(a) PROVE BackupsListed'
  <2> DEFINE T == {[backups[i] EXCEPT !.durable = TRUE] : i \in 1..n}
  <2>1. backups' = [i \in 1..n |-> [backups[i] EXCEPT !.durable = TRUE]]
    BY <1>0, <1>3 DEF SyncDirectory
  <2>2. backups' \in Seq(T)
    <3>1. ASSUME NEW i \in 1..n PROVE backups'[i] \in T
      BY <2>1
    <3> HIDE DEF T, n
    <3>2. backups' \in [1..n -> T]
      BY <2>1, <3>1
    <3> QED BY <1>0, <3>2
  <2> QED BY <2>2 DEF BackupsListed
<1>4. CASE PowerFailure
  <2>1. PICK lost \in SUBSET {i \in DOMAIN backups : ~backups[i].durable} :
               backups' = Keeping(DOMAIN backups \ lost)
    BY <1>4 DEF PowerFailure
  <2> DEFINE kept == DOMAIN backups \ lost
             m == Cardinality(kept)
             nth(i) == CHOOSE k \in kept : Cardinality({j \in kept : j < k}) = i - 1
             T == {[backups[nth(i)] EXCEPT !.durable = TRUE] : i \in 1..m}
  <2>2. m \in Nat
    <3>1. IsFiniteSet(1..n) /\ kept \in SUBSET (1..n)
      BY <1>0, FS_Interval
    <3> QED BY <3>1, FS_Subset, FS_CardinalityType
  <2>3. backups' = [i \in 1..m |-> [backups[nth(i)] EXCEPT !.durable = TRUE]]
    BY <2>1 DEF Keeping
  <2> HIDE DEF m, nth
  <2>4. backups' \in Seq(T)
    <3>1. ASSUME NEW i \in 1..m PROVE backups'[i] \in T
      BY <2>3
    <3> HIDE DEF T
    <3>2. backups' \in [1..m -> T]
      BY <2>3, <3>1
    <3> QED BY <2>2, <3>2
  <2> QED BY <2>4 DEF BackupsListed
<1>5. CASE UNCHANGED backups
  BY <1>5 DEF BackupsListed
<1>6. ASSUME NEW a \in Admins,
             Ask(a) \/ Write(a) \/ Apply(a) \/ Answer(a)
      PROVE  UNCHANGED backups \/ CreateBackup(a) \/ FillBackup(a) \/ SyncDirectory(a)
  BY <1>6 DEF Ask, Replace, Create, Update, Delete, BeginWrite, BeginReload, Write,
         BackupRefused, Rename, Truncate, Rewrite, SyncFile, WriteFails, Apply, Answer
<1>7. CheckCertificates \/ (\E doc \in Documents : Edit(doc)) \/ Kill \/ Start \/ Repair
          \/ UNCHANGED vars => UNCHANGED backups
  BY DEF CheckCertificates, Edit, Kill, Start, Repair, vars
<1> QED BY <1>1, <1>2, <1>3, <1>4, <1>5, <1>6, <1>7 DEF Next

\* What is about to be overwritten stays backed up through every step.
LEMMA OverwriteStep ==
    ConfigInv /\ BackupsListed /\ OverwriteBacked /\ [Next]_vars => OverwriteBacked'
<1> SUFFICES ASSUME ConfigInv, BackupsListed, OverwriteBacked, [Next]_vars PROVE OverwriteBacked'
  OBVIOUS
<1>0. PICK S : backups \in Seq(S)
  BY DEF BackupsListed
<1> DEFINE n == Len(backups)
<1>1. /\ pc \in [Admins -> {"idle", "backup", "copy", "rename", "syncDirectory", "truncate",
                            "rewrite", "syncFile", "apply", "reconcile"}]
      /\ n \in Nat /\ DOMAIN backups = 1..n
  BY <1>0 DEF ConfigInv, ConfigTypes
<1>2. ASSUME NEW a \in Admins, CreateBackup(a) PROVE OverwriteBacked'
  <2> DEFINE b == [content |-> file, full |-> FALSE, durable |-> FALSE]
  <2>1. /\ backups' = Append(backups, b) /\ UNCHANGED file /\ pc[a] = "backup"
        /\ pc' = [pc EXCEPT ![a] = "copy"]
    BY <1>2 DEF CreateBackup, Goto
  <2>2. Len(backups') = n + 1 /\ backups'[n + 1] = b
    BY <1>0, <2>1
  <2>3. \A c \in Admins : pc'[c] \in {"idle", "copy"}
    BY <1>1, <2>1, Alone
  <2>4. b \in Backup /\ b.content = file
    BY FileWanted DEF Backup
  <2> HIDE DEF b, n
  <2>5. Len(backups') > 0 /\ backups'[Len(backups')] = b
    BY <1>1, <2>2 DEF n
  <2> QED BY <2>1, <2>3, <2>4, <2>5 DEF OverwriteBacked
<1>3. ASSUME NEW a \in Admins, FillBackup(a) PROVE OverwriteBacked'
  <2> DEFINE e == [backups[n] EXCEPT !.full = TRUE]
             filled == [backups EXCEPT ![n] = e]
             m == Len(Pruned(filled))
  <2>1. /\ backups' = Pruned(filled) /\ UNCHANGED <<file, racing>> /\ pc[a] = "copy"
        /\ pc' = [pc EXCEPT ![a] = "rename"]
    BY <1>3 DEF FillBackup, Goto
  <2>2. \A c \in Admins : pc'[c] \in {"idle", "rename"}
    BY <1>1, <2>1, Alone
  <2>3. SUFFICES ASSUME ~file.torn, file.doc \notin racing
                 PROVE  \E i \in DOMAIN backups' : backups'[i].full /\ backups'[i].content = file
    BY <2>1, <2>2 DEF OverwriteBacked
  <2>4. n > 0 /\ backups[n].content = file /\ backups[n] \in Backup
    BY <2>1, <2>3 DEF OverwriteBacked
  <2>5. e.full /\ e.content = file
    BY <2>4 DEF Backup
  <2> HIDE DEF e
  <2>6. filled \in Seq(S \cup {e}) /\ Len(filled) = n /\ filled[n] = e
    BY <1>0, <1>1, <2>4
  <2> HIDE DEF filled, n
  <2>7. /\ Pruned(filled) \in Seq(S \cup {e}) /\ m \in Nat
        /\ m = IF n <= Keep THEN n ELSE Keep
        /\ \A i \in 1..m : Pruned(filled)[i] = filled[n - m + i]
    <3>1. filled \in Seq(S \cup {e})
      BY <2>6
    <3>2. /\ Pruned(filled) \in Seq(S \cup {e})
          /\ m = IF Len(filled) <= Keep THEN Len(filled) ELSE Keep
          /\ \A i \in 1..m : Pruned(filled)[i] = filled[Len(filled) - m + i]
      BY <3>1, PrunedProperties
    <3> QED BY <1>1, <2>6, <3>2 DEF ConfigAssumption
  <2>8. m \in 1..m /\ n - m + m = n
    BY <1>1, <2>4, <2>7 DEF ConfigAssumption
  <2> HIDE DEF m
  <2>9. backups'[m] = e
    BY <2>1, <2>6, <2>7, <2>8
  <2>10. m \in DOMAIN backups'
    BY <2>1, <2>7, <2>8 DEF m
  <2> QED BY <2>5, <2>9, <2>10
<1>4. ASSUME NEW a \in Admins, Rename(a) PROVE OverwriteBacked'
  <2>1. /\ UNCHANGED <<backups, racing>> /\ pc[a] = "rename"
        /\ \/ UNCHANGED file /\ pc' = [pc EXCEPT ![a] = "truncate"]
           \/ pc' = [pc EXCEPT ![a] = "syncDirectory"]
    BY <1>4 DEF Rename, Goto
  <2>2. \A c \in Admins \ {a} : pc'[c] = "idle"
    BY <1>1, <2>1, Alone
  <2> QED BY <1>1, <2>1, <2>2 DEF OverwriteBacked
<1>5. ASSUME NEW a \in Admins,
             \/ BackupRefused(a) \/ SyncDirectory(a) \/ Truncate(a) \/ Rewrite(a) \/ SyncFile(a)
             \/ WriteFails(a) \/ Apply(a) \/ Answer(a)
      PROVE  OverwriteBacked'
  <2>1. /\ pc[a] # "idle"
        /\ \/ file'.torn /\ pc' = [pc EXCEPT ![a] = "rewrite"]
           \/ \E l \in {"idle", "apply", "syncFile", "reconcile"} : pc' = [pc EXCEPT ![a] = l]
    BY <1>5 DEF BackupRefused, SyncDirectory, Truncate, Rewrite, SyncFile, WriteFails, Apply,
                Answer, Release, Goto, Torn
  <2>2. \A c \in Admins \ {a} : pc'[c] = "idle"
    BY <1>1, <2>1, Alone
  <2> QED BY <1>1, <2>1, <2>2 DEF OverwriteBacked
<1>6. ASSUME NEW a \in Admins, Ask(a) PROVE OverwriteBacked'
  <2>1. /\ UNCHANGED <<backups, file>> /\ mutationMu = None
        /\ \E l \in {"backup", "apply"} : pc' = [pc EXCEPT ![a] = l]
    BY <1>6 DEF Ask, Replace, Create, Update, Delete, BeginWrite, BeginReload, Goto, Lock
  <2>2. \A c \in Admins : pc[c] = "idle"
    BY <2>1 DEF ConfigInv, OneAtWork, ConfigAssumption
  <2> QED BY <1>1, <2>1, <2>2 DEF OverwriteBacked
<1>7. ASSUME NEW doc \in Documents, Edit(doc) PROVE OverwriteBacked'
  <2>1. /\ UNCHANGED <<backups, pc>> /\ file' = Intact(doc) /\ \A a \in Admins : pc[a] # "rewrite"
        /\ racing' = IF mutationMu = None THEN {} ELSE racing \cup {doc}
    BY <1>7 DEF Edit
  <2>2. ASSUME NEW a \in Admins, pc[a] # "idle" PROVE file'.doc \in racing'
    BY <2>1, <2>2 DEF ConfigInv, OneAtWork, ConfigAssumption, Intact
  <2> QED BY <2>1, <2>2 DEF OverwriteBacked
<1>8. CASE Kill \/ PowerFailure
  BY <1>8 DEF Kill, PowerFailure, ForgetMemory, OverwriteBacked
<1>9. CASE Repair
  <2>1. \A a \in Admins : pc'[a] = "idle"
    BY <1>9 DEF Repair, ConfigInv, OneAtWork
  <2> QED BY <2>1 DEF OverwriteBacked
<1>10. CASE CheckCertificates \/ Start \/ UNCHANGED vars
  BY <1>10 DEF CheckCertificates, Start, vars, OverwriteBacked
<1> QED BY <1>2, <1>3, <1>4, <1>5, <1>6, <1>7, <1>8, <1>9, <1>10 DEF Next, Write

\* The server overwrites no document of which it keeps no backup, except an
\* edit made during its own write.
THEOREM ConfigOverwriteKept == Spec => OverwrittenIsKept
<1> DEFINE Keeps ==
        (up' /\ pc' # pc /\ file' # file /\ ~file.torn /\ file.doc \notin racing) =>
            \E i \in DOMAIN backups : backups[i].full /\ backups[i].content = file
<1>1. Init => BackupsListed /\ OverwriteBacked
  <2> SUFFICES ASSUME Init PROVE BackupsListed /\ OverwriteBacked
    OBVIOUS
  <2>1. backups \in Seq(Backup) /\ \A a \in Admins : pc[a] = "idle"
    BY DEF Init
  <2> QED BY <2>1 DEF BackupsListed, OverwriteBacked
<1>2. ConfigInv /\ OverwriteBacked /\ [Next]_vars => [Keeps]_vars
  <2> SUFFICES ASSUME ConfigInv, OverwriteBacked, Next,
                      up', pc' # pc, file' # file, ~file.torn, file.doc \notin racing
               PROVE  \E i \in DOMAIN backups : backups[i].full /\ backups[i].content = file
    OBVIOUS
  <2>1. ASSUME NEW a \in Admins, Ask(a) \/ Write(a) \/ Apply(a) \/ Answer(a)
        PROVE  UNCHANGED file \/ Rename(a) \/ Truncate(a) \/ Rewrite(a)
    BY <2>1 DEF Ask, Replace, Create, Update, Delete, BeginWrite, BeginReload, Write,
         BackupRefused, CreateBackup, FillBackup, SyncDirectory, SyncFile, WriteFails, Apply, Answer
  <2>2. CheckCertificates \/ (\E doc \in Documents : Edit(doc)) \/ Kill \/ PowerFailure \/ Start
            \/ Repair => UNCHANGED file \/ UNCHANGED pc \/ ~up'
    BY DEF CheckCertificates, Edit, Kill, PowerFailure, ForgetMemory, Start, Repair
  <2>3. PICK a \in Admins : Rename(a) \/ Truncate(a) \/ Rewrite(a)
    BY <2>1, <2>2 DEF Next
  <2>4. pc[a] \in {"rename", "truncate", "rewrite"}
    BY <2>3 DEF Rename, Truncate, Rewrite
  <2> QED BY <2>4 DEF OverwriteBacked
<1>3. Spec => [][Keeps]_vars
  <2> HIDE DEF Keeps
  <2> QED BY InitStep, ConfigStep, ListedStep, OverwriteStep, <1>1, <1>2, PTL DEF Spec
<1> QED BY <1>3 DEF OverwrittenIsKept
=============================================================================
