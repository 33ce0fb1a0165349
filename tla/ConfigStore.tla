---------------------------- MODULE ConfigStore ----------------------------
(***************************************************************************)
(* The configuration document of the server: changed through the admin API *)
(* (ReplaceConfig, MutateConfig), re-read from its file (ReloadConfig, on  *)
(* SIGHUP or through the API), edited by hand, and read when the server    *)
(* starts (src/server/app.go, fileutil.go, http_server.go).                *)
(*                                                                         *)
(* A change is written before it is applied: the file as it is becomes a   *)
(* time-stamped backup, old backups are pruned, and atomicWrite renames a  *)
(* fsynced temporary file over the name and fsyncs the directory.  Where   *)
(* the file is a bind mount of its own the rename fails with EBUSY, and    *)
(* the file is truncated and rewritten in place instead.                   *)
(*                                                                         *)
(* A document is the set of its items (servers, monitors, certificates),   *)
(* all of them valid: one that does not validate is refused before         *)
(* anything is touched.  A file is unreadable when it is torn or larger    *)
(* than maxRuntimeConfigBytes, which limits what is read but not what is   *)
(* written.  An operator never edits while the file is truncated.          *)
(***************************************************************************)
EXTENDS Integers, FiniteSets, Sequences

CONSTANTS
    Items,        \* the items a document may list
    Certs,        \* those that are certificates (certKey)
    Admins,       \* goroutines serving the admin API, and the SIGHUP handler
    None,         \* mutationMu is free
    MaxItems,     \* a document of more items does not fit in what is read back
    Keep,         \* backups kept by pruneBackups
    MaxRunning,   \* bound on the checks of one certificate in flight
    MaxTrouble    \* bound on I/O errors, kills, power failures and edits together

ASSUME ConfigAssumption ==
    /\ Certs \subseteq Items /\ IsFiniteSet(Items)
    /\ None \notin Admins
    /\ Keep \in Nat \ {0}
    /\ {MaxItems, MaxRunning, MaxTrouble} \subseteq Nat

VARIABLES
    up,           \* the process runs
    document,     \* App.document, with the runtime built from it
    mutationMu,   \* holder of App.mutationMu
    pc, req,      \* where each goroutine stands, and what it was asked for
    mounted,      \* the file is a bind mount: renaming over it fails
    file,         \* what the file holds now
    survivors,    \* what it may hold after a power failure
    backups,      \* the backups by name, that is from the oldest to the newest
    certs, running,   \* the certificate checks (CertChecks)
    wanted,       \* history: the last document answered as written, or any
                  \* that was asked for or edited into the file since
    racing,       \* history: documents edited in while mutationMu is held
    powerFailed,  \* history: power has failed
    trouble       \* how many there were, against MaxTrouble

disk    == <<file, survivors, backups>>
checks  == <<certs, running>>
history == <<wanted, racing>>
budget  == <<powerFailed, trouble>>
vars    == <<up, document, mutationMu, pc, req, mounted, disk, checks, history, budget>>

C == INSTANCE CertChecks

Documents == SUBSET Items
Torn      == [torn |-> TRUE]        \* truncated, or written in part
Intact(doc) == [torn |-> FALSE, doc |-> doc]
Content   == {Torn} \cup {Intact(doc) : doc \in Documents}
\* A backup: what it is a copy of, whether the copy is complete, and whether
\* its name is durable.
Backup    == [content : Content, full : BOOLEAN, durable : BOOLEAN]

\* A request in progress: the items it may change and the document it makes.
Request   == [op : {"none", "write", "reload"}, changed : Documents,
              doc : Documents]
NoRequest == [op |-> "none", changed |-> {}, doc |-> {}]

\* secureReadBoundedDocument and normalizeConfig succeed.
Loads(c) == ~c.torn /\ Cardinality(c.doc) <= MaxItems

Strike == trouble < MaxTrouble /\ trouble' = trouble + 1

Goto(a, label) == pc' = [pc EXCEPT ![a] = label]
-----------------------------------------------------------------------------
\* Mutant: mutationMu is not waited for.
LockAnyway(a) == mutationMu' = a

Lock(a) == mutationMu = None /\ mutationMu' = a

\* ReplaceConfig and MutateConfig: under mutationMu the new document is built,
\* for the latter from the one in force, and validated.
BeginWrite(a, changed, doc) ==
    /\ up /\ pc[a] = "idle"
    /\ Lock(a)
    /\ req' = [req EXCEPT ![a] = [op |-> "write", changed |-> changed, doc |-> doc]]
    /\ wanted' = wanted \cup {doc}
    /\ Goto(a, "backup")
    /\ UNCHANGED <<up, document, mounted, disk, checks, racing, budget>>

Replace(a, doc) == BeginWrite(a, Items, doc)

\* An item is created, updated (which may make another of it) or deleted; one
\* that is not there is answered 404, and a second of its name 409.
Create(a, i) == i \notin document /\ BeginWrite(a, {i}, document \cup {i})
Update(a, i, j) ==
    /\ i \in document /\ j \notin document
    /\ BeginWrite(a, {i, j}, (document \ {i}) \cup {j})
Delete(a, i) == i \in document /\ BeginWrite(a, {i}, document \ {i})

\* ReloadConfig reads the file under mutationMu; an unreadable one leaves the
\* configuration in force.
BeginReload(a) ==
    /\ up /\ pc[a] = "idle"
    /\ Loads(file)
    /\ Lock(a)
    /\ req' = [req EXCEPT ![a] = [op |-> "reload", changed |-> Items, doc |-> file.doc]]
    /\ Goto(a, "apply")
    /\ UNCHANGED <<up, document, mounted, disk, checks, history, budget>>

Release(a) ==
    /\ mutationMu' = IF mutationMu = a THEN None ELSE mutationMu
    /\ req' = [req EXCEPT ![a] = NoRequest]
    /\ racing' = {}
    /\ Goto(a, "idle")
-----------------------------------------------------------------------------
(***************************************************************************)
(* writeConfig.                                                            *)
(***************************************************************************)
\* Mutant: the oldest backups are kept.
PrunedOldest(s) == IF Len(s) <= Keep THEN s ELSE SubSeq(s, 1, Keep)

\* pruneBackups: the newest are kept.
Pruned(s) == IF Len(s) <= Keep THEN s ELSE SubSeq(s, Len(s) - Keep + 1, Len(s))

\* The file is too large for copyFile to read: 500, before anything is changed.
BackupRefused(a) ==
    /\ pc[a] = "backup"
    /\ ~file.torn /\ ~Loads(file)
    /\ Release(a)
    /\ UNCHANGED <<up, document, mounted, disk, checks, wanted, budget>>

\* copyFile reads the file, torn or not, and creates the backup.
CreateBackup(a) ==
    /\ pc[a] = "backup"
    /\ file.torn \/ Loads(file)
    /\ backups' = Append(backups, [content |-> file, full |-> FALSE, durable |-> FALSE])
    /\ Goto(a, "copy")
    /\ UNCHANGED <<up, document, mutationMu, req, mounted, file, survivors, checks,
                   history, budget>>

\* Mutant: the configuration in force is backed up instead of the file.
CopyInForce(a) ==
    /\ pc[a] = "copy"
    /\ backups' = Pruned([backups EXCEPT ![Len(backups)].full = TRUE,
                                        ![Len(backups)].content = Intact(document)])
    /\ Goto(a, "rename")
    /\ UNCHANGED <<up, document, mutationMu, req, mounted, file, survivors, checks,
                   history, budget>>

\* The backup is written and fsynced; its name is not, before the directory
\* is.  Then old backups are removed.
FillBackup(a) ==
    /\ pc[a] = "copy"
    /\ backups' = Pruned([backups EXCEPT ![Len(backups)].full = TRUE])
    /\ Goto(a, "rename")
    /\ UNCHANGED <<up, document, mutationMu, req, mounted, file, survivors, checks,
                   history, budget>>

\* The temporary file is renamed over the name; EBUSY on a mount.
Rename(a) ==
    /\ pc[a] = "rename"
    /\ IF mounted
       THEN Goto(a, "truncate") /\ UNCHANGED <<file, survivors>>
       ELSE /\ file' = Intact(req[a].doc)
            /\ survivors' = survivors \cup {file'}
            /\ Goto(a, "syncDirectory")
    /\ UNCHANGED <<up, document, mutationMu, req, mounted, backups, checks, history, budget>>

\* Mutant: the directory is not fsynced.
NoSyncDirectory(a) ==
    /\ pc[a] = "syncDirectory"
    /\ Goto(a, "apply")
    /\ UNCHANGED <<up, document, mutationMu, req, mounted, disk, checks, history, budget>>

\* syncDirectory: the name and the backups' names are durable.
SyncDirectory(a) ==
    /\ pc[a] = "syncDirectory"
    /\ survivors' = {file}
    /\ backups' = [i \in DOMAIN backups |-> [backups[i] EXCEPT !.durable = TRUE]]
    /\ Goto(a, "apply")
    /\ UNCHANGED <<up, document, mutationMu, req, mounted, file, checks, history, budget>>

\* os.OpenFile with O_TRUNC on the mounted inode.
Truncate(a) ==
    /\ pc[a] = "truncate"
    /\ file' = Torn
    /\ survivors' = survivors \cup {Torn}
    /\ Goto(a, "rewrite")
    /\ UNCHANGED <<up, document, mutationMu, req, mounted, backups, checks, history, budget>>

Rewrite(a) ==
    /\ pc[a] = "rewrite"
    /\ file' = Intact(req[a].doc)
    /\ survivors' = survivors \cup {file'}
    /\ Goto(a, "syncFile")
    /\ UNCHANGED <<up, document, mutationMu, req, mounted, backups, checks, history, budget>>

\* file.Sync makes the content durable, not the names in the directory.
SyncFile(a) ==
    /\ pc[a] = "syncFile"
    /\ survivors' = {file}
    /\ Goto(a, "apply")
    /\ UNCHANGED <<up, document, mutationMu, req, mounted, file, backups, checks, history, budget>>

\* Any system call of it fails: 500, and nothing is applied, but the file and
\* a backup half written are left as they are by then.
WriteFails(a) ==
    /\ pc[a] \in {"backup", "copy", "rename", "syncDirectory", "truncate", "rewrite", "syncFile"}
    /\ Strike
    /\ Release(a)
    /\ UNCHANGED <<up, document, mounted, disk, checks, wanted, powerFailed>>
-----------------------------------------------------------------------------
\* applyValidatedConfig: document and runtime are replaced together.
Apply(a) ==
    /\ pc[a] = "apply"
    /\ document' = req[a].doc
    /\ Goto(a, "reconcile")
    /\ UNCHANGED <<up, mutationMu, req, mounted, disk, checks, history, budget>>

\* reconcileCerts, after the configuration's own locks are released; then the
\* request is answered.
Answer(a) ==
    /\ pc[a] = "reconcile"
    /\ C!Reconcile(req[a].doc \cap Certs)
    /\ wanted' = IF req[a].op = "reload" THEN wanted ELSE {req[a].doc} \cup racing
    /\ Release(a)
    /\ UNCHANGED <<up, document, mounted, disk, budget>>

\* sslLoop, once a second, and the goroutines it starts.
CheckCertificates ==
    /\ up
    /\ \/ \E due \in SUBSET Certs : C!StartDue(due)
       \/ \E k \in Certs : C!FinishCheck(k)
    /\ UNCHANGED <<up, document, mutationMu, pc, req, mounted, disk, history, budget>>
-----------------------------------------------------------------------------
\* An operator replaces the file's content by hand.
Edit(doc) ==
    /\ Strike
    /\ \A a \in Admins : pc[a] # "rewrite"
    /\ file' = Intact(doc)
    /\ survivors' = survivors \cup {file'}
    /\ wanted' = wanted \cup {doc}
    /\ racing' = IF mutationMu = None THEN {} ELSE racing \cup {doc}
    /\ UNCHANGED <<up, document, mutationMu, pc, req, mounted, backups, checks,
                   powerFailed>>

ForgetMemory ==
    /\ up' = FALSE
    /\ document' = {}
    /\ mutationMu' = None
    /\ pc' = [a \in Admins |-> "idle"]
    /\ req' = [a \in Admins |-> NoRequest]
    /\ racing' = {}
    /\ certs' = [k \in Certs |-> "absent"]
    /\ running' = [k \in Certs |-> 0]

Kill ==
    /\ up /\ Strike
    /\ ForgetMemory
    /\ UNCHANGED <<mounted, disk, wanted, powerFailed>>

\* The backups at the places of kept, in their order, now durable.
Keeping(kept) ==
    LET nth(i) == CHOOSE k \in kept : Cardinality({j \in kept : j < k}) = i - 1
    IN  [i \in 1..Cardinality(kept) |-> [backups[nth(i)] EXCEPT !.durable = TRUE]]

\* Power fails: the file keeps any of its survivors, and a backup whose name
\* is not durable may be gone.
PowerFailure ==
    /\ up /\ Strike /\ powerFailed' = TRUE
    /\ ForgetMemory
    /\ \E c \in survivors : file' = c /\ survivors' = {c}
    /\ \E lost \in SUBSET {i \in DOMAIN backups : ~backups[i].durable} :
          backups' = Keeping(DOMAIN backups \ lost)
    /\ UNCHANGED <<mounted, wanted>>

\* NewApp: readConfig must succeed.
Start ==
    /\ ~up /\ up' = TRUE
    /\ Loads(file)
    /\ document' = file.doc
    /\ C!Reconcile(file.doc \cap Certs)
    /\ UNCHANGED <<mutationMu, pc, req, mounted, disk, history, budget>>

\* The newest backup that loads, 0 if there is none.
Restorable ==
    LET loads == {i \in DOMAIN backups : backups[i].full /\ Loads(backups[i].content)}
    IN  IF loads = {} THEN 0 ELSE CHOOSE i \in loads : \A j \in loads : j <= i

\* The operator of a server that does not start puts the newest backup that
\* loads in place of the file.
Repair ==
    /\ ~up /\ ~Loads(file)
    /\ Restorable # 0
    /\ \E doc \in Documents :
          /\ backups[Restorable].content = Intact(doc)
          /\ file' = Intact(doc) /\ survivors' = {file'}
          /\ wanted' = {doc}
    /\ UNCHANGED <<up, document, mutationMu, pc, req, mounted, backups, checks, racing, budget>>

\* The server has started on an empty document, which is durable.
Init ==
    /\ up = TRUE
    /\ document = {}
    /\ mutationMu = None
    /\ pc = [a \in Admins |-> "idle"]
    /\ req = [a \in Admins |-> NoRequest]
    /\ mounted \in BOOLEAN
    /\ file = Intact({}) /\ survivors = {Intact({})}
    /\ backups = << >>
    /\ C!CertsInit
    /\ wanted = {{}} /\ racing = {}
    /\ powerFailed = FALSE /\ trouble = 0

Ask(a) ==
    \/ \E doc \in Documents : Replace(a, doc)
    \/ \E i, j \in Items : Create(a, i) \/ Update(a, i, j) \/ Delete(a, i)
    \/ BeginReload(a)

Write(a) ==
    \/ BackupRefused(a) \/ CreateBackup(a) \/ FillBackup(a)
    \/ Rename(a) \/ SyncDirectory(a)
    \/ Truncate(a) \/ Rewrite(a) \/ SyncFile(a)
    \/ WriteFails(a)

Next ==
    \/ \E a \in Admins : Ask(a) \/ Write(a) \/ Apply(a) \/ Answer(a)
    \/ CheckCertificates
    \/ \E doc \in Documents : Edit(doc)
    \/ Kill \/ PowerFailure \/ Start \/ Repair

Spec == Init /\ [][Next]_vars
-----------------------------------------------------------------------------
TypeOK ==
    /\ up \in BOOLEAN /\ mounted \in BOOLEAN
    /\ document \in Documents
    /\ mutationMu \in Admins \cup {None}
    /\ pc \in [Admins -> {"idle", "backup", "copy", "rename", "syncDirectory", "truncate",
                          "rewrite", "syncFile", "apply", "reconcile"}]
    /\ req \in [Admins -> Request]
    /\ file \in Content /\ survivors \subseteq Content
    /\ backups \in Seq(Backup)
    /\ Len(backups) <= Keep + 1 + trouble
    /\ C!CertsTypeOK
    /\ wanted \subseteq Documents /\ racing \subseteq Documents
    /\ powerFailed \in BOOLEAN /\ trouble \in 0..MaxTrouble

\* Neither the configuration in force nor the file, whatever a power failure
\* makes of it, goes back behind the last change that was answered as written:
\* each is that document, or one asked for or edited in since.  Only a mounted
\* file can be torn.
NeverBehindAnswered ==
    /\ up => document \in wanted
    /\ \A c \in survivors : IF c.torn THEN mounted ELSE c.doc \in wanted

\* A mounted file left torn by an error or by a kill of the process can be put
\* right: as long as retries since have not filled the kept backups with torn
\* copies, the newest backup that loads is not behind the last change answered
\* as written.
TornIsRecoverable ==
    LET torn == {i \in DOMAIN backups : ~backups[i].full \/ backups[i].content.torn} IN
    (file.torn /\ Cardinality(torn) < Keep /\ ~powerFailed) =>
        Restorable # 0 /\ backups[Restorable].content.doc \in wanted

\* The server does not overwrite a document, one edited in by hand included,
\* of which it keeps no backup, except an edit made during its own write.
OverwrittenIsKept ==
    [][(up' /\ pc' # pc /\ file' # file /\ ~file.torn /\ file.doc \notin racing) =>
          \E i \in DOMAIN backups : backups[i].full /\ backups[i].content = file]_vars

\* Changes asked for at the same time do not undo each other: when one takes
\* effect, the items it is not about stay as they are.
ChangesAddUp ==
    [][\A a \in Admins :
          (pc[a] = "apply" /\ pc'[a] = "reconcile") =>
              document' \ req[a].changed = document \ req[a].changed]_vars

\* Between two changes, the certificates checked are those of the document in
\* force.
CertsFollowDocument ==
    (up /\ mutationMu = None) => {k \in Certs : certs[k] # "absent"} = document \cap Certs

\* A certificate marked as being checked has a check in flight (CertChecks).
NoCertStuck == C!CheckingMeansRunning

\* "The backup above is already durable" (fileutil.go:106): when the mounted
\* file is about to be truncated, a power failure cannot take its backup.
BackupDurableBeforeTruncate ==
    \A a \in Admins : (pc[a] = "truncate" /\ ~file.torn) =>
        \E i \in DOMAIN backups :
            backups[i].full /\ backups[i].content = file /\ backups[i].durable

\* A document written through the API can be read back, so that the reload and
\* the next start accept it (http_server_test.go:118 reloads after changes).
AnsweredCanBeReloaded ==
    (up /\ mutationMu = None /\ trouble = 0) => Loads(file)
=============================================================================
