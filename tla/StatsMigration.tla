---------------------------- MODULE StatsMigration ----------------------------
(***************************************************************************)
(* The tool that copies a server's stats.json into the data directory of a *)
(* new installation (src/scripts/migrate_stats_data.py), run twice by      *)
(* mistake or again after a failure, while the old server goes on writing  *)
(* the source and a new one may be started on the target.  Files are read  *)
(* in parts through a descriptor (src/clients/secure_file.py).             *)
(***************************************************************************)
EXTENDS Integers, Sequences, FiniteSets

CONSTANTS
    Tools,               \* runs of the tool that may overlap
    MaxSourceChanges     \* bound on the changes of the source

ASSUME MigrationAssumption == MaxSourceChanges \in Nat

VARIABLES
    inodes,      \* every file the source's path has named, the last being named now:
                 \* [head, tail, stamp] with the document each half is of
    changes,     \* changes of the source begun
    migration,   \* tool -> [pc, fd, before, head, tail, print, data]
    directory,   \* the target directory: absent, made by a tool, or there before
    newStats,    \* <<head, tail>> of the target's stats.json, or NoStats
    synced,      \* the newStats's name is on disk
    litter,      \* a temporary file nobody will remove
    reported     \* history: the document a tool said it had copied, or NoStats

migrationVars == <<inodes, changes, migration, directory, newStats, synced, litter, reported>>

NoStats == <<>>
Truncated == 0
ServerDocument == <<-1, -1>>
ToolIdle == [pc |-> "idle", fd |-> 0, before |-> <<>>,
             head |-> Truncated, tail |-> Truncated, print |-> <<>>, data |-> NoStats]

MigrationInit ==
    /\ inodes = <<[head |-> 1, tail |-> 1, stamp |-> 0]>>
    /\ changes = 0
    /\ migration = [t \in Tools |-> ToolIdle]
    /\ directory \in {"absent", "there"}
    /\ newStats = NoStats /\ synced = FALSE /\ litter = FALSE /\ reported = NoStats

-----------------------------------------------------------------------------
(* The old server. *)

Source == inodes[Len(inodes)]
WholeDocument(version, stamp) == [head |-> version, tail |-> version, stamp |-> stamp]

\* By rename: descriptors keep the file they have.
ReplaceSource ==
    /\ changes < MaxSourceChanges
    /\ changes' = changes + 1
    /\ inodes' = Append(inodes, WholeDocument(changes + 2, 0))
    /\ UNCHANGED <<migration, directory, newStats, synced, litter, reported>>

\* In place: truncated, which its size tells, then written again.  Both within the
\* resolution of the file's times leave them equal.
TruncateSource ==
    /\ changes < MaxSourceChanges
    /\ changes' = changes + 1
    /\ inodes' = [inodes EXCEPT ![Len(inodes)] = WholeDocument(Truncated, @.stamp)]
    /\ UNCHANGED <<migration, directory, newStats, synced, litter, reported>>

FillSource ==
    /\ Source.tail = Truncated
    /\ \E later \in {0, 1} :
          inodes' = [inodes EXCEPT ![Len(inodes)] = WholeDocument(changes + 1, @.stamp + later)]
    /\ UNCHANGED <<changes, migration, directory, newStats, synced, litter, reported>>

-----------------------------------------------------------------------------
(* A run of the tool. *)

\* file_fingerprint: the file, its size and its times.
Fingerprint(fd) == <<fd, inodes[fd].tail = Truncated, inodes[fd].stamp>>

\* A tool has a temporary file from mkstemp to the end of its run.
HasTemporary(t) ==
    \/ migration[t].pc \in {"recheck", "link", "sync", "unlink"}
    \/ migration[t].pc \in {"head", "tail", "compare"} /\ migration[t].data # NoStats

\* validate_target_directory: an existing directory must be empty.
TargetFree ==
    directory # "absent" => newStats = NoStats /\ ~litter /\ \A t \in Tools : ~HasTemporary(t)

Goes(t, next) == migration' = [migration EXCEPT ![t] = next]

\* An operation or a test failed: the temporary file is removed.
Ends(t) ==
    /\ Goes(t, ToolIdle)
    /\ UNCHANGED <<inodes, changes, directory, newStats, synced, litter, reported>>

\* read_source and, once there is a temporary file, verify_source_unchanged begin
\* by opening what the path names now.
OpenSource(t) ==
    /\ migration[t].pc \in {"idle", "recheck"}
    /\ Goes(t, [migration[t] EXCEPT !.pc = "head", !.fd = Len(inodes),
                                    !.before = Fingerprint(Len(inodes))])
    /\ UNCHANGED <<inodes, changes, directory, newStats, synced, litter, reported>>

ReadHead(t) ==
    /\ migration[t].pc = "head"
    /\ LET head == inodes[migration[t].fd].head IN
       Goes(t, [migration[t] EXCEPT !.pc = IF head = Truncated THEN "compare" ELSE "tail",
                                    !.head = head])
    /\ UNCHANGED <<inodes, changes, directory, newStats, synced, litter, reported>>

ReadTail(t) ==
    /\ migration[t].pc = "tail"
    /\ Goes(t, [migration[t] EXCEPT !.pc = "compare", !.tail = inodes[migration[t].fd].tail])
    /\ UNCHANGED <<inodes, changes, directory, newStats, synced, litter, reported>>

\* The halves of one document, or two that happen to fit, are JSON; less is not.
\* Without --apply this is all.
CheckSource(t) ==
    /\ migration[t].pc = "compare" /\ migration[t].data = NoStats
    /\ \E apply \in BOOLEAN :
       IF /\ Fingerprint(migration[t].fd) = migration[t].before
          /\ migration[t].tail # Truncated
          /\ TargetFree /\ apply
       THEN Goes(t, [ToolIdle EXCEPT !.pc = "mkdir", !.print = migration[t].before,
                                     !.data = <<migration[t].head, migration[t].tail>>])
       ELSE Goes(t, ToolIdle)
    /\ UNCHANGED <<inodes, changes, directory, newStats, synced, litter, reported>>

\* The directory is made unless it is there, and looked at again.
MakeDirectory(t) ==
    /\ migration[t].pc = "mkdir"
    /\ directory' = IF directory = "absent" THEN "made" ELSE directory
    /\ IF TargetFree THEN Goes(t, [migration[t] EXCEPT !.pc = "temporary"]) ELSE Goes(t, ToolIdle)
    /\ UNCHANGED <<inodes, changes, newStats, synced, litter, reported>>

\* mkstemp, the data, their fsync and their digest, in a file only the tool knows.
WriteTemporary(t) ==
    /\ migration[t].pc = "temporary"
    /\ Goes(t, [migration[t] EXCEPT !.pc = "recheck"])
    /\ UNCHANGED <<inodes, changes, directory, newStats, synced, litter, reported>>

\* Mutant: what was read again is not compared, only the file's attributes.
RecheckFingerprint(t) ==
    /\ migration[t].pc = "compare" /\ migration[t].data # NoStats
    /\ IF /\ migration[t].before = migration[t].print
          /\ Fingerprint(migration[t].fd) = migration[t].print
       THEN Goes(t, [ToolIdle EXCEPT !.pc = "link", !.data = migration[t].data])
       ELSE Goes(t, ToolIdle)
    /\ UNCHANGED <<inodes, changes, directory, newStats, synced, litter, reported>>

RecheckSource(t) ==
    /\ migration[t].pc = "compare" /\ migration[t].data # NoStats
    /\ IF /\ migration[t].before = migration[t].print
          /\ Fingerprint(migration[t].fd) = migration[t].print
          /\ <<migration[t].head, migration[t].tail>> = migration[t].data
       THEN Goes(t, [ToolIdle EXCEPT !.pc = "link", !.data = migration[t].data])
       ELSE Goes(t, ToolIdle)
    /\ UNCHANGED <<inodes, changes, directory, newStats, synced, litter, reported>>

\* os.link refuses a name that exists.
LinkTarget(t) ==
    /\ migration[t].pc = "link"
    /\ IF newStats = NoStats
       THEN newStats' = migration[t].data /\ Goes(t, [migration[t] EXCEPT !.pc = "sync"])
       ELSE Goes(t, ToolIdle) /\ UNCHANGED newStats
    /\ UNCHANGED <<inodes, changes, directory, synced, litter, reported>>

SyncTarget(t) ==
    /\ migration[t].pc = "sync"
    /\ synced' = TRUE
    /\ Goes(t, [migration[t] EXCEPT !.pc = "unlink"])
    /\ UNCHANGED <<inodes, changes, directory, newStats, litter, reported>>

ReportResult(t) ==
    /\ migration[t].pc = "unlink"
    /\ reported' = migration[t].data
    /\ Goes(t, ToolIdle)
    /\ UNCHANGED <<inodes, changes, directory, newStats, synced, litter>>

MigrationFails(t) == migration[t].pc # "idle" /\ Ends(t)

KillMigration(t) ==
    /\ migration[t].pc # "idle"
    /\ litter' = (litter \/ HasTemporary(t))
    /\ Goes(t, ToolIdle)
    /\ UNCHANGED <<inodes, changes, directory, newStats, synced, reported>>

-----------------------------------------------------------------------------
(* The host of the target. *)

\* A directory the tool made has its name in a parent that was never synced.
LosePower ==
    /\ migration' = [t \in Tools |-> ToolIdle]
    /\ \E keepsDirectory, keepsTarget, keepsLitter \in BOOLEAN :
          LET stays == directory = "there" \/ keepsDirectory IN
          /\ directory' = IF stays THEN directory ELSE "absent"
          /\ newStats' = IF stays /\ (synced \/ keepsTarget) THEN newStats ELSE NoStats
          /\ litter' = (stays /\ keepsLitter /\ (litter \/ \E t \in Tools : HasTemporary(t)))
          /\ reported' = IF stays THEN reported ELSE NoStats
    /\ synced' = (newStats' # NoStats)
    /\ UNCHANGED <<inodes, changes>>

\* A server started on the target writes a file of its own.
ServerCreatesStats ==
    /\ directory # "absent" /\ newStats = NoStats
    /\ newStats' = ServerDocument
    /\ UNCHANGED <<inodes, changes, migration, directory, synced, litter, reported>>

MigrationNext ==
    \/ ReplaceSource \/ TruncateSource \/ FillSource
    \/ LosePower \/ ServerCreatesStats
    \/ \E t \in Tools :
          \/ OpenSource(t) \/ ReadHead(t) \/ ReadTail(t) \/ CheckSource(t)
          \/ MakeDirectory(t) \/ WriteTemporary(t) \/ RecheckSource(t)
          \/ LinkTarget(t) \/ SyncTarget(t) \/ ReportResult(t)
          \/ MigrationFails(t) \/ KillMigration(t)

MigrationSpec == MigrationInit /\ [][MigrationNext]_migrationVars
-----------------------------------------------------------------------------
\* The target is one whole document of the source or of its own server, however the
\* source changed while it was read; and what a tool reported as copied is there,
\* not written over by another tool or server and not lost with power, unless the
\* directory the tool made is (migrate, src/scripts/migrate_stats_data.py).
MigratedWhole ==
    /\ newStats # NoStats => newStats[1] = newStats[2]
    /\ reported # NoStats => newStats = reported
=============================================================================
