----------------------------- MODULE StateFiles -----------------------------
(***************************************************************************)
(* The state file of the multi-device server and its backup                *)
(* (src/server/device_persistence.go): one directory, two names, each      *)
(* replaced by atomicWrite - write a temporary file, fsync it, rename it   *)
(* over the name, fsync the directory.                                     *)
(*                                                                         *)
(* The temporary file is fsynced before it is renamed, so a name always    *)
(* holds one complete document; what a power failure can undo is a rename  *)
(* whose directory fsync has not returned.  visible is what a process      *)
(* reads now; survivors is the set of documents each name may hold after   *)
(* power is lost.  An fsync of the directory covers both names.            *)
(***************************************************************************)
EXTENDS Integers, FiniteSets

CONSTANT Document      \* the complete documents a file can hold

VARIABLES visible,     \* [File -> Content]: what readBounded returns now
          survivors    \* [File -> SUBSET Content]: what a power loss may leave

files == <<visible, survivors>>

File == {"primary", "backup"}

\* A name is absent, holds a document that decodes, or holds one that does not.
Absent     == [state |-> "absent"]
Corrupt    == [state |-> "corrupt"]
Valid(doc) == [state |-> "valid", doc |-> doc]
Content    == {Absent, Corrupt} \cup [state : {"valid"}, doc : Document]

IsValid(c) == c.state = "valid"

FilesTypeOK ==
    /\ visible \in [File -> Content]
    /\ survivors \in [File -> SUBSET Content]

FilesInit ==
    /\ visible = [f \in File |-> Absent]
    /\ survivors = [f \in File |-> {Absent}]
-----------------------------------------------------------------------------
\* renameat over the name: readers see the new document at once, a power
\* failure may still bring back any earlier one.
Rename(f, c) ==
    /\ visible' = [visible EXCEPT ![f] = c]
    /\ survivors' = [survivors EXCEPT ![f] = @ \cup {c}]

\* unix.Fsync(directoryFD) succeeded: both names are durable as they stand.
SyncDirectory ==
    /\ survivors' = [f \in File |-> {visible[f]}]
    /\ UNCHANGED visible

\* Power is lost and comes back: each name keeps any of its survivors.
PowerLoss ==
    \E p \in survivors["primary"], b \in survivors["backup"] :
        /\ visible' = [f \in File |-> IF f = "primary" THEN p ELSE b]
        /\ survivors' = [f \in File |-> {visible'[f]}]

\* The medium damages the primary file: its document no longer decodes.
DamagePrimary ==
    /\ IsValid(visible["primary"])
    /\ visible' = [visible EXCEPT !["primary"] = Corrupt]
    /\ survivors' = [survivors EXCEPT !["primary"] = {Corrupt}]
-----------------------------------------------------------------------------
(* What restorePersistenceV2 makes of a pair of files: the primary if it   *)
(* decodes, else the backup if that decodes; with neither file there the   *)
(* server starts empty, and in every other case it refuses to start.       *)
Readable(p, b) == IsValid(p) \/ IsValid(b)
StartsEmpty(p, b) == p = Absent /\ b = Absent
Recovered(p, b) == IF IsValid(p) THEN p.doc ELSE b.doc
=============================================================================
