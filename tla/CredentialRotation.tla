------------------------- MODULE CredentialRotation -------------------------
(***************************************************************************)
(* Provisioning of a device credential                                     *)
(* (src/scripts/provision_device_credential.py).  The tool makes a token,  *)
(* stages the server's record with its digest and the client's token file, *)
(* and puts first the record, then the token in place.  A device may have  *)
(* two slots, so that a new token is recorded beside the one in use.  The  *)
(* tool is killed, or a file operation fails, anywhere.                    *)
(***************************************************************************)
EXTENDS Integers, FiniteSets

CONSTANTS MaxTokens   \* bound on the tokens made

ASSUME RotationAssumption == MaxTokens \in Nat

VARIABLES
    record,       \* the server's record: slot -> credential, or no file
    tokenFile,    \* the client's token file
    tool,         \* [pc, slot, window, overwrite, existed, committed]
    tokens,       \* tokens made so far
    leftovers,    \* staged files left behind
    careless,     \* history: the operator wrote the slot in use, or a token that
                  \* is not valid yet
    inService     \* history: a provisioning was completed

rotationVars == <<record, tokenFile, tool, tokens, leftovers, careless, inService>>

Slots == {"current", "next"}
NoToken == 0
Empty == [token |-> NoToken, window |-> "none"]
NoRecord == [s \in Slots |-> Empty]
ToolDone == [pc |-> "done", slot |-> "current", window |-> "now", overwrite |-> FALSE,
             existed |-> {}, committed |-> {}]

\* A record that says one digest twice, or has no credential, is refused.
RecordIsValid(r) ==
    /\ r # NoRecord
    /\ Cardinality({r[s].token : s \in Slots} \ {NoToken}) =
       Cardinality({s \in Slots : r[s] # Empty})

\* Mutant: the record holds one credential.
MergeRecordAlone(r, slot, credential) == [NoRecord EXCEPT ![slot] = credential]

\* The slot written takes the place of its own credential and keeps the other's.
MergeRecord(r, slot, credential) == [r EXCEPT ![slot] = credential]

Existing ==
    {f \in {"server", "client"} :
        IF f = "server" THEN record # NoRecord ELSE tokenFile # NoToken}

RotationInit ==
    /\ record = NoRecord /\ tokenFile = NoToken /\ tool = ToolDone
    /\ tokens = 0 /\ leftovers = 0 /\ careless = FALSE
    /\ inService = FALSE

\* Both targets are looked at before a token is made: without --overwrite neither
\* may exist.  The staged files are complete and on disk before one is renamed.
Provision ==
    /\ tool.pc = "done" /\ tokens < MaxTokens
    /\ \E slot \in Slots, window \in {"now", "later"}, overwrite \in BOOLEAN :
          /\ overwrite \/ Existing = {}
          /\ record # NoRecord => RecordIsValid(record)
          /\ tool' = [pc |-> "staged", slot |-> slot, window |-> window,
                      overwrite |-> overwrite, existed |-> Existing, committed |-> {}]
          /\ careless' = (careless \/ window = "later"
                          \/ (tokenFile # NoToken /\ record[slot].token = tokenFile))
    /\ tokens' = tokens + 1
    /\ UNCHANGED <<record, tokenFile, leftovers, inService>>

\* Staging failed: nothing was changed.
StageFails ==
    /\ tool.pc = "staged"
    /\ tool' = ToolDone
    /\ UNCHANGED <<record, tokenFile, tokens, leftovers, careless, inService>>

CommitRecord ==
    /\ tool.pc = "staged"
    /\ record' = MergeRecord(record, tool.slot, [token |-> tokens, window |-> tool.window])
    /\ tool' = [tool EXCEPT !.pc = "recorded", !.committed = {"server"}]
    /\ UNCHANGED <<tokenFile, tokens, leftovers, careless, inService>>

CommitToken ==
    /\ tool.pc = "recorded"
    /\ tokenFile' = tokens
    /\ tool' = ToolDone
    /\ inService' = TRUE
    /\ UNCHANGED <<record, tokens, leftovers, careless>>

\* An operation failed: a file the tool made is removed if it can be, one it
\* replaced stays replaced; renamed says whether the operation that failed came
\* after the file was in place, noted that it was known to be.
CommitFails ==
    /\ tool.pc \in {"staged", "recorded"}
    /\ \E renamed, noted \in BOOLEAN, removed \in SUBSET {"server", "client"} :
          LET committed == tool.committed \cup
                  (IF noted /\ renamed THEN {IF tool.pc = "staged" THEN "server" ELSE "client"} ELSE {})
              undone == (committed \cap removed) \ tool.existed
              new == IF tool.pc = "staged" /\ renamed
                     THEN MergeRecord(record, tool.slot, [token |-> tokens, window |-> tool.window])
                     ELSE record
          IN  /\ record' = IF "server" \in undone THEN NoRecord ELSE new
              /\ tokenFile' = IF tool.pc = "recorded" /\ renamed /\ "client" \notin undone
                              THEN tokens ELSE tokenFile
    /\ tool' = ToolDone
    /\ UNCHANGED <<tokens, leftovers, careless, inService>>

KillTool ==
    /\ tool.pc # "done"
    /\ leftovers' = leftovers + (IF tool.pc = "staged" THEN 2 ELSE 1)
    /\ tool' = ToolDone
    /\ UNCHANGED <<record, tokenFile, tokens, careless, inService>>

\* The beginning of a window comes.
WindowOpens ==
    /\ \E s \in Slots : record[s].window = "later" /\ record' = [record EXCEPT ![s].window = "now"]
    /\ UNCHANGED <<tokenFile, tool, tokens, leftovers, careless, inService>>

RotationNext ==
    \/ Provision \/ StageFails \/ CommitRecord \/ CommitToken \/ CommitFails
    \/ KillTool \/ WindowOpens

RotationSpec == RotationInit /\ [][RotationNext]_rotationVars
-----------------------------------------------------------------------------
\* A device in service is not locked out by a rotation, wherever the tool stops or
\* fails: the token in the client's file is one of the record's and valid, unless the
\* operator wrote over the slot in use or made a token for later
\* (_write_pair_atomically, src/scripts/provision_device_credential.py).
TokenAccepted ==
    inService /\ ~careless =>
        \E s \in Slots : record[s] = [token |-> tokenFile, window |-> "now"]
=============================================================================
