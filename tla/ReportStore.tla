---------------------------- MODULE ReportStore ----------------------------
(***************************************************************************)
(* What the server promises about reports, with no locks, files or         *)
(* processes: for each device there is a stored report - what a server     *)
(* started now would restore - and the report last acknowledged as         *)
(* accepted.  The stored reports may change as unacknowledged writes come  *)
(* and go, but never to anything older than what was acknowledged, and     *)
(* acknowledgements only move forward in collection time, to a report      *)
(* that is stored (docs/ARCHITECTURE.md, "Identity, acceptance, and        *)
(* persistence").                                                          *)
(***************************************************************************)
EXTENDS Integers

CONSTANTS Devices, Digests

\* A report: when it was collected (0: none yet) and its digest.
Report == [at : Nat, digest : Digests]

VARIABLES stored,        \* what a restart would restore
          acknowledged   \* what a client was told is accepted

vars == <<stored, acknowledged>>

NotOlder(r, s) == r.at > s.at \/ r = s

\* A write, a failed write or a crash: stored reports change for any number of
\* devices at once, none falls behind its acknowledgement.
Store ==
    /\ stored' \in [Devices -> Report]
    /\ \A d \in Devices : NotOlder(stored'[d], acknowledged[d])
    /\ UNCHANGED acknowledged

\* The stored report of d, collected after the last one, is acknowledged.
Acknowledge(d) ==
    /\ stored[d].at > acknowledged[d].at
    /\ acknowledged' = [acknowledged EXCEPT ![d] = stored[d]]
    /\ UNCHANGED stored

Init ==
    /\ stored \in [Devices -> Report]
    /\ \A d \in Devices : stored[d].at = 0
    /\ acknowledged = stored

Next == Store \/ \E d \in Devices : Acknowledge(d)

Spec == Init /\ [][Next]_vars
=============================================================================
