----------------------------- MODULE CertChecks -----------------------------
(***************************************************************************)
(* The certificate checks of the server (src/server/ssl.go): one CertState *)
(* per configured certificate, replaced as a map by every configuration    *)
(* that is applied, and one goroutine per check in flight, which finds the *)
(* state again by its key when the TLS handshake is over.  The key is the  *)
(* name, the domain and the port together.                                 *)
(*                                                                         *)
(* A check is due when its interval has passed; the intervals are any, so  *)
(* that any set of idle certificates may be due.  The outcome of a check   *)
(* is only shown, never acted on, and is left out.                         *)
(***************************************************************************)
EXTENDS Integers

CONSTANTS
    Certs,        \* keys of certificates (certKey)
    MaxRunning    \* bound on the checks of one key in flight

VARIABLES
    certs,        \* [Certs -> "absent", "idle" or "checking"]: App.certs
    running       \* [Certs -> Nat]: executeSSLCheck goroutines of a key

CertsTypeOK ==
    /\ certs \in [Certs -> {"absent", "idle", "checking"}]
    /\ running \in [Certs -> Nat]

CertsInit ==
    /\ certs = [k \in Certs |-> "absent"]
    /\ running = [k \in Certs |-> 0]

\* reconcileCerts: a certificate that stays keeps its state, with the check
\* it may have in flight; one that comes back starts from nothing.
Reconcile(configured) ==
    /\ certs' = [k \in Certs |-> IF k \notin configured THEN "absent"
                                ELSE IF certs[k] = "absent" THEN "idle" ELSE certs[k]]
    /\ UNCHANGED running

\* runDueSSLChecks: every certificate that is due is marked under certMu and
\* gets a goroutine.
StartDue(due) ==
    /\ due # {} /\ \A k \in due : certs[k] = "idle" /\ running[k] < MaxRunning
    /\ certs' = [k \in Certs |-> IF k \in due THEN "checking" ELSE certs[k]]
    /\ running' = [k \in Certs |-> IF k \in due THEN running[k] + 1 ELSE running[k]]

\* Mutant: a check that failed returns before it clears Checking.
FinishCheckError(k) ==
    /\ running[k] > 0
    /\ running' = [running EXCEPT ![k] = @ - 1]
    /\ UNCHANGED certs

\* The second half of executeSSLCheck: whichever state the key has by now is
\* the one that is no longer being checked, also when it is not the state the
\* check was started for.
FinishCheck(k) ==
    /\ running[k] > 0
    /\ running' = [running EXCEPT ![k] = @ - 1]
    /\ certs' = [certs EXCEPT ![k] = IF @ = "absent" THEN "absent" ELSE "idle"]

\* A certificate marked as being checked has a check in flight that will clear
\* the mark, however often it was removed and added again meanwhile: no
\* certificate is left marked for ever and never looked at again.
CheckingMeansRunning == \A k \in Certs : certs[k] = "checking" => running[k] > 0
=============================================================================
