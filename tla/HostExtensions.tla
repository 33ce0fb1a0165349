--------------------------- MODULE HostExtensions ---------------------------
(***************************************************************************)
(* The extension domains of a client (src/clients/host_collector.py,       *)
(* class HostExtensionCollector): hardware, docker, hermes, lucky,         *)
(* easytier and unifi.  start() collects each once, then a thread of its   *)
(* own collects each for ever; the client's loop sends copies of them all. *)
(* Each payload is kept in memory and in a status file, for operators.     *)
(* The process may be killed, and is started again by its container.       *)
(*                                                                         *)
(* A payload is known by the life of the process that collected it and by  *)
(* whether it is stale.                                                    *)
(***************************************************************************)
EXTENDS Integers, Sequences, FiniteSets, SequencesExt

CONSTANTS
    TaskOrder,   \* the domains, in the order start() collects them
    Optional,    \* those a configuration may switch off
    MaxLives,    \* bound on starts of the process
    MaxLitter    \* bound on temporary files left

ASSUME ExtensionAssumption ==
    /\ TaskOrder \in Seq(STRING)
    /\ MaxLives \in Nat /\ MaxLitter \in Nat

VARIABLES
    enabled,     \* domains switched on
    life,        \* starts of the process so far
    mainPc,      \* position in start(), or Sending
    domainShown, \* _hardware, _docker, ... in memory
    worker,      \* what each domain's collection is doing
    statusFile,  \* the status file of each domain
    litter,      \* temporary files left in the status directory
    sent         \* the last extension payload sent

extensionVars == <<enabled, life, mainPc, domainShown, worker, statusFile, litter, sent>>

Domains == Range(TaskOrder)
Sending == Len(TaskOrder) + 1
NoFile == [life |-> 0, stale |-> FALSE]
NotSent == <<>>

\* not_reported_*, not_configured_*: what a domain shows before it is collected.
NotReported == [life |-> 0, stale |-> TRUE]

-----------------------------------------------------------------------------
(* What a collection can yield. *)

Payload(stale) == [life |-> life, stale |-> stale]

\* A list of containers; a list too long, or none, leaves the domain stale.
CollectDocker(answer) == Payload(answer # "list")

\* The snapshot the exporter wrote, which may itself be stale.  With the exporter
\* switched off its absence is a state of the host and no error.
ReadHermesSnapshot(file, exporter) ==
    Payload(~(file = "fresh" \/ (file = "missing" /\ ~exporter)))

\* What each domain's collect_*_once may store; a collector that raises leaves
\* its domain not reported, with an error.
Outcomes(d) ==
    {Payload(TRUE)} \cup
    CASE d = "docker" -> {CollectDocker(a) : a \in {"list", "too_long", "none"}}
      [] d = "hermes" -> {ReadHermesSnapshot(f, e) :
            f \in {"missing", "unreadable", "invalid", "fresh", "stale"}, e \in BOOLEAN}
      [] OTHER -> {Payload(FALSE)}

-----------------------------------------------------------------------------
(* One collection: memory, then the status file by a temporary file. *)

\* start() collects the domain at its position; later the domain's thread does.
MayCollect(d) ==
    /\ d \in enabled
    /\ mainPc = Sending \/ (mainPc \in DOMAIN TaskOrder /\ TaskOrder[mainPc] = d)

CollectOnce(d) ==
    /\ MayCollect(d)
    /\ worker[d] = "due"
    /\ \E p \in Outcomes(d) : domainShown' = [domainShown EXCEPT ![d] = p]
    /\ worker' = [worker EXCEPT ![d] = "storing"]
    /\ UNCHANGED <<enabled, life, mainPc, statusFile, litter, sent>>

\* start() goes on to the next domain; the domain's thread waits its interval.
Collected(d) ==
    /\ worker' = [worker EXCEPT ![d] = "waiting"]
    /\ mainPc' = IF mainPc = Sending THEN mainPc ELSE mainPc + 1

\* atomic_write_json: the temporary file is made and filled ...
WriteTemporary(d) ==
    /\ worker[d] = "storing"
    /\ litter < MaxLitter
    /\ worker' = [worker EXCEPT ![d] = "written"]
    /\ litter' = litter + 1
    /\ UNCHANGED <<enabled, life, mainPc, domainShown, statusFile, sent>>

\* ... and takes the status file's name.
ReplaceFile(d) ==
    /\ worker[d] = "written"
    /\ statusFile' = [statusFile EXCEPT ![d] = domainShown[d]]
    /\ litter' = litter - 1
    /\ Collected(d)
    /\ UNCHANGED <<enabled, life, domainShown, sent>>

\* Mutant: the error ends the domain's thread.
WriteErrorEnds(d) ==
    /\ worker[d] \in {"storing", "written"}
    /\ litter' = IF worker[d] = "written" THEN litter - 1 ELSE litter
    /\ worker' = [worker EXCEPT ![d] = "ended"]
    /\ mainPc' = IF mainPc = Sending THEN mainPc ELSE mainPc + 1
    /\ UNCHANGED <<enabled, life, domainShown, statusFile, sent>>

\* An error removes the temporary file, if it was made, and is swallowed.
WriteError(d) ==
    /\ worker[d] \in {"storing", "written"}
    /\ litter' = IF worker[d] = "written" THEN litter - 1 ELSE litter
    /\ Collected(d)
    /\ UNCHANGED <<enabled, life, domainShown, statusFile, sent>>

\* The interval of a domain is over.
IntervalElapses(d) ==
    /\ mainPc = Sending
    /\ worker[d] = "waiting"
    /\ worker' = [worker EXCEPT ![d] = "due"]
    /\ UNCHANGED <<enabled, life, mainPc, domainShown, statusFile, litter, sent>>

-----------------------------------------------------------------------------

\* Mutant: start() does not wait for the first collection.
SkipUncollected ==
    /\ mainPc \in DOMAIN TaskOrder
    /\ mainPc' = mainPc + 1
    /\ UNCHANGED <<enabled, life, domainShown, worker, statusFile, litter, sent>>

\* A domain that is switched off has no task and stays not reported.
SkipDisabled ==
    /\ mainPc \in DOMAIN TaskOrder
    /\ TaskOrder[mainPc] \notin enabled
    /\ mainPc' = mainPc + 1
    /\ UNCHANGED <<enabled, life, domainShown, worker, statusFile, litter, sent>>

\* extension_payload: all the domains, copied under one lock.
SendUpdate ==
    /\ mainPc = Sending
    /\ sent' = domainShown
    /\ UNCHANGED <<enabled, life, mainPc, domainShown, worker, statusFile, litter>>

\* The constructor.
FreshProcess ==
    /\ mainPc' = 1
    /\ domainShown' = [d \in Domains |-> NotReported]
    /\ worker' = [d \in Domains |-> "due"]
    /\ sent' = NotSent

KillCollector ==
    /\ life < MaxLives
    /\ life' = life + 1
    /\ FreshProcess
    /\ UNCHANGED <<enabled, statusFile, litter>>

ExtensionInit ==
    /\ enabled \in {Domains \ off : off \in SUBSET Optional}
    /\ life = 1
    /\ mainPc = 1
    /\ domainShown = [d \in Domains |-> NotReported]
    /\ worker = [d \in Domains |-> "due"]
    /\ statusFile = [d \in Domains |-> NoFile]
    /\ litter = 0
    /\ sent = NotSent

ExtensionNext ==
    \/ SkipDisabled \/ SendUpdate \/ KillCollector
    \/ \E d \in Domains : \/ CollectOnce(d) \/ WriteTemporary(d) \/ ReplaceFile(d)
                          \/ WriteError(d) \/ IntervalElapses(d)

ExtensionSpec == ExtensionInit /\ [][ExtensionNext]_extensionVars

\* A step of a domain's collection.
ExtensionStep(d) ==
    CollectOnce(d) \/ WriteTemporary(d) \/ ReplaceFile(d) \/ WriteError(d) \/ IntervalElapses(d)

-----------------------------------------------------------------------------

\* A fresh container never publishes a partially initialised snapshot: what is
\* sent holds, of every domain switched on, a collection made by this process,
\* in whatever order collections fail, however often it was killed before.
FirstPayloadComplete ==
    sent # NotSent => \A d \in enabled : sent[d].life = life

\* No failure of a collection or of its status file ends the collecting of its
\* domain or of another.
DomainsKeepCollecting ==
    \A d \in Domains : [](d \in enabled => <>(worker[d] = "storing"))

=============================================================================
