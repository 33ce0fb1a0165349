--------------------------- MODULE ClientMonitors ---------------------------
(***************************************************************************)
(* The latency monitors a server sends with each 202 and the threads that  *)
(* measure them (install_monitor_definitions in                            *)
(* src/clients/device_client_transport.py, _monitor_thread in              *)
(* src/clients/client-linux.py and client-psutil.py).                      *)
(*                                                                         *)
(* The runner installs a list of monitors under monitorServerLock; a       *)
(* thread takes the lock only to ask whether it still owns its monitor,    *)
(* and again to record what it measured, up to a day apart.  A monitor     *)
(* that goes away and comes back, or changes its target in between, gets a *)
(* new generation and a new thread while the old one may be anywhere.      *)
(***************************************************************************)
EXTENDS Integers, FiniteSets

CONSTANTS
    Names,            \* monitor names
    Targets,          \* a monitor's type, host and interval
    NotMeasured,      \* the latency 0 of a new entry
    MaxGeneration,    \* bound on _MONITOR_GENERATIONS
    MaxStartFailures  \* bound on threads that cannot be started

ASSUME MonitorAssumption ==
    /\ NotMeasured \notin Targets
    /\ MaxGeneration \in Nat /\ MaxStartFailures \in Nat

VARIABLES
    monitors,      \* monitorServer: a function on the installed names to entries
                   \* that say which target their latency was measured of
    generation,    \* _MONITOR_GENERATIONS
    threads,       \* the monitor threads
    startFailures, \* threads that could not be started, against their bound
    unstarted      \* history: generations of monitors whose thread did not start

monitorVars == <<monitors, generation, threads, startFailures, unstarted>>
-----------------------------------------------------------------------------
\* Mutant: the generation is not compared.
OwnedByName(t) == t.name \in DOMAIN monitors

\* _monitor_owned, and the test in _set_monitor_latency.
Owned(t) ==
    /\ t.name \in DOMAIN monitors
    /\ monitors[t.name].generation = t.generation

\* previous has the same type, host and interval.
Kept(n, target) == n \in DOMAIN monitors /\ monitors[n].target = target

\* Mutant: a thread is started for every monitor installed.
NewMonitorsAll(wanted) == DOMAIN wanted

NewMonitors(wanted) == {n \in DOMAIN wanted : ~Kept(n, wanted[n])}

\* install_monitor_definitions.  The new entries of one call are numbered by
\* one generation here: only threads of the same name are ever compared.  The
\* first thread that cannot be started ends the call, its entries installed.
Install(wanted) ==
    LET new == NewMonitors(wanted) IN
    /\ generation < MaxGeneration
    /\ generation' = generation + 1
    /\ monitors' = [n \in DOMAIN wanted |->
                      IF Kept(n, wanted[n]) THEN monitors[n]
                      ELSE [target |-> wanted[n], latency |-> NotMeasured,
                            generation |-> generation']]
    /\ \E started \in SUBSET new :
          /\ IF started = new THEN UNCHANGED startFailures
             ELSE startFailures < MaxStartFailures /\ startFailures' = startFailures + 1
          /\ threads' = threads \cup
                {[name |-> n, target |-> wanted[n], generation |-> monitors'[n].generation,
                  at |-> "top"] : n \in started}
          /\ unstarted' = unstarted \cup {<<n, generation'>> : n \in new \ started}

\* _monitor_thread: at the top of its loop it goes on only if it owns the monitor.
Top(t) ==
    /\ t.at = "top"
    /\ threads' = (threads \ {t}) \cup
                    (IF Owned(t) THEN {[t EXCEPT !.at = "probe"]} ELSE {})
    /\ UNCHANGED <<monitors, generation, startFailures, unstarted>>

\* It has connected to its target, or failed to, and records the latency.
Record(t) ==
    /\ t.at = "probe"
    /\ threads' = (threads \ {t}) \cup {[t EXCEPT !.at = "top"]}
    /\ monitors' = IF Owned(t) THEN [monitors EXCEPT ![t.name].latency = t.target]
                   ELSE monitors
    /\ UNCHANGED <<generation, startFailures, unstarted>>

\* A thread's next step.
Works(t) == t \in threads /\ (Top(t) \/ Record(t))

MonitorInit ==
    /\ monitors = [n \in {} |-> NotMeasured]
    /\ generation = 0 /\ threads = {}
    /\ startFailures = 0 /\ unstarted = {}

Wanted == UNION {[S -> Targets] : S \in SUBSET Names}

MonitorNext ==
    \/ \E wanted \in Wanted : Install(wanted)
    \/ \E t \in threads : Top(t) \/ Record(t)

MonitorSpec == MonitorInit /\ [][MonitorNext]_monitorVars
-----------------------------------------------------------------------------
Owners(n) == {t \in threads : t.name = n /\ t.generation = monitors[n].generation}

\* An installed monitor is measured by exactly one thread, whatever sequence of
\* lists was installed before and wherever their threads still sleep; only one
\* whose thread could not be started is measured by none.
OneThreadEach ==
    \A n \in DOMAIN monitors :
        Cardinality(Owners(n)) =
            IF <<n, monitors[n].generation>> \in unstarted THEN 0 ELSE 1

\* A latency is reported only for the target it was measured of, although the
\* list may have changed between the connection and the record.
LatencyOfCurrentTarget ==
    \A n \in DOMAIN monitors :
        monitors[n].latency \in {NotMeasured, monitors[n].target}

\* The thread of a monitor that is replaced or taken off the list ends, even if
\* a monitor of its name is installed again before it looks.
ReplacedThreadsEnd ==
    \A n \in Names, g \in 1..MaxGeneration :
        (\E t \in threads : t.name = n /\ t.generation = g /\ ~Owned(t))
            ~> ~(\E t \in threads : t.name = n /\ t.generation = g)
=============================================================================
