--------------------------- MODULE EasyTierMonitor ---------------------------
(***************************************************************************)
(* Observation of an EasyTier node by its command line                     *)
(* (src/clients/easytier_collector.py): a cycle runs read-only commands    *)
(* one after another, each of which may fail by itself, and derives rates  *)
(* from the traffic counters of two cycles.  Between any two commands the  *)
(* instance may restart, with an identity of its own and counters that     *)
(* begin again at zero.                                                    *)
(***************************************************************************)
EXTENDS Integers, Sequences, FiniteSets, SequencesExt

CONSTANTS
    Commands,       \* COMMANDS: node_info first, stats_show last; between them
                    \* commands that are alike but for what they list
    PeerLists,      \* lists of peers, of [own, marked, path, tunnel]: has it the
                    \* node's peer id, and is its cost "Local"
    Networks,       \* the network the labels of the counters name, or none
    MaxItems,       \* MAX_ITEMS
    Interval,       \* interval_seconds
    MaxInstances,   \* bound on restarts of EasyTier
    MaxTraffic,     \* bound on a counter
    MaxUptime       \* bound on the clock

\* Who is asked first: the node, before its counters.
ASSUME EasyTierAssumption ==
    /\ Commands \in Seq(STRING)
    /\ \A i, j \in DOMAIN Commands :
          Commands[i] = "node_info" /\ Commands[j] = "stats_show" => i < j

VARIABLES
    now,            \* monotonic time of the collector
    instance,       \* the EasyTier instance that runs
    traffic,        \* its counter
    cycle,          \* the cycle under way: answers so far and what they said
    previousTraffic, \* _previous_traffic
    easytierShown,  \* the payload of the last cycle
    rated,          \* the two samples of the rate shown
    spoiled         \* rates shown, over the run of the collector, whose samples
                    \* came of two instances; kept for RestartSpoilsOneRate alone

easytierVars == <<now, instance, traffic, cycle, previousTraffic,
                  easytierShown, rated, spoiled>>

Never == -1

NoCycle == [status |-> <<>>, inst |-> 0, version |-> "none", peers |-> <<>>,
            sampled |-> 0, network |-> "none", bytes |-> 0]
NoSample == [bytes |-> 0, at |-> Never, inst |-> 0, network |-> "none", of |-> 0]
NoRate == <<>>

-----------------------------------------------------------------------------
(* What the answers of a cycle are made into. *)

NoPeers == [total |-> 0, direct |-> 0, relay |-> 0, unknown |-> 0,
            displayed |-> 0, ipv6udp |-> "unproved"]

\* The local node may be in its own list; it is no peer, and known by its mark or,
\* when node_info told the node's peer id, by that.  Aggregates count every remote
\* peer, of which the first MaxItems are displayed.
ApplyPeers(peers, idKnown) ==
    LET remote == SelectSeq(peers, LAMBDA p : ~p.marked /\ ~(idKnown /\ p.own))
        Number(path) == Len(SelectSeq(remote, LAMBDA p : p.path = path))
        classified == \A i \in DOMAIN remote :
                          remote[i].path # "unknown" /\ remote[i].tunnel # "unknown"
    IN  [total |-> Len(remote), direct |-> Number("direct"), relay |-> Number("relayed"),
         unknown |-> Number("unknown"),
         displayed |-> IF Len(remote) < MaxItems THEN Len(remote) ELSE MaxItems,
         ipv6udp |->
            IF remote = <<>> \/ ~classified THEN "unproved"
            ELSE IF \E i \in DOMAIN remote :
                        remote[i].path = "direct" /\ remote[i].tunnel = "udp6"
            THEN "direct" ELSE "none"]

Succeeded(status) == {i \in DOMAIN status : status[i]}
Answered(status, name) ==
    \E i \in Succeeded(status) : Commands[i] = name

\* The identity of a sample is the network its labels name and the instance
\* node_info named, or none.
InstanceIdentity(c) == IF Answered(c.status, "node_info") THEN c.inst ELSE 0

Sample(c) == [bytes |-> c.bytes, at |-> now, inst |-> InstanceIdentity(c),
              network |-> c.network, of |-> c.sampled]

\* Mutant: the instances are not compared.
RateAllowedAcross(old, new) ==
    /\ old # NoSample
    /\ new.network = old.network
    /\ new.at - old.at \in 1..2 * Interval
    /\ new.bytes >= old.bytes

RateAllowed(old, new) ==
    /\ old # NoSample
    /\ new.inst = old.inst /\ new.network = old.network
    /\ new.at > old.at
    /\ new.at - old.at <= 2 * Interval
    /\ new.bytes >= old.bytes

Status(c) ==
    IF Succeeded(c.status) = {} THEN "unavailable"
    ELSE IF InstanceIdentity(c) # 0 /\ c.version # "2.6" THEN "unsupported_version"
    ELSE IF Cardinality(Succeeded(c.status)) < Len(Commands) THEN "degraded"
    ELSE "healthy"

EasyTierPayload(c) ==
    [status |-> Status(c), stale |-> Status(c) = "unavailable", commands |-> c.status,
     peers |-> IF Answered(c.status, "peer_list")
              THEN ApplyPeers(c.peers, Answered(c.status, "node_info")) ELSE NoPeers]

-----------------------------------------------------------------------------
(* A cycle. *)

CycleRunning == Len(cycle.status) < Len(Commands)
NextIs(name) == CycleRunning /\ Commands[Len(cycle.status) + 1] = name

\* The next command answers what the node is now; a command that fails, times out
\* or prints something else fails alone, and says when it last succeeded.
RunCommand(ok) ==
    LET asked(name) == ok /\ NextIs(name)
    IN  /\ CycleRunning
        /\ \E version \in IF asked("node_info") THEN {"2.6", "other"} ELSE {cycle.version},
              peers \in IF asked("peer_list") THEN PeerLists ELSE {cycle.peers},
              network \in IF asked("stats_show") THEN Networks ELSE {cycle.network} :
             cycle' = [cycle EXCEPT
                !.status = Append(@, ok),
                !.version = version,
                !.peers = peers,
                !.network = network,
                !.inst = IF asked("node_info") THEN instance ELSE @,
                !.sampled = IF asked("stats_show") THEN instance ELSE @,
                !.bytes = IF asked("stats_show") THEN traffic ELSE @]
        /\ UNCHANGED <<now, instance, traffic, previousTraffic, easytierShown, rated,
                       spoiled>>

\* After the last command.  With none answered, or no counters, the baseline
\* stays; else this sample is the next baseline, whether or not it gives a rate.
FinishCycle ==
    /\ ~CycleRunning
    /\ easytierShown' = EasyTierPayload(cycle)
    /\ LET sample == Sample(cycle)
           answered == Answered(cycle.status, "stats_show")
           rate == answered /\ RateAllowed(previousTraffic, sample)
       IN  /\ previousTraffic' = IF answered THEN sample ELSE previousTraffic
           /\ rated' = IF rate THEN <<previousTraffic, sample>> ELSE NoRate
           /\ spoiled' = IF rate /\ previousTraffic.of # sample.of
                         THEN spoiled + 1 ELSE spoiled
    /\ cycle' = NoCycle
    /\ UNCHANGED <<now, instance, traffic>>

\* A CLI file that is missing, no regular file or not executable: no command runs.
CliUnavailable ==
    /\ cycle = NoCycle
    /\ easytierShown' = [status |-> "unavailable", stale |-> TRUE, peers |-> NoPeers,
                         commands |-> <<>>]
    /\ rated' = NoRate
    /\ UNCHANGED <<now, instance, traffic, cycle, previousTraffic, spoiled>>

-----------------------------------------------------------------------------
(* The node and time. *)

\* A new instance has an identity of its own.
Restart ==
    /\ instance < MaxInstances
    /\ instance' = instance + 1
    /\ traffic' = 0
    /\ UNCHANGED <<now, cycle, previousTraffic, easytierShown, rated, spoiled>>

\* Time passes and traffic flows.
TrafficFlows ==
    /\ now < MaxUptime
    /\ now' = now + 1
    /\ \E t \in traffic..MaxTraffic : traffic' = t
    /\ UNCHANGED <<instance, cycle, previousTraffic, easytierShown, rated, spoiled>>

EasyTierInit ==
    /\ now = 0
    /\ instance = 1
    /\ traffic = 0
    /\ cycle = NoCycle
    /\ previousTraffic = NoSample
    /\ easytierShown = [status |-> "not_configured", stale |-> TRUE, peers |-> NoPeers,
                        commands |-> <<>>]
    /\ rated = NoRate
    /\ spoiled = 0

EasyTierNext ==
    \/ \E ok \in BOOLEAN : RunCommand(ok)
    \/ FinishCycle \/ CliUnavailable \/ Restart \/ TrafficFlows

EasyTierSpec == EasyTierInit /\ [][EasyTierNext]_easytierVars

-----------------------------------------------------------------------------

\* A rate may be wrong: a restart between node_info and stats_show of its second
\* cycle, or node_info failing in both cycles, hides that the counters are another
\* instance's once they have caught up.  But what a restart between the cycles, or
\* in the first one, left is always noticed when node_info answers: the baseline's
\* counters are then those of the instance named.  And as every sample is the next
\* baseline, a restart spoils one rate at most, whichever commands fail
\* (_apply_stats in src/clients/easytier_collector.py).
RestartSpoilsOneRate ==
    /\ spoiled <= instance - 1
    /\ rated # NoRate /\ rated[2].inst # 0 => rated[1].of = rated[2].inst

=============================================================================
