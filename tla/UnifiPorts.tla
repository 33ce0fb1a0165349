----------------------------- MODULE UnifiPorts -----------------------------
(***************************************************************************)
(* The ports of one UniFi device in the telemetry of its controller        *)
(* (_ports, _port_record of src/clients/unifi_api.py).  The catalogue says *)
(* which ports the model has; the controller reports rows with counters,   *)
(* of which one may be the uplink; rates and utilisation are made of the   *)
(* counters of two collections.  Between two collections the uplink is     *)
(* moved, links go up and down, counters begin again, and the controller   *)
(* stops reporting the device, its port table or the indexes in it.        *)
(***************************************************************************)
EXTENDS Integers, Sequences, FiniteSets, SequencesExt

CONSTANTS
    Rows,          \* indexes of the rows the controller reports, in order
    Catalogs,      \* models: [ports, uplinks (those with the roles uplink and
                   \* data_in), ap]; no ports when the model is unknown
    Speeds,        \* link speeds
    MaxAge,        \* seconds two samples may be apart
    MaxBytes,      \* bound on the traffic of a row
    MaxChanges,    \* bound on the changes of the network
    MaxPortClock   \* bound on the clock

ASSUME PortsAssumption ==
    /\ Rows \in Seq(Nat \ {0})
    /\ \A c \in Catalogs : c.uplinks \subseteq c.ports /\ 0 \notin c.ports /\ IsFiniteSet(c.ports)
    /\ MaxAge \in Nat /\ MaxBytes \in Nat /\ MaxChanges \in Nat /\ MaxPortClock \in Nat

VARIABLES
    catalog,       \* the model of the device
    wire,          \* what the controller knows: uplink row, rows, indexes
    portClock,     \* monotonic time
    portSamples,   \* _port_samples
    portsShown     \* the record of each port

portVars == <<catalog, wire, portClock, portSamples, portsShown>>

NoPort == 0
AllPorts == Range(Rows) \cup UNION {c.ports : c \in Catalogs}

\* row, total, uplink and alone are of the model: the row a sample was taken
\* from, the traffic that row had carried, the uplink of that moment, and whether
\* no other row was taken for the same port.
NoBaseline == [at |-> -1, up |-> FALSE, speed |-> 0, bytes |-> -1,
               row |-> NoPort, total |-> 0, uplink |-> NoPort, alone |-> TRUE]

PortsInit ==
    /\ catalog \in Catalogs
    /\ wire \in [uplink : Range(Rows) \cup {NoPort}, reported : {"indexed"},
                 wired : IF catalog.ap THEN BOOLEAN ELSE {FALSE}, changes : {0},
                 link : {[r \in Range(Rows) |->
                            [up |-> TRUE, speed |-> s, bytes |-> 0, total |-> 0]] : s \in Speeds}]
    /\ portClock = 0
    /\ portSamples = [p \in AllPorts |-> NoBaseline]
    /\ portsShown = <<>>

-----------------------------------------------------------------------------
(* One row. *)

\* The port of the model a row stands for: its own index; for the uplink the one
\* port that can be it, none when several can, its own index when none can.
StaticPort(row) ==
    LET same == IF wire.reported = "indexed" /\ row \in catalog.ports THEN row ELSE NoPort
    IN  IF row # wire.uplink \/ catalog.uplinks = {} THEN same
        ELSE IF Cardinality(catalog.uplinks) = 1 THEN CHOOSE p \in catalog.uplinks : TRUE
        ELSE NoPort

PortOf(row) ==
    IF StaticPort(row) # NoPort THEN StaticPort(row)
    ELSE IF wire.reported = "indexed" THEN row ELSE NoPort

\* Mutant: counters that began again are not noticed.
RateOfAnyCounters(old, new) ==
    /\ old # NoBaseline /\ new.up /\ old.bytes >= 0 /\ new.bytes >= 0
    /\ new.at - old.at \in 1..MaxAge
    /\ new.speed = old.speed /\ new.up = old.up

\* The counters of both samples are known and did not begin again; the link was the
\* same, and the rate is one it could have.
RateOf(old, new) ==
    LET elapsed == new.at - old.at
        rate == (new.bytes - old.bytes) \div elapsed
    IN  /\ old # NoBaseline /\ new.up /\ old.bytes >= 0 /\ new.bytes >= 0
        /\ elapsed > 0 /\ elapsed <= MaxAge
        /\ new.speed = old.speed
        /\ new.up = old.up
        /\ new.bytes >= old.bytes
        /\ new.speed > 0 => rate <= 2 * new.speed

PortRecord(port, old, sample) ==
    [profile |-> port \in catalog.ports, new |-> sample,
     rate |-> IF RateOf(old, sample) THEN <<old>> ELSE <<>>]

RowSample(row) ==
    [at |-> portClock, row |-> row, uplink |-> wire.uplink,
     alone |-> \A other \in Range(Rows) \ {row} : PortOf(other) # PortOf(row),
     up |-> wire.link[row].up, speed |-> wire.link[row].speed,
     bytes |-> wire.link[row].bytes, total |-> wire.link[row].total]

\* A row without counters: a port nobody reported.
EmptySample == [NoBaseline EXCEPT !.at = portClock, !.uplink = wire.uplink]

-----------------------------------------------------------------------------
(* A device.  What a port is left with: a sample, which replaces the one      *)
(* before it whether or not it gives a rate, and the record shown.            *)

\* The places in the table of the rows for a port.
RowsOf(port) ==
    IF wire.reported \in {"indexed", "unindexed"}
    THEN {i \in DOMAIN Rows : PortOf(Rows[i]) = port} ELSE {}

FirstOf(places) == CHOOSE i \in places : \A j \in places : i <= j
LastOf(places) == CHOOSE i \in places : \A j \in places : j <= i

\* Of two rows for one port the record whose text sorts first is kept; the sample of
\* the later one stays, and had that of the other before it.
TableRow(port, keepFirst) ==
    LET places == RowsOf(port)
        kept == IF keepFirst THEN FirstOf(places) ELSE LastOf(places)
        old == IF kept = FirstOf(places) THEN portSamples[port]
               ELSE RowSample(Rows[LastOf({i \in places : i < kept})])
    IN  [sample |-> RowSample(Rows[LastOf(places)]),
         record |-> PortRecord(port, old, RowSample(Rows[kept]))]

\* An access point with one Ethernet port whose rows say no index: the wired
\* uplink of its own record stands for the port.
AccessPointPorts ==
    IF /\ catalog.ap /\ wire.reported \in {"unindexed", "no_table"} /\ wire.wired
       /\ Cardinality(catalog.uplinks) = 1
    THEN catalog.uplinks ELSE {}

\* Without counters there is no rate.
Uncounted(port, sample) ==
    [sample |-> sample, record |-> PortRecord(port, portSamples[port], sample)]

Collected(port, keepFirst) ==
    IF port \in AccessPointPorts THEN Uncounted(port, [EmptySample EXCEPT !.up = TRUE])
    ELSE IF RowsOf(port) # {} THEN TableRow(port, keepFirst)
    ELSE Uncounted(port, EmptySample)

\* The catalogue is the left side of the join: a port without a row has a record
\* without observations, and the next rate has no baseline.
CollectPorts ==
    /\ wire.reported = "absent" => catalog.ports # {}
    /\ \E keepFirst \in BOOLEAN :
          LET shown == catalog.ports \cup {p \in AllPorts : RowsOf(p) # {}}
          IN  /\ portSamples' = [p \in AllPorts |-> IF p \in shown
                                    THEN Collected(p, keepFirst).sample ELSE portSamples[p]]
              /\ portsShown' = [p \in shown |-> Collected(p, keepFirst).record]
    /\ UNCHANGED <<catalog, wire, portClock>>

\* No device is known and no model: no ports are shown.
NoPorts ==
    /\ wire.reported = "absent" /\ catalog.ports = {}
    /\ portsShown' = <<>>
    /\ UNCHANGED <<catalog, wire, portClock, portSamples>>

-----------------------------------------------------------------------------
(* The network. *)

Relink(row, link) == [wire EXCEPT !.link[row] = link]

Change(next) ==
    /\ wire.changes < MaxChanges
    /\ wire' = [next EXCEPT !.changes = @ + 1]
    /\ UNCHANGED <<catalog, portClock, portSamples, portsShown>>

MoveUplink == \E row \in Range(Rows) \cup {NoPort} : Change([wire EXCEPT !.uplink = row])

ChangeReport ==
    \E how \in {"indexed", "unindexed", "no_table", "absent"} \ {wire.reported} :
        Change([wire EXCEPT !.reported = how])

ChangeLink ==
    \E row \in Range(Rows), speed \in Speeds :
        Change(Relink(row, [wire.link[row] EXCEPT !.up = ~@, !.speed = speed]))

ResetCounters == \E row \in Range(Rows) : Change(Relink(row, [wire.link[row] EXCEPT !.bytes = 0]))

Traffic ==
    /\ \E row \in Range(Rows) :
          /\ wire.link[row].up /\ wire.link[row].total < MaxBytes
          /\ wire' = Relink(row, [wire.link[row] EXCEPT !.bytes = @ + 1, !.total = @ + 1])
    /\ UNCHANGED <<catalog, portClock, portSamples, portsShown>>

PortTimePasses ==
    /\ portClock < MaxPortClock
    /\ portClock' = portClock + 1
    /\ UNCHANGED <<catalog, wire, portSamples, portsShown>>

PortsNext ==
    \/ CollectPorts \/ NoPorts
    \/ MoveUplink \/ ChangeReport \/ ChangeLink \/ ResetCounters \/ Traffic \/ PortTimePasses

PortsSpec == PortsInit /\ [][PortsNext]_portVars

-----------------------------------------------------------------------------
\* A rate is never more than what went over one port: it is shown only with the
\* link up at the same speed at both ends of at most an hour, and, unless the
\* uplink was moved in between or two rows were taken for one port, the two
\* counters are those of one row and it carried at least what the rate says
\* (_port_record, src/clients/unifi_api.py).
PortRatesOfOnePort ==
    \A port \in DOMAIN portsShown :
        portsShown[port].rate # <<>> =>
            LET old == portsShown[port].rate[1]
                new == portsShown[port].new
            IN  /\ old.up /\ new.up /\ new.speed = old.speed
                /\ new.at - old.at \in 1..MaxAge
                /\ old.uplink = new.uplink /\ old.alone /\ new.alone =>
                      /\ old.row = new.row
                      /\ new.bytes - old.bytes \in 0..(new.total - old.total)
=============================================================================
