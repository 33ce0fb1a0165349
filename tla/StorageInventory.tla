-------------------------- MODULE StorageInventory --------------------------
(***************************************************************************)
(* The storage part of a hardware report (src/clients/host_collector.py):  *)
(* the graph of block devices, the disks behind each configured file       *)
(* system, the bounded list of physical disks, and the summary.  File      *)
(* systems are taken in order; for each the graph is walked, one device a  *)
(* step.  The last step assembles the report.  The server refuses a report *)
(* with a relation to an unlisted disk.                                    *)
(***************************************************************************)
EXTENDS Integers, Sequences, FiniteSets, Functions

CONSTANTS
    NameOrder,    \* names of block devices and controllers, sorted
    NodeType,     \* "disk", "part", "raid", "lvm", ... of each block device
    Transport,    \* "usb" or another bus
    Volatile,     \* memory disks (zram), never reported
    BootMedia,    \* the Synology boot disk
    Namespaces,   \* controller |-> the disks it exposes
    Layouts,      \* [stack, parent, height]: what each node is built on, the one
                  \* device lsblk names as its parent, and how high it stands
    Probes,       \* lists of configured file systems
    SmartLists,   \* lists of SMART records
    MaxDisks,     \* MAX_PHYSICAL_DISKS
    MaxBacking,   \* MAX_FILESYSTEM_BACKING_DISKS
    MaxDepth      \* MAX_BLOCK_GRAPH_DEPTH

Nodes == DOMAIN NodeType
NoSource == "none"

\* lsblk names one of the devices a node is built on; a partition is built on one at
\* most.  A node stands higher than what it is built on; in a cycle, or where a stack
\* is too high for the walk, the height is only known to be more than MaxDepth.
ASSUME StorageAssumption ==
    /\ NameOrder \in Seq(Range(NameOrder))
    /\ \A i, j \in DOMAIN NameOrder : NameOrder[i] = NameOrder[j] => i = j
    /\ Nodes \subseteq Range(NameOrder) /\ NoSource \notin Nodes
    /\ \A l \in Layouts :
          /\ l.stack \in [Nodes -> SUBSET Nodes]
          /\ l.height \in [Nodes -> Nat]
          /\ \A n \in Nodes :
                /\ IF l.stack[n] = {} THEN l.parent[n] = NoSource ELSE l.parent[n] \in l.stack[n]
                /\ NodeType[n] = "part" => l.stack[n] \subseteq {l.parent[n]}
                /\ l.height[n] <= MaxDepth => \A m \in l.stack[n] : l.height[m] < l.height[n]
    /\ \A list \in Probes : list \in Seq(Range(list))
    /\ \A list \in SmartLists :
          list \in Seq(Range(list)) /\ \A r \in Range(list) : r.target \in Range(NameOrder)
    /\ MaxDisks \in Nat /\ MaxBacking \in Nat /\ MaxDepth \in Nat

VARIABLES
    host,         \* what the commands say
    walk,         \* the walk below a file system's source
    filesystems,  \* those collected so far
    storage       \* the report, or NoReport

storageVars == <<host, walk, filesystems, storage>>

NoWalk == [running |-> FALSE, pending |-> <<>>, visited |-> {}, physical |-> {}]
NoReport == [disks |-> <<>>, filesystems |-> <<>>, error |-> "not_reported"]

-----------------------------------------------------------------------------
(* Lists cut at a limit, as sets: the first of a set in an order. *)

ByName == {<<NameOrder[p[1]], NameOrder[p[2]]>> :
              p \in {q \in (DOMAIN NameOrder) \X (DOMAIN NameOrder) : q[1] < q[2]}}
Foremost(order, set, limit) ==
    {d \in set : Cardinality({c \in set : <<c, d>> \in order}) < limit}

-----------------------------------------------------------------------------
(* The graph of block devices. *)

\* sysfs names all the devices a node is built on, when it is visible; lsblk
\* names one parent.  A partition has a parent and no slaves.
Slaves(n) ==
    IF host.sysfs /\ NodeType[n] # "part" THEN host.layout.stack[n] ELSE {}

\* Mutant: the one parent lsblk names.
NextNodesOfLsblk(n) == {host.layout.parent[n]} \cap Nodes

NextNodes(n) ==
    IF Slaves(n) # {} THEN Slaves(n) ELSE {host.layout.parent[n]} \cap Nodes

Listed == IF host.lsblk THEN Nodes ELSE {}

\* The devices still to be visited: what each visited one led to is pushed together,
\* and the last name of what was pushed last is taken first.
Pushed(names, depth) == [names |-> names, depth |-> depth]
Top == walk.pending[Len(walk.pending)]
IsNext(name) == name \in Top.names /\ \A n \in Top.names \ {name} : <<n, name>> \in ByName
Without(name) ==
    LET below == SubSeq(walk.pending, 1, Len(walk.pending) - 1)
    IN  IF Top.names = {name} THEN below
        ELSE Append(below, Pushed(Top.names \ {name}, Top.depth))

Skip(name) ==
    /\ name \in walk.visited \/ Top.depth > MaxDepth
    /\ walk' = [walk EXCEPT !.pending = Without(name)]

FindDisk(name) ==
    /\ name \notin walk.visited /\ Top.depth <= MaxDepth
    /\ NodeType[name] = "disk"
    /\ walk' = [walk EXCEPT !.pending = Without(name), !.visited = @ \cup {name},
                            !.physical = @ \cup {name}]

GoDeeper(name) ==
    /\ name \notin walk.visited /\ Top.depth <= MaxDepth
    /\ NodeType[name] # "disk"
    /\ walk' = [walk EXCEPT !.visited = @ \cup {name},
           !.pending = IF NextNodes(name) = {} THEN Without(name)
                       ELSE Append(Without(name), Pushed(NextNodes(name), Top.depth + 1))]

\* One turn of the loop.  A graph has no more nodes than the walk may visit.
VisitDevice ==
    /\ walk.running /\ walk.pending # <<>>
    /\ \E name \in Top.names : IsNext(name) /\ (Skip(name) \/ FindDisk(name) \/ GoDeeper(name))
    /\ UNCHANGED <<host, filesystems, storage>>

-----------------------------------------------------------------------------
(* File systems. *)

MoreProbes == Len(filesystems) < Len(host.probes)
ThisProbe == host.probes[Len(filesystems) + 1]

\* probe.kind is what findmnt says: a type of file system, or nothing.
SourceOf(probe) == IF probe.kind = "absent" THEN NoSource ELSE probe.source

CollectFilesystem(probe, backing) ==
    LET usable == probe.kind \notin {"absent", "pseudo"}
    IN  [backing |-> backing,
         source |-> SourceOf(probe),
         healthy |-> usable /\ probe.stats,
         error |-> IF ~usable THEN "filesystem_unavailable"
                   ELSE IF ~probe.stats THEN "filesystem_probe_unavailable"
                   ELSE "none"]

\* The one source findmnt names for a btrfs says nothing of its other members.
ProbeFilesystem ==
    /\ ~walk.running /\ MoreProbes
    /\ IF ThisProbe.kind # "btrfs" /\ SourceOf(ThisProbe) \in Listed
       THEN /\ walk' = [NoWalk EXCEPT !.running = TRUE,
                                      !.pending = <<Pushed({SourceOf(ThisProbe)}, 0)>>]
            /\ UNCHANGED filesystems
       ELSE /\ filesystems' = Append(filesystems, CollectFilesystem(ThisProbe, {}))
            /\ UNCHANGED walk
    /\ UNCHANGED <<host, storage>>

FinishFilesystem ==
    /\ walk.running /\ walk.pending = <<>>
    /\ filesystems' = Append(filesystems,
          CollectFilesystem(ThisProbe, Foremost(ByName, walk.physical, MaxBacking)))
    /\ walk' = NoWalk
    /\ UNCHANGED <<host, storage>>

-----------------------------------------------------------------------------
(* Physical disks. *)

\* A controller stands for its disk only when it has exactly one.
TopologyDiskId(target) ==
    IF target \in Listed \/ target \notin DOMAIN Namespaces THEN target
    ELSE IF Cardinality(Namespaces[target] \cap Listed) = 1
    THEN CHOOSE d \in Namespaces[target] \cap Listed : TRUE
    ELSE target

\* The first record of a disk counts.
RecordsOf(id) == {i \in DOMAIN host.smart : TopologyDiskId(host.smart[i].target) = id}
SmartIds == {TopologyDiskId(host.smart[i].target) : i \in DOMAIN host.smart}
SmartPlace(id) == CHOOSE i \in RecordsOf(id) : \A j \in RecordsOf(id) : i <= j
SmartOf(id) == host.smart[SmartPlace(id)]

ListedDisk(n) == n \in Listed /\ NodeType[n] = "disk" /\ n \notin Volatile

\* Disks of the file systems, by the first that has it.
Holders(n) == {i \in DOMAIN filesystems : n \in filesystems[i].backing}
Related == {n \in Listed : ListedDisk(n) /\ Holders(n) # {}}
FilesystemPlace(n) == CHOOSE i \in Holders(n) : \A j \in Holders(n) : i <= j

\* Beside an allowlist of SMART targets only removable and boot disks are shown.
InInventory(n) ==
    /\ ListedDisk(n)
    /\ host.mode = "allowlist" => n \in BootMedia \/ Transport[n] = "usb"

Selectable == (SmartIds \ Volatile) \cup Related \cup {n \in Listed : InInventory(n)}

\* Mutant: the disks of file systems come last.
ReportPlaceRelatedLast(id) ==
    CASE id \in SmartIds -> <<1, SmartPlace(id)>>
      [] id \in Selectable \ SmartIds -> <<2, 0>>

\* SMART targets come first, then the disks of file systems, then the others, which
\* lsblk lists by their names.
ReportPlace(id) ==
    CASE id \in SmartIds -> <<1, SmartPlace(id)>>
      [] id \in Related \ SmartIds -> <<2, FilesystemPlace(id)>>
      [] id \in Selectable \ (SmartIds \cup Related) -> <<3, 0>>

ReportOrder ==
    {p \in Selectable \X Selectable :
        LET a == ReportPlace(p[1])
            b == ReportPlace(p[2])
        IN  \/ a[1] < b[1] \/ (a[1] = b[1] /\ a[2] < b[2])
            \/ a = b /\ p \in ByName}

PhysicalDiskIds == Foremost(ReportOrder, Selectable, MaxDisks)

SmartCollectionStatus(record) ==
    IF record.health = "none" THEN "unavailable"
    ELSE IF record.error = "none" THEN "healthy"
    ELSE IF record.error = "smart_return_status_unavailable" THEN "partial"
    ELSE "invalid_data"

PhysicalDiskRecord(id) ==
    IF id \in SmartIds
    THEN [status |-> SmartCollectionStatus(SmartOf(id)),
          health |-> IF SmartOf(id).health = "none" THEN "unknown" ELSE SmartOf(id).health]
    ELSE [status |-> "unsupported", health |-> "unknown"]

StorageSummary(disks) ==
    LET Counted(healths) == Cardinality({d \in DOMAIN disks : disks[d].health \in healths})
        verdicts == {"passed", "failed"}
    IN  [count |-> Cardinality(DOMAIN disks), passed |-> Counted({"passed"}),
         failed |-> Counted({"failed"}),
         unknown |-> Cardinality(DOMAIN disks) - Counted(verdicts)]

\* One verdict for the host: any failure, or all passed.
AggregateSmartStatus ==
    IF \E i \in DOMAIN host.smart : host.smart[i].health = "failed" THEN "failed"
    ELSE IF /\ host.smart # <<>>
            /\ \A i \in DOMAIN host.smart :
                  /\ host.smart[i].health = "passed"
                  /\ host.smart[i].error \in {"none", "smart_return_status_unavailable"}
    THEN "passed" ELSE "unknown"

\* The one old client reads: the primary disk, or the only one.
LegacySmartRecord ==
    LET read == {i \in DOMAIN host.smart : host.smart[i].health # "none"}
        chosen == IF host.primary = NoSource
                  THEN IF Cardinality(read) = 1 THEN read ELSE {}
                  ELSE {i \in read : host.smart[i].target = host.primary}
    IN  IF chosen = {} THEN NoSource
        ELSE host.smart[CHOOSE i \in chosen : \A j \in chosen : i <= j].target

SelectError(errors) ==
    LET real == {i \in DOMAIN errors : errors[i] # "none"}
    IN  IF real = {} THEN "none"
        ELSE IF Cardinality(real) = 1 THEN errors[CHOOSE i \in real : TRUE]
        ELSE "partial_failure"

\* A weaker kind of verdict is no failure of the domain.
SmartError ==
    IF host.smart = <<>>
    THEN IF host.mode = "auto" THEN "smartctl_unavailable" ELSE "none"
    ELSE SelectError([i \in DOMAIN host.smart |->
            IF host.smart[i].error = "smart_return_status_unavailable"
            THEN "none" ELSE host.smart[i].error])

-----------------------------------------------------------------------------

Hosts ==
    {h \in [lsblk : BOOLEAN, sysfs : BOOLEAN, layout : Layouts, probes : Probes,
            smart : SmartLists, mode : {"auto", "allowlist", "disabled"},
            primary : {NoSource} \cup DOMAIN Namespaces] :
        \* an allowlist names at least one target; an empty list disables SMART
        /\ h.mode = "allowlist" => h.smart # <<>>
        /\ h.mode = "disabled" => h.smart = <<>>
        /\ h.lsblk \/ ~h.sysfs}

StorageInit == host \in Hosts /\ walk = NoWalk /\ filesystems = <<>> /\ storage = NoReport

\* A disk's record by its id: the list is sorted by it.
CollectHardware ==
    /\ storage = NoReport /\ ~walk.running /\ ~MoreProbes
    /\ LET disks == [id \in PhysicalDiskIds |-> PhysicalDiskRecord(id)]
           fserrors == SelectError([i \in DOMAIN filesystems |-> filesystems[i].error])
           graph == IF host.lsblk THEN "none" ELSE "block_graph_unavailable"
       IN  storage' =
             [disks |-> disks,
              filesystems |-> [i \in DOMAIN filesystems |->
                 [filesystems[i] EXCEPT !.backing = @ \cap DOMAIN disks]],
              summary |-> StorageSummary(disks),
              aggregate |-> AggregateSmartStatus,
              legacy |-> LegacySmartRecord,
              error |-> SelectError(<<SmartError, graph, fserrors>>)]
    /\ UNCHANGED <<host, walk, filesystems>>

StorageNext == ProbeFilesystem \/ VisitDevice \/ FinishFilesystem \/ CollectHardware

StorageSpec == StorageInit /\ [][StorageNext]_storageVars

-----------------------------------------------------------------------------

\* The disks below a device: those in every set closed under what its members
\* are built on, as far as the first disk.
Below(layout, source) ==
    {n \in Nodes : /\ NodeType[n] = "disk"
                   /\ \A set \in SUBSET Nodes :
                         /\ source \in set
                         /\ \A m \in set : NodeType[m] # "disk" => layout.stack[m] \subseteq set
                         => n \in set}

Shown == DOMAIN storage.disks

\* No disk is shown for a file system that is not below it.  Where the kernel shows
\* what devices are built on, the disks shown are all the disks below that are shown
\* at all, through any stack of RAID, LVM and mapped devices within the depth of the
\* walk and the limit on the disks of one file system, btrfs apart: such a file system is
\* never shown on one member only of its array
\* (resolve_backing_physical_disks of src/clients/host_collector.py).
BackingIsComplete ==
    storage # NoReport =>
        \A i \in DOMAIN storage.filesystems :
            LET f == storage.filesystems[i] IN
            /\ f.backing \subseteq Below(host.layout, f.source)
            /\ /\ host.sysfs /\ f.source \in Nodes
               /\ host.probes[i].kind # "btrfs"
               /\ host.layout.height[f.source] <= MaxDepth
               /\ Cardinality(Below(host.layout, f.source)) <= MaxBacking
               => f.backing = Below(host.layout, f.source) \cap Shown

\* Every relation is to a listed disk; the list is within its limit, which cuts a
\* SMART target only when other targets fill it and a disk of a configured file system
\* only when targets and other such disks do; beside an allowlist nothing internal is
\* listed unasked (_physical_disk_ids_for_report of src/clients/host_collector.py).
InventoryWithinBounds ==
    storage # NoReport =>
        /\ \A i \in DOMAIN storage.filesystems : storage.filesystems[i].backing \subseteq Shown
        /\ Cardinality(Shown) <= MaxDisks
        /\ \A d \in SmartIds \ (Shown \cup Volatile) :
              Cardinality(Shown) = MaxDisks /\ Shown \subseteq SmartIds
        /\ \A d \in Related \ Shown :
              Cardinality(Shown) = MaxDisks /\ Shown \subseteq SmartIds \cup Related
        /\ host.mode = "allowlist" =>
              \A d \in Shown : d \in SmartIds \cup Related \cup BootMedia \/ Transport[d] = "usb"

=============================================================================
