------------------------------ MODULE UnifiWans ------------------------------
(***************************************************************************)
(* The WANs of a UniFi gateway, put together from what the endpoints of    *)
(* its controller say of them (_merge_wans of src/clients/unifi_api.py).   *)
(* Each names a WAN by some of its id, its name, its network group and its *)
(* interface; speed tests come from requests made for one group at a time, *)
(* and devices that are no WAN are listed in between.  The records are     *)
(* merged one by one: a record joins the first row it shares a name with.  *)
(***************************************************************************)
EXTENDS Integers, Sequences, Functions

CONSTANTS
    Wans,           \* the WANs and the devices listed with them, in order
    Devices,        \* those that are no WAN
    IdentityOf,     \* for each the value of its id, name, group and interface
    GatewayNames,   \* values that begin with wan, internet or pppoe
    RoleNames,      \* values such as primary or backup
    NameSets,       \* what an endpoint may name its records by; {}: no answer
    MaxWans         \* MAX_API_WANS

WanFields == {"id", "name", "group", "interface"}

\* No two WANs, nor a WAN and a device, are known by one value, or the code could not
\* tell them apart; and no device by the name of a WAN.
ASSUME WansAssumption ==
    /\ Wans \in Seq(Range(Wans)) /\ Devices \subseteq Range(Wans)
    /\ \A w \in Range(Wans) : DOMAIN IdentityOf[w] = WanFields
    /\ \A v, w \in Range(Wans) : v # w => Range(IdentityOf[v]) \cap Range(IdentityOf[w]) = {}
    /\ \A d \in Devices : Range(IdentityOf[d]) \cap (GatewayNames \cup RoleNames) = {}
    /\ NameSets \subseteq SUBSET WanFields
    /\ MaxWans \in Nat

VARIABLES
    said,           \* endpoint -> the kinds of names its records carry
    tested,         \* groups whose speed tests were answered
    unmerged,       \* records still to be merged, by where they are listed
    wanRows         \* merged: [names, of], of being history

wanVars == <<said, tested, unmerged, wanRows>>

WanEndpoints == <<"wan_official", "wan_enriched", "wan_isp_status", "wan_load_balance", "devices">>
SpeedTests == "wan_isp_status"

-----------------------------------------------------------------------------
(* Records. *)

\* A record names itself by some fields; one of an ISP says it by other fields too.
WanRecord(w, names, isp) == [of |-> w, names |-> names, isp |-> isp]
NamedBy(w, fields) == [f \in fields |-> IdentityOf[w][f]]

\* The group a WAN's speed tests are asked for: what the enriched record has of
\* group, id and name, in that order.
NetworkGroup(w) ==
    LET f == CHOOSE f \in WanFields :
                \/ f = "group" /\ "group" \in said["wan_enriched"]
                \/ f = "id" /\ "id" \in said["wan_enriched"] /\ "group" \notin said["wan_enriched"]
                \/ f = "name" /\ said["wan_enriched"] \cap {"group", "id"} = {}
    IN  IdentityOf[w][f]

AskedFor == {w \in Range(Wans) \ Devices :
                said["wan_enriched"] \cap {"group", "id", "name"} # {}}

\* Whether an endpoint has a record of w; devices are listed by all but the first.
ListedBy(w, endpoint) ==
    IF endpoint = SpeedTests THEN w \in AskedFor /\ NetworkGroup(w) \in tested
    ELSE said[endpoint] # {} /\ (w \in Devices => endpoint # "wan_official")

\* A speed test names no WAN; the request's group is put in its place.
RecordOf(w, endpoint) ==
    IF endpoint = SpeedTests THEN WanRecord(w, [f \in {"group"} |-> NetworkGroup(w)], TRUE)
    ELSE WanRecord(w, NamedBy(w, said[endpoint]), endpoint = "devices")

\* Where there are records: <<endpoint, place in its list>>, one endpoint after another.
AllRecords ==
    {p \in (DOMAIN WanEndpoints) \X (DOMAIN Wans) : ListedBy(Wans[p[2]], WanEndpoints[p[1]])}
Earlier(p, q) == p[1] < q[1] \/ (p[1] = q[1] /\ p[2] < q[2])

\* A WAN's name says so; a friendly one does beside an ISP or a speed test.
IsGatewayWan(r) ==
    \/ Range(r.names) \cap GatewayNames # {}
    \/ r.isp /\ Range(r.names) \cap RoleNames # {}

-----------------------------------------------------------------------------
(* Merging. *)

\* Mutant: an id is compared with ids only, a group with groups.
SameNameByField(row, r) ==
    \E f \in DOMAIN row.names \cap DOMAIN r.names : row.names[f] = r.names[f]

SameName(row, r) == Range(row.names) \cap Range(r.names) # {}

\* The names a row has stay; what is measured is of the last record.
Joined(row, r) ==
    [names |-> [f \in DOMAIN row.names \cup DOMAIN r.names |->
                  IF f \in DOMAIN row.names THEN row.names[f] ELSE r.names[f]],
     of |-> row.of \cup {r.of}]

Merged(rows, r) ==
    IF \E i \in DOMAIN rows : SameName(rows[i], r)
    THEN LET first == CHOOSE i \in DOMAIN rows :
                        /\ SameName(rows[i], r)
                        /\ \A j \in 1..(i - 1) : ~SameName(rows[j], r)
         IN  [rows EXCEPT ![first] = Joined(@, r)]
    ELSE Append(rows, [names |-> r.names, of |-> {r.of}])

WansInit ==
    /\ said \in [Range(WanEndpoints) \ {SpeedTests} -> NameSets]
    /\ tested \in SUBSET {NetworkGroup(w) : w \in AskedFor}
    /\ unmerged = AllRecords
    /\ wanRows = <<>>

MergeWan ==
    \E p \in unmerged :
        /\ \A q \in unmerged \ {p} : Earlier(p, q)
        /\ unmerged' = unmerged \ {p}
        /\ LET r == RecordOf(Wans[p[2]], WanEndpoints[p[1]]) IN
           wanRows' = IF IsGatewayWan(r) THEN Merged(wanRows, r) ELSE wanRows
        /\ UNCHANGED <<said, tested>>

WansSpec == WansInit /\ [][MergeWan]_wanVars

WansShown == SubSeq(wanRows, 1, IF Len(wanRows) < MaxWans THEN Len(wanRows) ELSE MaxWans)

-----------------------------------------------------------------------------
\* The records that pass for a WAN's, and what the first of them names it by.
GatewayRecords(w) ==
    {e \in DOMAIN WanEndpoints : ListedBy(w, WanEndpoints[e])
                                  /\ IsGatewayWan(RecordOf(w, WanEndpoints[e]))}
NamesIn(w, e) == Range(RecordOf(w, WanEndpoints[e]).names)
SteadilyNamed(w) ==
    \E first \in GatewayRecords(w) :
        \A e \in GatewayRecords(w) : first <= e /\ NamesIn(w, e) \subseteq NamesIn(w, first)

\* What is measured of one WAN, its speed tests above all, is never shown of another
\* WAN or of a device; and a WAN that the first endpoint to list it names by
\* everything it is named by later has one row, whichever endpoints answered
\* (docs/design/UNIFI_MONITORING.md:26, _merge_wans of src/clients/unifi_api.py).
WansKeptApart ==
    /\ \A row \in Range(WansShown) : \E w \in Range(Wans) \ Devices : row.of = {w}
    /\ unmerged = {} =>
          \A w \in Range(Wans) \ Devices :
              SteadilyNamed(w) => \E i \in DOMAIN wanRows :
                                     {j \in DOMAIN wanRows : wanRows[j].of = {w}} = {i}
=============================================================================
