---------------------------- MODULE MCComponents ----------------------------
(* Small instances of components that share no state: the server's rate     *)
(* limiter, the collectors of a client's extension domains and the tools.   *)
(* One runs at a time; the others stay in one of their initial states.      *)
EXTENDS RateLimiter, SmartTransport, StorageInventory, UnifiTelemetry, UnifiApi,
        UnifiPorts, UnifiWans, EasyTierMonitor, LuckyMonitor, HermesExport,
        CredentialRotation, StatsMigration

VARIABLE part

components == <<part, vars, smartVars, storageVars, unifiVars, apiVars, portVars, wanVars,
                easytierVars, luckyVars, hermesVars, rotationVars, migrationVars>>
-----------------------------------------------------------------------------
(* SMART: the disk is healthy; bridges that pass its verdict, give inventory  *)
(* without one, lose the return status, or make up a verdict.                 *)
HealthOfDisk == "passed"

Says(json, text, incomplete, table, values) ==
    [json |-> json, text |-> text, incomplete |-> incomplete,
     table |-> table, values |-> values]
Good == Says("passed", "passed", FALSE, TRUE, "valid")
Bare == Says("bare", "bare", FALSE, FALSE, "valid")
Fallback == Says("none", "passed", TRUE, TRUE, "valid")
MadeUp == Says("failed", "bare", TRUE, FALSE, "nosector")

Bridge(sat, ata, scsi, usb, any) ==
    ("sat" :> sat) @@ ("ata" :> ata) @@ ("scsi" :> scsi) @@ ("usb" :> usb) @@ (AnyType :> any)
BridgeSet == {
    Bridge(NoAnswer, Good, Bare, NoAnswer, Good),
    Bridge(Fallback, NoAnswer, MadeUp, NoAnswer, MadeUp),
    Bridge(MadeUp, MadeUp, NoAnswer, Good, Bare)}
-----------------------------------------------------------------------------
(* Storage: RAID and LVM on partitions and disks, beside NVMe, USB and zram.  *)
Names == <<"a1", "md", "nvme0", "nvme0n1", "sda", "usb1", "vg", "zram0">>
TypeOfNode == [n \in Range(Names) \ {"nvme0"} |->
    CASE n = "a1" -> "part" [] n = "md" -> "raid1" [] n = "vg" -> "lvm"
      [] n \in {"nvme0n1", "sda", "usb1", "zram0"} -> "disk"]
Bus == [n \in DOMAIN TypeOfNode |-> IF n = "usb1" THEN "usb" ELSE "sata"]
Controllers == "nvme0" :> {"nvme0n1"}
LayoutOf(md, vg) ==
    LET stack == [n \in DOMAIN TypeOfNode |->
                    CASE n = "a1" -> {"sda"} [] n = "md" -> md [] n = "vg" -> vg
                      [] n \in {"nvme0n1", "sda", "usb1", "zram0"} -> {}]
        height == [n \in DOMAIN stack |->
                    CASE n = "a1" -> 1 [] n = "md" -> IF "a1" \in md THEN 2 ELSE 1
                      [] n = "vg" -> IF "md" \in vg /\ "a1" \in md THEN 3 ELSE 2
                      [] n \in {"nvme0n1", "sda", "usb1", "zram0"} -> 0]
    IN  [stack |-> stack, height |-> IF "vg" \in md THEN [height EXCEPT !["md"] = 3, !["vg"] = 3]
                                     ELSE height,
         parent |-> [n \in DOMAIN stack |->
             IF stack[n] = {} THEN NoSource ELSE CHOOSE p \in stack[n] : TRUE]]
LayoutSet == {LayoutOf(md, vg) : md \in {{"a1"}, {"a1", "nvme0n1"}, {"nvme0n1", "sda", "usb1"}},
                                 vg \in {{"md"}, {"md", "usb1"}, {"a1", "zram0"}}}
             \cup {LayoutOf({"a1", "vg"}, {"md", "usb1"})}
Mount(source, kind, stats) == [source |-> source, kind |-> kind, stats |-> stats]
ProbeLists == {
    <<>>,
    <<Mount("vg", "ext4", TRUE)>>,
    <<Mount("vg", "btrfs", TRUE), Mount("a1", "ext4", FALSE)>>,
    <<Mount("md", "ext4", TRUE), Mount("usb1", "ext4", TRUE)>>,
    <<Mount(NoSource, "ext4", TRUE)>>,
    <<Mount("vg", "pseudo", TRUE), Mount("md", "absent", TRUE), Mount("zram0", "ext4", TRUE)>>}
Smart(target, health, error) == [target |-> target, health |-> health, error |-> error]
Weaker == "smart_return_status_unavailable"
SmartSets == {
    <<>>,
    <<Smart("sda", "passed", "none")>>,
    <<Smart("nvme0", "passed", "none"), Smart("nvme0n1", "failed", "none")>>,
    <<Smart("nvme0", "none", "smartctl_unavailable"), Smart("sda", "passed", Weaker)>>,
    <<Smart("zram0", "passed", "none"), Smart("sda", "failed", "smart_value_invalid"),
      Smart("usb1", "passed", "none")>>,
    <<Smart("sda", "passed", Weaker), Smart("usb1", "passed", "none")>>}
-----------------------------------------------------------------------------
(* UniFi.  The API asks for clients and, by reference, for the WAN groups.    *)
Delays == <<1, 2>>
SiteRequestList == <<"clients", "wan_enriched">>
Site(named, reference) == [named |-> named, reference |-> reference]
SiteListSet == {<<>>, <<Site(TRUE, TRUE)>>, <<Site(FALSE, TRUE)>>,
                <<Site(TRUE, FALSE), Site(FALSE, TRUE)>>}
ScoreLists == {<<>>, <<0>>, <<10, 2>>, <<2, 2>>}
RowList == <<1, 2>>
Model(ports, uplinks, ap) == [ports |-> ports, uplinks |-> uplinks, ap |-> ap]
WanList == <<"a", "u", "b">>
Identity(id, name, group, interface) ==
    ("id" :> id) @@ ("name" :> name) @@ ("group" :> group) @@ ("interface" :> interface)
Identities == ("a" :> Identity("ida", "wan", "wan", "eth4"))
    @@ ("b" :> Identity("idb", "backup", "wan2", "eth5")) @@ ("u" :> Identity("idu", "udw", "udw", "eth0"))
WanNameSets == {{}, {"name"}, {"id", "name"}, {"group", "interface"}, WanFields}
CatalogSet == {Model({1, 2, 9}, {9}, FALSE), Model({}, {}, FALSE), Model({1}, {1}, TRUE)}
-----------------------------------------------------------------------------
(* EasyTier and Lucky.                                                        *)
CommandList == <<"node_info", "peer_list", "stats_show">>
Peer(own, marked, path, tunnel) ==
    [own |-> own, marked |-> marked, path |-> path, tunnel |-> tunnel]
PeerListSet == {<<Peer(TRUE, FALSE, "unknown", "unknown"), Peer(FALSE, FALSE, "direct", "udp6"),
                  Peer(TRUE, TRUE, "unknown", "unknown"), Peer(FALSE, FALSE, "relayed", "tcp4")>>}
Row(enabled, state, records, claimed, claimedUpdated) ==
    [enabled |-> enabled, state |-> state, listed |-> records # <<>>, records |-> records,
     claimed |-> claimed, claimedUpdated |-> claimedUpdated]
RowSets == {
    <<>>,
    <<Row(TRUE, "running", <<"changed", "unchanged">>, 1, 2),
      Row(FALSE, "no_object", <<>>, -1, -1)>>,
    <<Row(TRUE, "error", <<"error", "changed">>, -1, -1), Row(FALSE, "idle", <<"silent">>, 0, -1),
      Row(TRUE, "running", <<>>, -1, 1)>>}
RuleSets == {<<>>, <<"200", "empty">>, <<"empty", "timeout", "empty", "200">>,
             <<"unreadable", "spoiled">>}
Cert(before, after, broken) == [before |-> before, after |-> after, broken |-> broken]
CertSets == {<<Cert(-5, -1, FALSE), Cert(-5, 2, FALSE), Cert(1, 9, FALSE)>>,
             <<Cert(-5, 9, TRUE), Cert(3, 2, FALSE)>>}
-----------------------------------------------------------------------------
(* Hermes: a profile that answers nothing, refuses the token, answers in part *)
(* or only on its command line, and one whose configuration names a provider. *)
Page(answer, items, more) == [answer |-> answer, items |-> items, more |-> more]
Api(health, jobs, sessions, provider, model) ==
    [address |-> TRUE, enabled |-> {}, token |-> TRUE, health |-> health,
     detailed |-> "404", jobs |-> jobs, sessions |-> sessions, toolsets |-> "timeout",
     jobsUsage |-> 2, sessionsUsage |-> 2, healthUsage |-> -1,
     healthy |-> TRUE, provider |-> provider, model |-> model]
Down == [Api("timeout", "timeout", <<Page("timeout", 0, FALSE)>>, None, None)
            EXCEPT !.enabled = {"no"}]
RefusedToken == Api("refused", "200", <<Page("refused", 0, FALSE)>>, None, None)
Up(provider, model) ==
    Api("200", "500", <<Page("200", 1, TRUE), Page("timeout", 0, FALSE)>>, provider, model)
Cli(found, jobs, sessions, provider, model) ==
    [found |-> found, jobs |-> jobs, sessions |-> sessions, provider |-> provider, model |-> model]
NoCli == Cli(FALSE, FALSE, -1, None, None)
Config(state, provider, model) == [state |-> state, provider |-> provider, model |-> model]
NoConfig == Config("missing", None, None)
Seen(dir, api, cli, logs, configs) ==
    [dir |-> dir, api |-> api, cli |-> cli, logs |-> logs, configs |-> configs, label |-> None]
Log(when, count) == [when |-> when, tokens |-> count]
ObservationSet == {
    Seen(FALSE, Down, NoCli, <<>>, <<>>),
    Seen(TRUE, Down, NoCli,
                 <<Log("yesterday", 2), Log("today", 1), Log("yesterday", 2)>>, <<NoConfig>>),
    Seen(TRUE, RefusedToken, NoCli, <<>>, <<NoConfig, Config("broken", None, None)>>),
    Seen(TRUE, Up("A", "a"), NoCli, <<>>, <<NoConfig>>),
    Seen(TRUE, Down, Cli(TRUE, TRUE, 1, "B", None), <<>>, <<NoConfig>>),
    Seen(TRUE, Up("A", "a"), NoCli, <<>>, <<NoConfig, Config("found", "B", None)>>)}
ProfileLists == {<<"p", "bad", "p", "q">>, <<"q">>, <<>>}
-----------------------------------------------------------------------------
\* Each part in any of its initial states when it runs, else in one of them.
One(set) == CHOOSE x \in set : TRUE
ComponentsInit ==
    /\ part \in {"limiter", "smart", "storage", "unifi", "api", "ports", "wans", "easytier",
                 "lucky", "hermes", "rotation", "migration"}
    /\ Init
    /\ part # "smart" => bridge = [d \in Disks |-> One(BridgeSet)] /\ setup = One(Setups)
    /\ SmartInit
    /\ part # "storage" => host = One(Hosts)
    /\ StorageInit
    /\ UnifiInit
    /\ ApiInit
    /\ part # "ports" => catalog = Model({}, {}, FALSE)
    /\ PortsInit
    /\ part # "ports" => wire.uplink = NoPort
    /\ part # "wans" => said = [e \in Range(WanEndpoints) \ {SpeedTests} |-> {}] /\ tested = {}
    /\ WansInit
    /\ EasyTierInit
    /\ IF part = "lucky" THEN LuckyInit ELSE lucky = "idle" /\ luckyShown = NoLucky
    /\ HermesInit
    /\ RotationInit
    /\ part # "migration" => directory = "there"
    /\ MigrationInit

ComponentsNext ==
    \/ part = "limiter" /\ Next /\ UNCHANGED <<part, smartVars, storageVars, unifiVars, apiVars,
           portVars, wanVars, easytierVars, luckyVars, hermesVars,
           rotationVars, migrationVars>>
    \/ part = "smart" /\ SmartNext /\ UNCHANGED <<part, vars, storageVars, unifiVars, apiVars,
           portVars, wanVars, easytierVars, luckyVars, hermesVars,
           rotationVars, migrationVars>>
    \/ part = "storage" /\ StorageNext /\ UNCHANGED <<part, vars, smartVars, unifiVars, apiVars,
           portVars, wanVars, easytierVars, luckyVars, hermesVars,
           rotationVars, migrationVars>>
    \/ part = "unifi" /\ UnifiNext /\ UNCHANGED <<part, vars, smartVars, storageVars, apiVars,
           portVars, wanVars, easytierVars, luckyVars, hermesVars,
           rotationVars, migrationVars>>
    \/ part = "api" /\ ApiNext /\ UNCHANGED <<part, vars, smartVars, storageVars, unifiVars,
           portVars, wanVars, easytierVars, luckyVars, hermesVars,
           rotationVars, migrationVars>>
    \/ part = "ports" /\ PortsNext /\ UNCHANGED <<part, vars, smartVars, storageVars, unifiVars,
           apiVars, wanVars, easytierVars, luckyVars, hermesVars,
           rotationVars, migrationVars>>
    \/ part = "wans" /\ MergeWan /\ UNCHANGED <<part, vars, smartVars, storageVars, unifiVars,
           apiVars, portVars, easytierVars, luckyVars, hermesVars,
           rotationVars, migrationVars>>
    \/ part = "easytier" /\ EasyTierNext /\ UNCHANGED <<part, vars, smartVars, storageVars, unifiVars,
           apiVars, portVars, wanVars, luckyVars, hermesVars,
           rotationVars, migrationVars>>
    \/ part = "lucky" /\ CollectLucky /\ UNCHANGED <<part, vars, smartVars, storageVars, unifiVars,
           apiVars, portVars, wanVars, easytierVars, hermesVars,
           rotationVars, migrationVars>>
    \/ part = "hermes" /\ HermesNext /\ UNCHANGED <<part, vars, smartVars, storageVars, unifiVars,
           apiVars, portVars, wanVars, easytierVars, luckyVars,
           rotationVars, migrationVars>>
    \/ part = "rotation" /\ RotationNext /\ UNCHANGED <<part, vars, smartVars, storageVars, unifiVars,
           apiVars, portVars, wanVars, easytierVars, luckyVars,
           hermesVars, migrationVars>>
    \/ part = "migration" /\ MigrationNext /\ UNCHANGED <<part, vars, smartVars, storageVars, unifiVars,
           apiVars, portVars, wanVars, easytierVars, luckyVars,
           hermesVars, rotationVars>>

ComponentsSpec == ComponentsInit /\ [][ComponentsNext]_components
=============================================================================
