------------------------------ MODULE MCClients ------------------------------
(* The client's three independent concurrent parts, one at a time: the runner *)
(* that reports, the monitor threads and the extension collectors.  They share*)
(* no state the others test; the parts that idle stay in an initial state.    *)
EXTENDS DeviceClient, ClientMonitors, HostExtensions

VARIABLE part

clients == <<part, clientVars, monitorVars, extensionVars>>

\* The client's clock is right, or ahead or behind by most of the skew allowed.
ClockOffsets == {-2, 0, 3}

\* Two of the domains, and both may be switched off.
TwoDomains == <<"hardware", "hermes">>

\* Everything is switched off while another part runs.
IdleExtensions == ExtensionInit /\ enabled = {}
IdleClient == ClientInit /\ offset = 0

Init ==
    \/ part = "runner" /\ ClientInit /\ MonitorInit /\ IdleExtensions
    \/ part = "monitors" /\ IdleClient /\ MonitorInit /\ IdleExtensions
    \/ part = "extensions" /\ IdleClient /\ MonitorInit /\ ExtensionInit

Next ==
    \/ part = "runner" /\ ClientNext /\ UNCHANGED <<part, monitorVars, extensionVars>>
    \/ part = "monitors" /\ MonitorNext /\ UNCHANGED <<part, clientVars, extensionVars>>
    \/ part = "extensions" /\ ExtensionNext /\ UNCHANGED <<part, clientVars, monitorVars>>

\* The fairness of each part, which asks nothing of the parts that idle.  The
\* process runs: stop.wait, the sockets' timeouts, a monitor's sleep and its
\* connection, every command and every interval of a collector come to an end.
\* The network and the server answer once they are calm.
FairSpec ==
    /\ Init /\ [][Next]_clients
    /\ WF_clientVars(part = "runner" /\ Tick)
    /\ WF_clientVars(part = "runner" /\ Send)
    /\ WF_clientVars(part = "runner" /\ Serve)
    /\ WF_clientVars(part = "runner" /\ Receive)
    /\ WF_clientVars(part = "runner" /\ GiveUp)
    /\ WF_clientVars(part = "runner" /\ CalmDown)
    /\ \A n \in Names, target \in Targets, g \in 1..MaxGeneration :
         WF_monitorVars(part = "monitors" /\ \E at \in {"top", "probe"} :
                        Works([name |-> n, target |-> target, generation |-> g, at |-> at]))
    /\ WF_extensionVars(part = "extensions" /\ SkipDisabled)
    /\ \A d \in Domains : WF_extensionVars(part = "extensions" /\ ExtensionStep(d))
=============================================================================
