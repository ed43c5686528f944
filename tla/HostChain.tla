----------------------------- MODULE HostChain -----------------------------
(***************************************************************************)
(* The chained plugins that change the host: portmap, firewall and         *)
(* bandwidth, run by a runtime for several attachments at once.            *)
(***************************************************************************)
EXTENDS Portmap, Firewall, Bandwidth

vars == <<chainVars, tables, portmapVars, firewallVars, ifbs>>

Init ==
    /\ ChainInit
    /\ IptInit
    /\ PortmapInit
    /\ FirewallInit
    /\ firewalld => Contains(chain, "firewall")     \* else nobody asks
    /\ BandwidthInit

RuntimeStep(a) == Runtime(a) /\ UNCHANGED <<tables, portmapVars, firewallVars, ifbs>>

PluginStep(a) ==
    \/ Running(a, "portmap") /\ PortmapStep(a) /\ UNCHANGED <<firewallVars, ifbs>>
    \/ Running(a, "firewall") /\ FirewallStep(a) /\ UNCHANGED <<portmapVars, ifbs>>
    \/ Running(a, "bandwidth") /\ BandwidthStep(a) /\ UNCHANGED <<tables, portmapVars, firewallVars>>

(* Traffic matters where ports are mapped. *)
Traffic(f, p) ==
    /\ Contains(chain, "portmap")
    /\ NewFlow(f, p) \/ FlowExpires(f, p)
    /\ UNCHANGED <<firewallVars, ifbs>>

Next ==
    \/ \E a \in Att : RuntimeStep(a) \/ PluginStep(a)
    \/ \E f \in Usable, p \in UdpPorts : Traffic(f, p)

Spec == Init /\ [][Next]_vars
=============================================================================
