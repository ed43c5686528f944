----------------------------- MODULE NetnsChain -----------------------------
(***************************************************************************)
(* The chained plugins that change the network namespace of a container,   *)
(* tuning, vrf and sbr, run for the attachments of one container.          *)
(***************************************************************************)
EXTENDS Tuning, Vrf, Sbr

\* The interfaces of a namespace, as far as the plugins change them.
Routes == Nat \X {4, 6} \X STRING
Links ==
    [mac : STRING, mtu : Nat, promisc : BOOLEAN, master : STRING,
     v6 : SUBSET STRING, routes : SUBSET Routes]

\* The main plugin's interface has an address and an MTU, and no master.
ASSUME FreshAssumption ==
    /\ Fresh \in [Att -> Links]
    /\ NoLink \notin Links
    /\ \A a \in Att : Fresh[a].mac # "" /\ Fresh[a].mtu # 0 /\ Fresh[a].master = "none"

\* What the provers do not know of strings.
ASSUME StringAssumption == {"", "none", "default"} \subseteq STRING

vars == <<chainVars, tuningVars, vrfVars, rules>>

Init ==
    /\ ChainInit
    /\ TuningInit
    /\ VrfInit
    /\ SbrInit

RuntimeStep(a) == Runtime(a) /\ UNCHANGED <<tuningVars, vrfVars, rules>>

PluginStep(a) ==
    \/ Running(a, "tuning") /\ TuningStep(a) /\ UNCHANGED <<vrfVars, rules>>
    \/ Running(a, "vrf") /\ VrfStep(a) /\ UNCHANGED <<tuningVars, rules>>
    \/ Running(a, "sbr") /\ SbrStep(a) /\ UNCHANGED <<tuningVars, vrfVars>>

Next == \E a \in Att : RuntimeStep(a) \/ PluginStep(a)

Spec == Init /\ [][Next]_vars
=============================================================================
