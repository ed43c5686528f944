----------------------------- MODULE MCCluster -----------------------------
(* The two parts of the system that the nodes share: the records in etcd    *)
(* and the ConfigMap of addresses.  They have no state in common, so a      *)
(* behaviour explores one of them while the other rests.                    *)
EXTENDS NodeRoutes, VillageIpam

CONSTANTS c1, c2, c3

VARIABLE part   \* the part that the behaviour is about

vars == <<nodeVars, ipamVars, part>>

MCContainer == {c1, c2, c3}

(* Two free addresses in the first range, one, or none, in the second.      *)
MCInterfaces == <<[first |-> 4, last |-> 6], [first |-> 9, last |-> 9]>>

Init ==
    /\ NodeInit
    /\ IpamInit
    /\ \/ part = "routes"
       \/ /\ part = "addresses"
          /\ \A n, m \in Node : podCIDR[n] /\ addr[n] = addr[m]

Next ==
    \/ part = "routes" /\ NodeNext /\ UNCHANGED <<ipamVars, part>>
    \/ part = "addresses" /\ IpamNext /\ UNCHANGED <<nodeVars, part>>

Spec == Init /\ [][Next]_vars
=============================================================================
