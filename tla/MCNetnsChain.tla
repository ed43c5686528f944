---------------------------- MODULE MCNetnsChain ----------------------------
(* Two interfaces of one container.  The one of a1 is tuned in every        *)
(* attribute; where tuning is the only plugin, it was there before and      *)
(* stays.                                                                   *)
EXTENDS NetnsChain

CONSTANTS a1, a2, i1, i2

MCAtt == {a1, a2}
MCIPs == {i1, i2}
MCFresh ==
    [a \in MCAtt |-> [mac |-> "m0", mtu |-> 1500, promisc |-> FALSE,
                      master |-> "none", v6 |-> IF a = a1 THEN {"v6"} ELSE {"v6", "ula"},
                      routes |-> {<<254, 4, "subnet">>, <<254, 6, "link-local">>} \cup
                                 IF a = a2 THEN {<<254, 4, "default">>} ELSE {}]]
MCChains == {<<"tuning">>, <<"tuning", "vrf">>, <<"sbr">>}
MCPersistent == {<<<<"tuning">>, a1>>}

MCMayFail == {<<"tuning", "add">>, <<"vrf", "add">>, <<"vrf", "del">>,
              <<"sbr", "add">>, <<"sbr", "del">>}

MCTuningConf ==
    [a \in MCAtt |->
        IF a = a1
        THEN [mac |-> "m1", mtu |-> 1400, promisc |-> TRUE,
              sysctl |-> [k \in {"net.one", "net.two"} |-> "1"]]
        ELSE [mac |-> "", mtu |-> 0, promisc |-> FALSE,
              sysctl |-> [k \in {"net.three"} |-> "1"]]]

VrfOf(n1, t1, n2, t2) ==
    [a \in MCAtt |-> IF a = a1 THEN [vrfname |-> n1, table |-> t1]
                     ELSE [vrfname |-> n2, table |-> t2]]

MCVrfConfs == {VrfOf("red", 0, "red", 0), VrfOf("red", 0, "blue", 0), VrfOf("red", 0, "red", 2)}

MCSbrIPs ==
    [a \in MCAtt |-> IF a = a1
                     THEN {[version |-> 4, if |-> "own"], [version |-> 6, if |-> "other"]}
                     ELSE {[version |-> 4, if |-> "unset"], [version |-> 6, if |-> "own"]}]
\* An address of a1 has no gateway, and a1 has routes of a family without address.
MCGateway == [a \in MCAtt |-> a = a2]
=============================================================================
