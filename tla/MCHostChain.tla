---------------------------- MODULE MCHostChain ----------------------------
(* Two attachments.  a1 has an IPv4 address of its own, two TCP ports, each  *)
(* on one host address (of IPv4 and of IPv6), and traffic shaped in both     *)
(* directions; a2 has an IPv4 address, a UDP port, SNAT, and no limits.      *)
EXTENDS HostChain

CONSTANTS a1, a2, i1, i2

MCAtt == {a1, a2}
MCIPs == {i1, i2}
Symmetric == Permutations(MCIPs)
MCFresh == [a \in MCAtt |-> [root |-> NoTbf, ingress |-> FALSE, redirect |-> "none"]]
MCChains == {<<"portmap">>, <<"firewall", "bandwidth">>}
MCMayFail == {<<"portmap", "add">>, <<"portmap", "del">>,
              <<"firewall", "add">>, <<"firewall", "del">>, <<"bandwidth", "add">>, <<"bandwidth", "del">>}
MCTables == {"nat", "filter"} \X {4, 6}
MCBuiltIn ==
    [t \in MCTables |->
        IF t[1] = "nat" THEN {Shared("PREROUTING"), Shared("OUTPUT"), Shared("POSTROUTING")}
        ELSE {Shared("FORWARD")}]

Mapping(proto, host, cont, hip) == [proto |-> proto, host |-> host, cont |-> cont, hip |-> hip]

MCMappings ==
    [a \in MCAtt |-> IF a = a1 THEN <<Mapping("tcp", 80, 8080, "v4"), Mapping("tcp", 81, 8081, "v6")>>
                     ELSE <<Mapping("udp", 53, 5353, "none")>>]
MCPrevIPs ==
    [a \in MCAtt |-> IF a = a1 THEN <<[version |-> 6, if |-> "host"], [version |-> 4, if |-> "own"]>>
                     ELSE <<[version |-> 4, if |-> "unset"]>>]
MCSNAT == [a \in MCAtt |-> a = a2]
MCHostIf == [a \in MCAtt |-> "cni0"]

MCBackend == [a \in MCAtt |-> ""]
MCAdminChain == [a \in MCAtt |-> IF a = a1 THEN "CNI-ADMIN" ELSE "OPS-ADMIN"]
MCFwFams == [a \in MCAtt |-> IF a = a1 THEN {4, 6} ELSE {4}]
MCZone == [a \in MCAtt |-> IF a = a1 THEN "trusted" ELSE "public"]

MCBandwidths ==
    [a \in MCAtt |->
        LET on == IF a = a1 THEN 1 ELSE 0
        IN  [ingressRate |-> 16 * on, ingressBurst |-> 16 * on,
             egressRate |-> 32 * on, egressBurst |-> 64 * on]]
MCIfbOf == [a \in MCAtt |-> IF a = a1 THEN "bwp1" ELSE "bwp2"]
=============================================================================
