----------------------------- MODULE MCVillage -----------------------------
(* Small configurations of the village plugin for TLC.                     *)
EXTENDS Village

CONSTANTS a1, a2, a3, c1, c2, n1, n2, n3

ContTwo == {c1, c2}

\* Two interfaces of one container, and one of another.
AttTwo == {a1, a2}
AttThree == {a1, a2, a3}
AttEnds == {a1, a3}
AttOne == {a1}
Owner == [a \in AttThree |-> IF a = a3 THEN c2 ELSE c1]
Name == [a \in AttThree |-> IF a = a2 THEN "net1" ELSE "eth0"]
Chain == [a \in AttThree |-> CASE a = a1 -> n1 [] a = a2 -> n2 [] a = a3 -> n3]

\* Two interfaces of one container on one network (README, Departures).
PairOwner == [a \in AttTwo |-> c1]
PairName == [a \in AttTwo |-> Name[a]]
SameChain == [a \in AttTwo |-> n1]

\* Addresses: 61 and 62 are of the second family; 51 and 52 are for the macvlan.
SecondFamily == {61, 62}
ForMacvlan == {51, 52}
OneEach == {{41}, {42}}
BothKinds == {{41, 51}, {42, 52}}
DualStack == {{41, 61, 51}, {42}}
DualOrSingle == {{41, 61, 51}, {41}}

AddFaults == {"bridge", "veth", "configure", "gateway", "masq", "print", "macvlan",
              "rename", "configureMv"}
DelFaults == {"ipamDel", "delLink"}
AddAndDelFaults == AddFaults \cup DelFaults
EveryFault == AddSteps \cup DelSteps
\* A kill anywhere, and anywhere but where a DEL or createMacvlan leaves what no
\* DEL finds (README, Departures).
Anywhere == AddSteps \cup DelSteps
ButHalfWay == Anywhere \ {"rename", "unmake", "delMasq"}
=============================================================================
