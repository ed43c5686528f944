-------------------------- MODULE MCBridgeGateway --------------------------
(* Small configurations of the shared bridge for TLC.                      *)
EXTENDS BridgeGateway

CONSTANTS a1, a2, a3, g1, g2

AttThree == {a1, a2, a3}

AttTwo == {a1, a2}

\* On the bridge itself, or on one VLAN.
Flat == [a \in AttTwo |-> NoVlan]
OneVlan == [a \in AttThree |-> 10]

\* Two networks with different gateways.
EachOwn == [a \in AttTwo |-> IF a = a1 THEN g1 ELSE g2]
FirstOther == [a \in AttThree |-> IF a = a1 THEN g1 ELSE g2]

\* Every step of an ADD, and every one but LinkSetHardwareAddr.
EveryStep == AddSteps
AllButPin == AddSteps \ {"pin"}

SecondForce == {a2}
LastForce == {a2, a3}

IPv4 == {<<g1, g2>>, <<g2, g1>>}

\* Which hardware addresses there are decides nothing about the others.
WithoutMacs == <<exists, vlans, addrs, pc, seen, met, {p \in DOMAIN ports : ports[p] # NoMac}>>
=============================================================================
