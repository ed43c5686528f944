SPECIFICATION Spec
CONSTANTS
    a1 = a1  a2 = a2  a3 = a3  g1 = g1  g2 = g2
    Att <- AttThree
    VlanOf <- OneVlan
    GwOf <- FirstOther
    Overlapping <- IPv4
    ForceAddress <- LastForce
    Macs = {1, 2, 3, 4}
    CrashAt <- EveryStep
VIEW WithoutMacs
INVARIANTS GatewayServed OverlapsRaced
