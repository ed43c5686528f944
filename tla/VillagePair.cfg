SPECIFICATION Spec
CONSTANTS
    a1 = a1  a2 = a2  a3 = a3  c1 = c1  c2 = c2  n1 = n1  n2 = n2  n3 = n3
    Att <- AttThree
    Cont <- ContTwo
    ContainerOf <- Owner
    IfNameOf <- Name
    ChainOf <- Chain
    Layer3 <- AttThree
    Results <- BothKinds
    MvIPs <- ForMacvlan
    V6IPs <- SecondFamily
    IPMasq = TRUE
    MacVlan <- AttEnds
    MayFail <- AddAndDelFaults
    CrashAt <- ButHalfWay
    NetnsMayVanish = FALSE
    MaxUnnamed = 1
    NoLink = NoLink
INVARIANTS ReadyComplete MasqHolds DelCleans FailedAddUndone UsedOnce
