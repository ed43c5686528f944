SPECIFICATION Spec
CONSTANTS
    a1 = a1  a2 = a2  a3 = a3  c1 = c1  c2 = c2  n1 = n1  n2 = n2  n3 = n3
    Att <- AttThree
    Cont <- ContTwo
    ContainerOf <- Owner
    IfNameOf <- Name
    ChainOf <- Chain
    Layer3 <- AttOne
    Results <- DualOrSingle
    MvIPs <- ForMacvlan
    V6IPs <- SecondFamily
    IPMasq = TRUE
    MacVlan <- AttOne
    MayFail <- EveryFault
    CrashAt <- Anywhere
    NetnsMayVanish = TRUE
    MaxUnnamed = 1
    NoLink = NoLink
INVARIANT ReadyComplete
