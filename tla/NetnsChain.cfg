CONSTANTS
    a1 = a1
    a2 = a2
    i1 = i1
    i2 = i2
    NoIP = NoIP
    NoLink = NoLink
    NoBackup = NoBackup
    Torn = Torn
    Att <- MCAtt
    IPs <- MCIPs
    Fresh <- MCFresh
    Persistent <- MCPersistent
    Chains <- MCChains
    Alone = {"vrf"}
    MayFail <- MCMayFail
    CrashIn = {"add", "del"}
    MaxFaults = 2
    TuningConf <- MCTuningConf
    NetKeys = {"net.one", "net.two", "net.three"}
    VrfConfs <- MCVrfConfs
    KeepAddr = FALSE
    MaxTable = 3
    SbrIPs <- MCSbrIPs
    Gateway <- MCGateway
    SbrTables = {100, 101, 102}
SPECIFICATION Spec
INVARIANTS
    Restored
    VrfHeld
    VrfGone
    SbrRouted
    SbrClean
