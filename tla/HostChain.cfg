CONSTANTS
    a1 = a1
    a2 = a2
    i1 = i1
    i2 = i2
    NoIP = NoIP
    NoLink = NoLink
    NoOwner = NoOwner
    NoBandwidth = NoBandwidth
    NoTbf = NoTbf
    NoIfb = NoIfb
    Att <- MCAtt
    IPs <- MCIPs
    Fresh <- MCFresh
    Persistent = {}
    Chains <- MCChains
    Alone = {}
    MayFail <- MCMayFail
    CrashIn = {"add", "del"}
    MaxFaults = 1
    Tables <- MCTables
    BuiltIn <- MCBuiltIn
    Mappings <- MCMappings
    PrevIPs <- MCPrevIPs
    SNAT <- MCSNAT
    ExternalMark = FALSE
    Usable = {4}
    HostIf <- MCHostIf
    MultiportMax = 1
    Backend <- MCBackend
    AdminChain <- MCAdminChain
    FwFams <- MCFwFams
    Zone <- MCZone
    Bandwidths <- MCBandwidths
    VethPeer <- MCAtt
    IfbOf <- MCIfbOf
    MaxUint32 = 255
SPECIFICATION Spec
SYMMETRY Symmetric
INVARIANTS
    Forwarded
    NoStrayForward
    NoStaleFlow
    ReadyAccepted
    AdminFirst
    Shaped
    CheckAgrees
