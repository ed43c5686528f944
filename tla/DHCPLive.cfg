SPECIFICATION FairSpec
CONSTANTS
    Client = {k1}  Lease = {x1, x2}  Call = {h1, h2}  Addr = {i1}
    None = None
    MaxAge = 3
    MayCheck = TRUE  MayKill = TRUE  BadAcks = FALSE
PROPERTIES CallsReturn ExpiryNoticed
