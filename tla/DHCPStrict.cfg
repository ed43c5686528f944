SPECIFICATION Spec
CONSTANTS
    Client = {k1, k2}  Lease = {x1, x2, x3}  Call = {h1, h2}  Addr = {i1, i2}
    None = None
    MaxAge = 3
    MayCheck = FALSE  MayKill = FALSE  BadAcks = TRUE
SYMMETRY Interchangeable
INVARIANTS DelStops LeaseBacked DownOnlyExpired
PROPERTIES PoolSpec
