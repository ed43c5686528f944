SPECIFICATION FairSpec
CONSTANTS
    a1 = a1  a2 = a2  a3 = a3  c1 = c1  c2 = c2  c3 = c3
    Att <- AttTwo
    Cont <- ContThree
    ContainerOf <- OwnerTwo
    Ranges <- RangesTwoSmall
    Requests <- SomeRequests
    LegacyIDs = {}
    NoFile = NoFile  EmptyFile = EmptyFile
    StrictRuntime = TRUE  MayCrash = TRUE  LockMayFail = FALSE  IOMayFail = FALSE
INVARIANTS TypeOK HeldReserved DelForgets
PROPERTIES PoolSpec CommandsReturn
