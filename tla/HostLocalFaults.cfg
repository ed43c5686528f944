SPECIFICATION Spec
CONSTANTS
    a1 = a1  a2 = a2  a3 = a3  c1 = c1  c2 = c2  c3 = c3
    Att <- AttTwo
    Cont <- ContThree
    ContainerOf <- OwnerShared
    Ranges <- RangesFaults
    Requests <- FaultRequests
    LegacyIDs = {c1}
    NoFile = NoFile  EmptyFile = EmptyFile
    StrictRuntime = TRUE  MayCrash = TRUE  LockMayFail = TRUE  IOMayFail = TRUE
PROPERTY PoolSpec
