SPECIFICATION Spec
CONSTANTS
    a1 = a1  a2 = a2  a3 = a3  c1 = c1  c2 = c2  c3 = c3
    Att <- AttThree
    Cont <- ContThree
    ContainerOf <- Owner
    Ranges <- RangesSplit
    Requests <- NoRequests
    LegacyIDs = {}
    NoFile = NoFile  EmptyFile = EmptyFile
    StrictRuntime = TRUE  MayCrash = TRUE  LockMayFail = FALSE  IOMayFail = FALSE
INVARIANTS FullIsFull RoundRobin
