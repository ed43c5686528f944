CONSTANTS
    c1 = c1
    c2 = c2
    c3 = c3
    Node = {n1, n2}
    PublicIP = {p1, p2}
    NoIP = NoIP
    NoRecord = NoRecord
    Container <- MCContainer
    Interfaces <- MCInterfaces
    Byte = 4
    Nil = Nil
    NoMap = NoMap
    Refused = Refused
SPECIFICATION Spec
INVARIANTS
    RoutedOrLogged
    OneWay
    HeldBound
    DeleteForgets
PROPERTY IpamPoolSpec
