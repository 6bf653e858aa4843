SPECIFICATION FairSpec
CONSTANTS
    Intf = {eth0, wlan0}
    Servlet = {s1, s2}
    Collector = {c1}
    Node = {n1, n2}
    Request = {"add", "remove", "get", "time"}
    Msec = {1, 11}
    IntMax = 31
    Factor = 3
    NULL = NULL
CONSTRAINT
    Bounded
INVARIANTS
    TypeOK
    ListSound
    NoWildAccess
PROPERTIES
    ImplementsSet
    RequestsEnd
    StopEnds
