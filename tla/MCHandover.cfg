SPECIFICATION Spec
CONSTANTS
    ap1 = ap1
    ap2 = ap2
    Ap = {ap1, ap2}
    Sta = {sta1}
    Address = {i1, i2, i3}
    Thread = {t1, t2}
    Scan <- Scans
    Traffic = {0, 1}
    First = {ap1, Null}
    signal_threshold <- DefaultSignalThreshold
    Null = Null
    To = To
    MaxRestarts = 1
    MaxFaults = 1
    MaxConnections = 4
CONSTRAINT Bounded
SYMMETRY Symmetry
INVARIANTS TypeOK EntryTrue ListsSound NoWildAccess BestAnswer
CHECK_DEADLOCK FALSE
