SPECIFICATION FairSpec
CONSTANTS
    Conn = {c1, c2, c3}
    Thread = {t1, t2}
    Backlog = 2
    Type = {"hello", "set_timed_statistics", "bye", "unknown"}
    None = None
INVARIANTS
    TypeOK
    ServedOnce
PROPERTIES
    ConnectionEnds
CHECK_DEADLOCK FALSE
