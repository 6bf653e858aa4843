SPECIFICATION Spec
CONSTANTS
    Conn = {c1, c2}
    Thread = {t1, t2}
    Backlog = 2
    Type = {"hello", "ping", "set_timed_statistics", "bye", "unknown"}
    None = None
INVARIANTS
    ServedByOne
CHECK_DEADLOCK FALSE
