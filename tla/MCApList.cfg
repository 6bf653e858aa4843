SPECIFICATION FairSpec
CONSTANTS
    Addr = {a1, a2, a3}
    ap_table_max_size = 2
    ap_table_expiration_time = 1
    Channel = {1, 5}
    Secondary = {1}
    hw_mode_g = TRUE
    forward_beacon = 1
    MaxClock = 2
INVARIANTS
    TypeOK HashIndexesList ProtectionCovers
PROPERTIES
    TimerLeavesNoneExpired DropsOldest ProtectionEnds
CHECK_DEADLOCK FALSE
