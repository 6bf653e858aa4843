CONSTANTS
    Type = {"MSG_GET_SNR"}
    Lengths = {17}
    Items = {0}
    Tries = 1
    MaxFaults = 1
    None = None
SPECIFICATION Spec
INVARIANTS NullIfError
CHECK_DEADLOCK FALSE
