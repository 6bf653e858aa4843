CONSTANTS
    Type <- AllTypes
    Lengths = {0, 17}
    Items = {0, 2}
    Tries = 2
    MaxFaults = 1
    None = None
SPECIFICATION Spec
INVARIANTS TypeOK WithinAnnounced Answered OnlyTheNodeAsked 
PROPERTIES ExchangeEnds
CHECK_DEADLOCK FALSE
