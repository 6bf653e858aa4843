SPECIFICATION Spec
CONSTANTS
    Name = {"wlan0", "wlan1", "wlan2"}
    Started <- TwoInterfaces
    Csa = {"wlan1"}
    Named = {"wlan1"}
    Thread = {t1, t2}
    Request = {"MSG_GET_AP_SSID", "MSG_SET_CURRENTCHANNEL"}
    Channel = {1, 6}
    Initial = 1
    Asked = {6, 14}
    Background = {TRUE, FALSE}
    MaxObject = 3
    MaxEvents = 3
INVARIANTS
    TypeOK
    NoWildAccess
    RightInterface
    ChannelMatchesRadio
    SwitchEnds
SYMMETRY Threads
CONSTRAINT Bounded
CHECK_DEADLOCK FALSE
