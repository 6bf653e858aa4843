SPECIFICATION Spec
CONSTANTS
    Name = {"wlan0"}
    Started <- OneInterface
    Csa = {}
    Named = {"wlan0"}
    Thread = {t1}
    Request = {"MSG_SET_CURRENTCHANNEL"}
    Channel = {1, 6}
    Initial = 1
    Asked = {6}
    Background = {FALSE}
    MaxObject = 1
    MaxEvents = 0
INVARIANTS
    SetsTheRadio
CHECK_DEADLOCK FALSE
