SPECIFICATION Spec
CONSTANTS
    Addr = {sta1, sta2, sta3}
    max_num_sta = 2
    MaxAid = 2
    SeqCtrl = {1}
    full_ap_client_state = FALSE
    skip_inactivity_poll = FALSE
    radius_session = FALSE
    enabled_msg_authorization = FALSE
    enabled_msg_association = FALSE
    enabled_msg_reassociation = FALSE
    Command = {}
    MaxTx = 0
SYMMETRY Symmetric
INVARIANTS
    AidsUnique
    StationsCounted
