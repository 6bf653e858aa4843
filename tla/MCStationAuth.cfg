SPECIFICATION Spec
CONSTANTS
    Addr = {sta1}
    max_num_sta = 1
    MaxAid = 2
    SeqCtrl = {1}
    full_ap_client_state = TRUE
    skip_inactivity_poll = FALSE
    radius_session = TRUE
    enabled_msg_authorization = TRUE
    enabled_msg_association = TRUE
    enabled_msg_reassociation = TRUE
    Command = {"deauthenticate", "disassociate"}
    MaxTx = 1
INVARIANTS
    AssociatedIsAuthenticated
