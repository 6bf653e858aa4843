------------------------------- MODULE Messages -------------------------------
(***************************************************************************)
(* The messages of Ethanol, hostapd-2.6/src/messaging/msg_*.c, as one      *)
(* table: for every type its layout, what the handler behind its case of   *)
(* the servlet does (process_) and what the function that sends it does    *)
(* (send_).                                                                *)
(***************************************************************************)
EXTENDS Layouts

-----------------------------------------------------------------------------
(* Handlers.  relays: a request that names a station is passed on to it.
   failed: what becomes of the value when the station gives no answer: the
   field keeps what came with the request or is emptied.  local: what the
   handler does when it does not pass the request on: "own" reads or sets the
   node, "here" only if no station is named, "ap" only on an AP (a station
   empties the field), "fixed" stores a constant, "asked" and "none" do
   nothing.  skips: what it leaves out when the interface has no name.

   null and wild: when it uses a null pointer, which ends the process, and when
   it uses or frees memory that is not initialised or is free already, which
   may: "always" and, for a request handled here, "empty" (strings that are
   null) and "station" (one is named); after passing it on, "relayed" (the
   station answered) and "failed"; "missing" and "missing_ap" when a query of
   this node, or only of an AP, finds nothing. *)

Handler(relays, failed, local, replies) ==
    [relays |-> relays, failed |-> failed, local |-> local,
     replies |-> replies, skips |-> "nothing", null |-> {}, wild |-> {}]

Asks(failed) == Handler(TRUE, failed, "own", TRUE)

Tells(replies) == Handler(TRUE, "asked", "own", replies)

Answers(local) == Handler(FALSE, "asked", local, TRUE)

Applies(local) == Handler(FALSE, "asked", local, FALSE)

Null(process, when) == [process EXCEPT !.null = @ \cup {when}]

Wild(process, when) == [process EXCEPT !.wild = @ \cup {when}]

\* The default case: return_error_msg_struct.
NoCase == Answers("error")

process_msg_hello == Answers("own")
process_msg_bye == Null(Applies("own"), "always")
process_msg_ping == Null(Answers("own"), "empty")
process_msg_802_11e_enabled == Asks("asked")
process_msg_ap_ctsprotection_enabled(get) ==
    IF get THEN Answers("fixed") ELSE Applies("none")
process_msg_ap_broadcastssid(get) ==
    IF get THEN Answers("fixed") ELSE Applies("none")
process_msg_ap_frameburstenabled(get) ==
    IF get THEN Answers("fixed") ELSE Applies("none")
process_msg_ap_guardinterval == Answers("asked")
process_msg_ap_dtiminterval == Applies("none")
process_msg_ap_rtsthreshold(get) ==
    IF get THEN Answers("fixed") ELSE Applies("none")
process_msg_beacon_interval(get) ==
    IF get THEN Answers("fixed") ELSE Applies("none")
process_msg_bytesreceived == Null(Asks("asked"), "missing_ap")
process_msg_bytessent == Null(Asks("asked"), "missing_ap")
process_msg_packetsreceived == Null(Asks("asked"), "missing_ap")
process_msg_packetslost == Null(Asks("asked"), "missing_ap")
process_msg_packetssent == Null(Asks("asked"), "missing_ap")
process_msg_deauthenticate_user == Answers("asked")
process_msg_disconnect_user == Answers("asked")
process_msg_powersavemode(get) == IF get THEN Asks("asked") ELSE Tells(FALSE)
process_msg_delay == Wild(Answers("fixed"), "always")
process_msg_failed == Answers("fixed")
process_msg_jitter == Answers("fixed")
process_msg_fastbsstransition_compatible ==
    [Asks("asked") EXCEPT !.local = "fixed"]
process_msg_frequency(get) ==
    IF get THEN [Asks("asked") EXCEPT !.skips = "relay"] ELSE Answers("here")
process_msg_association_process == Answers("fixed")
process_msg_snr == Asks("asked")
process_msg_mac == Null(Answers("own"), "missing")
process_msg_radio_wlans == Asks("asked")
process_msg_channels == Answers("own")
process_msg_intf == Asks("asked")
process_msg_radio_linkstatistics == Answers("fixed")
process_msg_currentchannel(get) == IF get THEN Asks("empty") ELSE Tells(TRUE)
process_msg_wlan_info == Wild(Asks("empty"), "empty")
process_msg_beaconinfo == Applies("none")
process_msg_channelbandwitdh(get) ==
    IF get THEN Answers("fixed") ELSE Answers("asked")
process_msg_txpower(get) == IF get THEN Asks("asked") ELSE Tells(TRUE)
process_msg_snr_threshold == Tells(FALSE)
process_msg_snr_interval == Tells(FALSE)
process_msg_ap_in_range == Asks("empty")
process_msg_ipv4_address(get) ==
    IF get THEN Null(Asks("asked"), "missing")
    ELSE Null(Applies("own"), "empty")
process_msg_ipv6_address(get) ==
    IF get THEN [Asks("asked") EXCEPT !.local = "asked"]
    ELSE Null(Applies("own"), "empty")
process_msg_retries == Answers("fixed")
process_msg_uptime == Answers("own")
process_msg_ap_routes == Null(Wild(Asks("asked"), "always"), "failed")
process_msg_ap_ssid == Asks("asked")
process_msg_memory == Asks("asked")
process_msg_cpu == Asks("asked")
process_msg_channelinfo == Answers("own")
process_msg_request_beacon == Answers("fixed")
process_msg_interferencemap == Answers("fixed")
process_msg_request_begin_association == Answers("fixed")
process_msg_scan_received ==
    Null(Wild(Asks("asked"), "relayed"), "failed")
process_msg_fragmentationthreshold(get) ==
    IF get THEN Answers("fixed") ELSE Answers("asked")
process_msg_noiseinfo == Wild(Answers("here"), "station")
process_msg_vap_create == Answers("fixed")
process_msg_tx_bitrates == Null(Asks("asked"), "missing")
process_msg_get_tx_bitrate == Asks("asked")
process_msg_set_tx_bitrate == Wild(Applies("own"), "always")
process_msg_sta_link_information == Asks("asked")
process_msg_supportedinterface == Answers("fixed")
process_msg_location == Answers("fixed")
process_msg_conf_ssid_radio == Answers("fixed")
process_msg_statistics ==
    Null(Wild(Asks("asked"), "relayed"), "missing_ap")
process_msg_acs ==
    Null([Asks("asked") EXCEPT !.skips = "all"], "missing")
process_msg_sta_statistics == [Asks("asked") EXCEPT !.local = "ap"]
process_msg_snr_threshold_reached == [Asks("asked") EXCEPT !.local = "asked"]
process_msg_changed_ap == Answers("asked")
process_msg_mean_sta_statistics(get) ==
    IF get THEN Answers("own") ELSE Applies("own")
process_msg_station_trigger_transition == Applies("own")
process_msg_tos_cleanall == Applies("own")
process_msg_tos_add == Applies("own")
process_msg_tos_replace == Applies("own")
process_msg_set_mtu == Tells(FALSE)
process_msg_set_txqueuelen == Tells(FALSE)

-----------------------------------------------------------------------------
(* Senders.  waits: reads a reply and decodes it if its type is expected.
   station: the request can name a station.  tested: decodes only if bytes
   were read.  named: returns at once if the interface has no name.  slip: it
   uses a field that is not initialised ("filling" the message, or the "port"
   of the station) or, when no interface is named, a null pointer after the
   request was "sent" or "answered". *)

Sender(waits, expects, station) ==
    [waits |-> waits, expects |-> expects, station |-> station,
     tested |-> FALSE, named |-> FALSE, slip |-> "none"]

Slips(send, where) == [send EXCEPT !.slip = where]

Waits(expects, station) == Sender(TRUE, expects, station)

Posts(station) == Sender(FALSE, {}, station)

AssociationType ==
    {"MSG_ASSOCIATION", "MSG_DISASSOCIATION", "MSG_REASSOCIATION",
     "MSG_AUTHORIZATION", "MSG_USER_DISCONNECTING", "MSG_USER_CONNECTING"}

send_msg_hello == Waits({"MSG_HELLO_TYPE"}, FALSE)
send_msg_bye == Posts(FALSE)
send_msg_ping == Waits({"MSG_PONG"}, FALSE)
send_msg_802_11e_enabled == Waits({"MSG_GET_802_11E_ENABLED"}, TRUE)
send_msg_ap_ctsprotection_enabled ==
    Waits({"MSG_GET_AP_CTSPROTECTION_ENABLED"}, FALSE)
send_msg_ap_set_ctsprotection_enabled == Posts(FALSE)
send_msg_get_ap_broadcastssid == Waits({"MSG_GET_AP_BROADCASTSSID"}, FALSE)
send_msg_set_ap_broadcastssid == Posts(FALSE)
send_msg_ap_get_frameburstenabled ==
    Waits({"MSG_GET_AP_FRAMEBURSTENABLED"}, FALSE)
send_msg_ap_set_frameburstenabled == Posts(FALSE)
send_msg_get_ap_guardinterval == Waits({"MSG_GET_AP_GUARDINTERVAL"}, FALSE)
send_msg_set_ap_guardinterval == Posts(FALSE)
send_msg_get_ap_dtiminterval == Waits({"MSG_GET_AP_DTIMINTERVAL"}, FALSE)
send_msg_set_ap_dtiminterval == Posts(FALSE)
send_msg_ap_get_rtsthreshold == Waits({"MSG_GET_AP_RTSTHRESHOLD"}, FALSE)
send_msg_ap_set_rtsthreshold == Posts(FALSE)
send_msg_get_beacon_interval == Waits({"MSG_GET_BEACON_INTERVAL"}, FALSE)
send_msg_set_beacon_interval == Posts(FALSE)
send_msg_bytesreceived == Waits({"MSG_GET_BYTESRECEIVED"}, TRUE)
send_msg_bytessent == Waits({"MSG_GET_BYTESSENT"}, TRUE)
send_msg_get_packetsreceived == Waits({"MSG_GET_PACKETSRECEIVED"}, TRUE)
send_msg_get_packetslost ==
    [Waits({"MSG_GET_PACKETSLOST"}, TRUE) EXCEPT !.named = TRUE]
send_msg_get_packetssent ==
    [Waits({"MSG_GET_PACKETSSENT"}, TRUE) EXCEPT !.named = TRUE]
send_msg_deauthenticate_user == Posts(FALSE)
send_msg_disconnect_user == Posts(FALSE)
send_msg_get_powersavemode == Waits({"MSG_GET_POWERSAVEMODE"}, TRUE)
send_msg_set_powersavemode == Posts(TRUE)
send_msg_delay == Waits({"MSG_GET_DELAY"}, TRUE)
send_msg_failed == Waits({"MSG_GET_FAILED"}, FALSE)
send_msg_jitter == Waits({"MSG_GET_JITTER"}, FALSE)
send_msg_fastbsstransition_compatible ==
    Waits({"MSG_GET_FASTBSSTRANSITION_COMPATIBLE"}, TRUE)
send_msg_get_frequency == Slips(Waits({"MSG_GET_FREQUENCY"}, TRUE), "port")
send_msg_set_frequency ==
    Slips(Waits({"MSG_SET_FREQUENCY"}, TRUE), "filling")
send_msg_association_process ==
    [Waits(AssociationType, FALSE) EXCEPT !.named = TRUE]
send_msg_snr == Waits({"MSG_GET_SNR"}, TRUE)
send_msg_get_mac == Slips(Waits({"MSG_GET_MAC"}, FALSE), "answered")
send_msg_radio_wlans == Waits({"MSG_GET_RADIO_WLANS"}, TRUE)
send_msg_get_valid_channels ==
    [Waits({"MSG_GET_VALIDCHANNELS"}, FALSE) EXCEPT !.named = TRUE]
generic_get_intf_msg == Waits({"any"}, TRUE)
send_msg_radio_linkstatistics ==
    Waits({"MSG_GET_RADIO_LINKSTATISTICS"}, FALSE)
send_msg_get_currentchannel == Waits({"MSG_GET_CURRENTCHANNEL"}, TRUE)
send_msg_set_currentchannel == Posts(TRUE)
send_msg_get_wlan_info == Slips(Waits({"MSG_WLAN_INFO"}, TRUE), "sent")
send_msg_beaconinfo == Posts(FALSE)
send_msg_get_channelbandwitdh == Waits({"MSG_GET_CHANNELBANDWITDH"}, FALSE)
send_msg_set_channelbandwitdh == Posts(FALSE)
send_msg_get_txpower == Waits({"MSG_GET_TXPOWER"}, TRUE)
send_msg_set_txpower == Posts(TRUE)
send_msg_set_snr_threshold == Posts(TRUE)
send_msg_set_snr_interval == Posts(TRUE)
send_msg_get_ap_in_range ==
    [Waits({"MSG_GET_AP_IN_RANGE_TYPE"}, TRUE) EXCEPT !.tested = TRUE]
send_msg_get_ip_address == Waits({"MSG_GET_IPV4_ADDRESS"}, TRUE)
send_msg_set_ip_address(m_type) == Waits({m_type}, TRUE)
send_msg_retries == Waits({"MSG_GET_RETRIES"}, FALSE)
send_msg_uptime == Waits({"MSG_GET_UPTIME"}, FALSE)
send_msg_ap_get_routes == Slips(Waits({"MSG_GET_ROUTES"}, TRUE), "filling")
send_msg_ap_get_ssid == Waits({"MSG_GET_AP_SSID"}, TRUE)
send_msg_get_memory == Waits({"MSG_GET_MEMORY"}, TRUE)
send_msg_get_cpu == Waits({"MSG_GET_CPU"}, TRUE)
send_msg_channelinfo == Waits({"MSG_GET_CHANNELINFO"}, FALSE)
send_msg_request_beacon == Waits({"MSG_REQUEST_BEACON"}, FALSE)
send_msg_interferencemap == Waits({"MSG_GET_INTERFERENCEMAP"}, TRUE)
send_msg_request_begin_association ==
    Waits({"MSG_REQUEST_BEGIN_ASSOCIATION"}, FALSE)
send_msg_get_scan == Waits({"MSG_SCAN"}, TRUE)
send_msg_ap_get_fragmentationthreshold ==
    Waits({"MSG_GET_FRAGMENTATIONTHRESHOLD"}, FALSE)
send_msg_ap_set_fragmentationthreshold == Posts(FALSE)
send_msg_get_noiseinfo ==
    [Waits({"MSG_GET_NOISEINFO"}, TRUE) EXCEPT !.named = TRUE]
send_msg_vap_create == Waits({"MSG_VAP_CREATE"}, FALSE)
get_msg_tx_bitrates == Waits({"MSG_GET_TX_BITRATES"}, TRUE)
get_msg_tx_bitrate ==
    [Waits({"MSG_GET_TX_BITRATE"}, TRUE) EXCEPT !.named = TRUE]
set_msg_tx_bitrates == [Posts(TRUE) EXCEPT !.named = TRUE]
get_msg_sta_link_information ==
    [Waits({"MSG_GET_LINK_INFO"}, TRUE) EXCEPT !.named = TRUE]
send_msg_supportedinterface == Waits({"MSG_GET_SUPPORTEDINTERFACE"}, FALSE)
send_msg_location == Waits({"MSG_GET_LOCATION"}, FALSE)
send_msg_conf_ssid_radio == Waits({"MSG_SET_CONF_SSID_RADIO"}, FALSE)
send_msg_get_statistics ==
    [Waits({"MSG_GET_STATISTICS"}, TRUE) EXCEPT !.named = TRUE]
send_msg_get_acs == Waits({"MSG_GET_ACS"}, TRUE)
send_msg_get_sta_statistics ==
    [Waits({"MSG_GET_STA_STATISTICS"}, TRUE) EXCEPT !.named = TRUE]
send_msg_snr_threshold_reached ==
    Waits({"MSG_SET_SNR_THRESHOLD_REACHED"}, TRUE)
send_msg_changed_ap == Posts(FALSE)
send_msg_mean_sta_statistics == Waits({"MSG_MEAN_STA_STATISTICS_GET"}, TRUE)
send_msg_mean_sta_statistics_interface == Posts(TRUE)
send_msg_mean_sta_statistics_alpha == Posts(TRUE)
send_msg_mean_sta_statistics_time == Posts(TRUE)
send_msg_station_trigger_transition == Posts(TRUE)
send_msg_tos_cleanall == Posts(FALSE)
sent_tos == Posts(FALSE)
send_msg_set_mtu == Posts(TRUE)
send_msg_set_txqueuelen == Posts(TRUE)
send_msg_get_preamble == Waits({"MSG_GET_PREAMBLE"}, FALSE)
send_msg_set_preamble == Posts(FALSE)

-----------------------------------------------------------------------------
(* The cases of the servlet, in its order, with their senders *)

Row(layout, process, send) ==
    [layout |-> layout, process |-> process, send |-> send]

servlet_general ==
    [MSG_HELLO_TYPE |-> Row(msg_hello, process_msg_hello, send_msg_hello),
     MSG_BYE_TYPE |-> Row(msg_bye, process_msg_bye, send_msg_bye),
     MSG_PING |-> Row(msg_ping, process_msg_ping, send_msg_ping),
     MSG_GET_802_11E_ENABLED |-> Row(msg_802_11e_enabled,
       process_msg_802_11e_enabled, send_msg_802_11e_enabled),
     MSG_GET_AP_CTSPROTECTION_ENABLED |->
       Row(msg_ap_ctsprotection_enabled,
           process_msg_ap_ctsprotection_enabled(TRUE),
           send_msg_ap_ctsprotection_enabled),
     MSG_SET_AP_CTSPROTECTION_ENABLED |->
       Row(msg_ap_ctsprotection_enabled,
           process_msg_ap_ctsprotection_enabled(FALSE),
           send_msg_ap_set_ctsprotection_enabled),
     MSG_GET_AP_BROADCASTSSID |-> Row(msg_ap_broadcastssid,
       process_msg_ap_broadcastssid(TRUE), send_msg_get_ap_broadcastssid),
     MSG_SET_AP_BROADCASTSSID |-> Row(msg_ap_broadcastssid,
       process_msg_ap_broadcastssid(FALSE), send_msg_set_ap_broadcastssid),
     MSG_GET_AP_FRAMEBURSTENABLED |->
       Row(msg_ap_frameburstenabled,
           process_msg_ap_frameburstenabled(TRUE),
           send_msg_ap_get_frameburstenabled),
     MSG_SET_AP_FRAMEBURSTENABLED |->
       Row(msg_ap_frameburstenabled,
           process_msg_ap_frameburstenabled(FALSE),
           send_msg_ap_set_frameburstenabled),
     MSG_GET_AP_GUARDINTERVAL |-> Row(msg_ap_guardinterval,
       process_msg_ap_guardinterval, send_msg_get_ap_guardinterval),
     MSG_SET_AP_GUARDINTERVAL |-> Row(msg_ap_guardinterval,
       process_msg_ap_guardinterval, send_msg_set_ap_guardinterval),
     MSG_GET_AP_DTIMINTERVAL |-> Row(msg_ap_dtiminterval,
       process_msg_ap_dtiminterval, send_msg_get_ap_dtiminterval),
     MSG_SET_AP_DTIMINTERVAL |-> Row(msg_ap_dtiminterval,
       process_msg_ap_dtiminterval, send_msg_set_ap_dtiminterval),
     MSG_GET_AP_RTSTHRESHOLD |-> Row(msg_ap_rtsthreshold,
       process_msg_ap_rtsthreshold(TRUE), send_msg_ap_get_rtsthreshold),
     MSG_SET_AP_RTSTHRESHOLD |-> Row(msg_ap_rtsthreshold,
       process_msg_ap_rtsthreshold(FALSE), send_msg_ap_set_rtsthreshold),
     MSG_GET_BEACON_INTERVAL |-> Row(msg_beacon_interval,
       process_msg_beacon_interval(TRUE), send_msg_get_beacon_interval),
     MSG_SET_BEACON_INTERVAL |-> Row(msg_beacon_interval,
       process_msg_beacon_interval(FALSE), send_msg_set_beacon_interval)]

servlet_counters ==
    [MSG_GET_BYTESRECEIVED |-> Row(msg_bytesreceived,
       process_msg_bytesreceived, send_msg_bytesreceived),
     MSG_GET_BYTESSENT |->
       Row(msg_bytessent, process_msg_bytessent, send_msg_bytessent),
     MSG_GET_PACKETSRECEIVED |-> Row(msg_packetsreceived,
       process_msg_packetsreceived, send_msg_get_packetsreceived),
     MSG_GET_PACKETSLOST |->
       Row(msg_packetslost, process_msg_packetslost, send_msg_get_packetslost),
     MSG_GET_PACKETSSENT |->
       Row(msg_packetssent, process_msg_packetssent, send_msg_get_packetssent),
     MSG_DEAUTHENTICATE_USER |-> Row(msg_deauthenticate_user,
       process_msg_deauthenticate_user, send_msg_deauthenticate_user),
     MSG_DISCONNECT_USER |-> Row(msg_disconnect_user,
       process_msg_disconnect_user, send_msg_disconnect_user),
     MSG_GET_POWERSAVEMODE |-> Row(msg_powersavemode,
       process_msg_powersavemode(TRUE), send_msg_get_powersavemode),
     MSG_SET_POWERSAVEMODE |-> Row(msg_powersavemode,
       process_msg_powersavemode(FALSE), send_msg_set_powersavemode),
     MSG_GET_DELAY |-> Row(msg_delay, process_msg_delay, send_msg_delay),
     MSG_GET_FAILED |-> Row(msg_failed, process_msg_failed, send_msg_failed),
     MSG_GET_JITTER |-> Row(msg_jitter, process_msg_jitter, send_msg_jitter),
     MSG_GET_FASTBSSTRANSITION_COMPATIBLE |->
       Row(msg_fastbsstransition_compatible,
           process_msg_fastbsstransition_compatible,
           send_msg_fastbsstransition_compatible),
     MSG_GET_FREQUENCY |->
       Row(msg_frequency, process_msg_frequency(TRUE), send_msg_get_frequency),
     MSG_SET_FREQUENCY |-> Row(msg_frequency,
       process_msg_frequency(FALSE), send_msg_set_frequency),
     MSG_ASSOCIATION |-> Row(msg_association_process,
       process_msg_association_process, send_msg_association_process),
     MSG_DISASSOCIATION |-> Row(msg_association_process,
       process_msg_association_process, send_msg_association_process),
     MSG_REASSOCIATION |-> Row(msg_association_process,
       process_msg_association_process, send_msg_association_process),
     MSG_AUTHORIZATION |-> Row(msg_association_process,
       process_msg_association_process, send_msg_association_process),
     MSG_USER_DISCONNECTING |-> Row(msg_association_process,
       process_msg_association_process, send_msg_association_process),
     MSG_USER_CONNECTING |-> Row(msg_association_process,
       process_msg_association_process, send_msg_association_process)]

servlet_radio ==
    [MSG_GET_SNR |-> Row(msg_snr, process_msg_snr, send_msg_snr),
     MSG_GET_MAC |-> Row(msg_mac, process_msg_mac, send_msg_get_mac),
     MSG_GET_RADIO_WLANS |->
       Row(msg_radio_wlans, process_msg_radio_wlans, send_msg_radio_wlans),
     MSG_GET_VALIDCHANNELS |->
       Row(msg_channels, process_msg_channels, send_msg_get_valid_channels),
     MSG_GET_ALL_INTF |->
       Row(msg_intf, process_msg_intf, generic_get_intf_msg),
     MSG_GET_ONE_INTF |->
       Row(msg_intf, process_msg_intf, generic_get_intf_msg),
     MSG_GET_RADIO_LINKSTATISTICS |-> Row(msg_radio_linkstatistics,
       process_msg_radio_linkstatistics, send_msg_radio_linkstatistics),
     MSG_GET_CURRENTCHANNEL |-> Row(msg_currentchannel,
       process_msg_currentchannel(TRUE), send_msg_get_currentchannel),
     MSG_SET_CURRENTCHANNEL |-> Row(msg_currentchannel,
       process_msg_currentchannel(FALSE), send_msg_set_currentchannel),
     MSG_WLAN_INFO |->
       Row(msg_wlan_info, process_msg_wlan_info, send_msg_get_wlan_info),
     MSG_INFORM_BEACON |->
       Row(msg_beaconinfo, process_msg_beaconinfo, send_msg_beaconinfo),
     MSG_GET_CHANNELBANDWITDH |-> Row(msg_channelbandwitdh,
       process_msg_channelbandwitdh(TRUE), send_msg_get_channelbandwitdh),
     MSG_SET_CHANNELBANDWITDH |-> Row(msg_channelbandwitdh,
       process_msg_channelbandwitdh(FALSE), send_msg_set_channelbandwitdh),
     MSG_GET_TXPOWER |->
       Row(msg_txpower, process_msg_txpower(TRUE), send_msg_get_txpower),
     MSG_SET_TXPOWER |->
       Row(msg_txpower, process_msg_txpower(FALSE), send_msg_set_txpower),
     MSG_SET_SNR_THRESHOLD |-> Row(msg_snr_threshold,
       process_msg_snr_threshold, send_msg_set_snr_threshold),
     MSG_SET_SNR_INTERVAL |-> Row(msg_snr_interval,
       process_msg_snr_interval, send_msg_set_snr_interval)]

servlet_network ==
    [MSG_GET_AP_IN_RANGE_TYPE |->
       Row(msg_ap_in_range, process_msg_ap_in_range, send_msg_get_ap_in_range),
     MSG_GET_IPV4_ADDRESS |-> Row(msg_ip_address,
       process_msg_ipv4_address(TRUE), send_msg_get_ip_address),
     MSG_SET_IPV4_ADDRESS |->
       Row(msg_ip_address,
           process_msg_ipv4_address(FALSE),
           send_msg_set_ip_address("MSG_SET_IPV4_ADDRESS")),
     MSG_GET_IPV6_ADDRESS |-> Row(msg_ip_address,
       process_msg_ipv6_address(TRUE), send_msg_get_ip_address),
     MSG_SET_IPV6_ADDRESS |->
       Row(msg_ip_address,
           process_msg_ipv6_address(FALSE),
           send_msg_set_ip_address("MSG_SET_IPV6_ADDRESS")),
     MSG_GET_RETRIES |->
       Row(msg_retries, process_msg_retries, send_msg_retries),
     MSG_GET_UPTIME |-> Row(msg_uptime, process_msg_uptime, send_msg_uptime),
     MSG_GET_ROUTES |->
       Row(msg_ap_routes, process_msg_ap_routes, send_msg_ap_get_routes),
     MSG_GET_AP_SSID |->
       Row(msg_ap_ssid, process_msg_ap_ssid, send_msg_ap_get_ssid),
     MSG_GET_MEMORY |->
       Row(msg_memory, process_msg_memory, send_msg_get_memory),
     MSG_GET_CPU |-> Row(msg_cpu, process_msg_cpu, send_msg_get_cpu),
     MSG_GET_CHANNELINFO |->
       Row(msg_channelinfo, process_msg_channelinfo, send_msg_channelinfo),
     MSG_REQUEST_BEACON |-> Row(msg_request_beacon,
       process_msg_request_beacon, send_msg_request_beacon),
     MSG_GET_INTERFERENCEMAP |-> Row(msg_interferencemap,
       process_msg_interferencemap, send_msg_interferencemap),
     MSG_REQUEST_BEGIN_ASSOCIATION |->
       Row(msg_request_begin_association,
           process_msg_request_begin_association,
           send_msg_request_begin_association),
     MSG_SCAN |->
       Row(msg_scan_received, process_msg_scan_received, send_msg_get_scan),
     MSG_GET_FRAGMENTATIONTHRESHOLD |->
       Row(msg_fragmentationthreshold,
           process_msg_fragmentationthreshold(TRUE),
           send_msg_ap_get_fragmentationthreshold),
     MSG_SET_FRAGMENTATIONTHRESHOLD |->
       Row(msg_fragmentationthreshold,
           process_msg_fragmentationthreshold(FALSE),
           send_msg_ap_set_fragmentationthreshold),
     MSG_GET_NOISEINFO |->
       Row(msg_noiseinfo, process_msg_noiseinfo, send_msg_get_noiseinfo)]

servlet_extended ==
    [MSG_VAP_CREATE |->
       Row(msg_vap, process_msg_vap_create, send_msg_vap_create),
     MSG_GET_TX_BITRATES |->
       Row(msg_tx_bitrates, process_msg_tx_bitrates, get_msg_tx_bitrates),
     MSG_GET_TX_BITRATE |->
       Row(msg_tx_bitrate, process_msg_get_tx_bitrate, get_msg_tx_bitrate),
     MSG_SET_TX_BITRATES |-> Row(msg_set_tx_bitrates,
       process_msg_set_tx_bitrate, set_msg_tx_bitrates),
     MSG_GET_LINK_INFO |-> Row(msg_sta_link_information,
       process_msg_sta_link_information, get_msg_sta_link_information),
     MSG_GET_SUPPORTEDINTERFACE |-> Row(msg_supportedinterface,
       process_msg_supportedinterface, send_msg_supportedinterface),
     MSG_GET_LOCATION |->
       Row(msg_location, process_msg_location, send_msg_location),
     MSG_SET_CONF_SSID_RADIO |-> Row(msg_conf_ssid_radio,
       process_msg_conf_ssid_radio, send_msg_conf_ssid_radio),
     MSG_GET_STATISTICS |->
       Row(msg_statistics, process_msg_statistics, send_msg_get_statistics),
     MSG_GET_ACS |-> Row(msg_acs, process_msg_acs, send_msg_get_acs),
     MSG_GET_STA_STATISTICS |-> Row(msg_sta_statistics,
       process_msg_sta_statistics, send_msg_get_sta_statistics),
     MSG_SET_SNR_THRESHOLD_REACHED |-> Row(msg_snr_threshold_reached,
       process_msg_snr_threshold_reached, send_msg_snr_threshold_reached),
     MSG_CHANGED_AP |->
       Row(msg_changed_ap, process_msg_changed_ap, send_msg_changed_ap),
     MSG_MEAN_STA_STATISTICS_GET |-> Row(msg_mean_sta_statistics,
       process_msg_mean_sta_statistics(TRUE), send_msg_mean_sta_statistics),
     MSG_MEAN_STA_STATISTICS_SET_INTERFACE |->
       Row(msg_mean_sta_statistics_interface,
           process_msg_mean_sta_statistics(FALSE),
           send_msg_mean_sta_statistics_interface),
     MSG_MEAN_STA_STATISTICS_REMOVE_INTERFACE |->
       Row(msg_mean_sta_statistics_interface,
           process_msg_mean_sta_statistics(FALSE),
           send_msg_mean_sta_statistics_interface),
     MSG_MEAN_STA_STATISTICS_SET_ALPHA |->
       Row(msg_mean_sta_statistics_alpha,
           process_msg_mean_sta_statistics(FALSE),
           send_msg_mean_sta_statistics_alpha),
     MSG_MEAN_STA_STATISTICS_SET_TIME |->
       Row(msg_mean_sta_statistics_time,
           process_msg_mean_sta_statistics(FALSE),
           send_msg_mean_sta_statistics_time),
     MSG_TRIGGER_TRANSITION |->
       Row(msg_station_trigger_transition,
           process_msg_station_trigger_transition,
           send_msg_station_trigger_transition),
     MSG_TOS_CLEANALL |->
       Row(msg_tos_cleanall, process_msg_tos_cleanall, send_msg_tos_cleanall),
     MSG_TOS_ADD |-> Row(msg_send_tos, process_msg_tos_add, sent_tos),
     MSG_TOS_REPLACE |-> Row(msg_send_tos, process_msg_tos_replace, sent_tos),
     MSG_SET_MTU |-> Row(msg_set_mtu, process_msg_set_mtu, send_msg_set_mtu),
     MSG_SET_TXQUEUELEN |-> Row(msg_set_txqueuelen,
       process_msg_set_txqueuelen, send_msg_set_txqueuelen),
     MSG_GET_PREAMBLE |-> Row(msg_preamble, NoCase, send_msg_get_preamble),
     MSG_SET_PREAMBLE |-> Row(msg_preamble, NoCase, send_msg_set_preamble)]

MsgType ==
    DOMAIN servlet_general \cup DOMAIN servlet_counters
      \cup DOMAIN servlet_radio \cup DOMAIN servlet_network
      \cup DOMAIN servlet_extended

MessageTable ==
    [t \in MsgType |->
        CASE t \in DOMAIN servlet_general  -> servlet_general[t]
          [] t \in DOMAIN servlet_counters -> servlet_counters[t]
          [] t \in DOMAIN servlet_radio    -> servlet_radio[t]
          [] t \in DOMAIN servlet_network  -> servlet_network[t]
          [] t \in DOMAIN servlet_extended -> servlet_extended[t]]

\* A ping is answered by a pong, a type without a case by an error message.
ReplyType(t) ==
    CASE t = "MSG_PING"                            -> "MSG_PONG"
      [] MessageTable[t].process.local = "error"       -> "MSG_ERR_TYPE"
      [] OTHER                                     -> t

ReplyLayout(t) ==
    CASE ReplyType(t) = "MSG_PONG"     -> msg_pong
      [] ReplyType(t) = "MSG_ERR_TYPE" -> msg_error
      [] OTHER                         -> MessageTable[t].layout

=============================================================================
