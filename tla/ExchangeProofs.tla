---------------------------- MODULE ExchangeProofs ----------------------------
(***************************************************************************)
(* Proofs about module Exchange.                                           *)
(***************************************************************************)
EXTENDS Exchange, NatLemmas, SequenceTheorems

-----------------------------------------------------------------------------
(* The rows of the table of messages *)

\* Which requests can end the process of an AP that passes them on.
Surviving(t, r) ==
    r.process.relays =>
      /\ ({"relayed", "failed"} \cap (r.process.null \cup r.process.wild) # {}
          \/ r.send.slip = "filling") =>
           t \in {"MSG_SCAN", "MSG_GET_STATISTICS", "MSG_GET_ROUTES"}
      /\ r.send.slip = "sent" => t = "MSG_WLAN_INFO"
      /\ r.send.slip # "answered"

\* Which handlers look at the name of the interface first.
Skipping(t, r) ==
    /\ r.process.skips \in {"nothing", "relay", "all"}
    /\ r.process.skips = "all" <=> t = "MSG_GET_ACS"
    /\ r.process.skips = "relay" <=> t = "MSG_GET_FREQUENCY"
    /\ r.process.skips # "nothing" => r.process.local = "own"

\* Which handlers work on the AP whomever the request names.
Placed(t, r) ==
    (/\ r.send.station /\ ~r.process.relays
     /\ r.process.local \in {"own", "ap"}) => t \in Misplaced

\* Which requests get an answer of the node they are for ...
Answering(t, r) ==
    r.send.waits /\ t \notin Unanswered =>
      /\ r.process.replies
      /\ IF t \in UnansweredByStation
         THEN IF r.process.relays THEN r.process.local = "ap"
              ELSE r.process.local \in {"own", "here"}
         ELSE /\ r.process.local \in {"own", "fixed"}
              /\ r.send.station /\ ~r.process.relays =>
                   r.process.local = "fixed"

\* ... whose type the sender expects ...
Expecting(t, r) ==
    r.send.waits /\ t \notin Unanswered =>
      IF t = "MSG_PING" THEN "MSG_PONG" \in r.send.expects
      ELSE t \in r.send.expects \/ "any" \in r.send.expects

\* ... and which do not.
NotAnswering(t, r) ==
    t \in Unanswered =>
      \/ ~r.process.replies
      \/ r.process.local = "asked"
      \/ /\ "any" \notin r.send.expects /\ t \notin r.send.expects
         /\ r.process.local # "error"
      \/ /\ "any" \notin r.send.expects
         /\ "MSG_ERR_TYPE" \notin r.send.expects
         /\ r.process.local = "error"

RowSound(t, r) ==
    /\ r.process.failed \in {"asked", "empty"}
    /\ Surviving(t, r) /\ Skipping(t, r) /\ Placed(t, r)
    /\ Answering(t, r) /\ Expecting(t, r) /\ NotAnswering(t, r)
    /\ t \in Misplaced => ~r.process.relays
    /\ t = "MSG_PING" => ~r.process.relays
    /\ r.send.tested => r.process.replies

LEMMA ServletGeneral ==
    ASSUME NEW t \in DOMAIN servlet_general
    PROVE  RowSound(t, servlet_general[t])
<1> USE DEF servlet_general, process_msg_hello, send_msg_hello,
       process_msg_bye, send_msg_bye, process_msg_ping, send_msg_ping,
       process_msg_802_11e_enabled, send_msg_802_11e_enabled,
       process_msg_ap_ctsprotection_enabled,
       send_msg_ap_ctsprotection_enabled,
       send_msg_ap_set_ctsprotection_enabled, process_msg_ap_broadcastssid,
       send_msg_get_ap_broadcastssid, send_msg_set_ap_broadcastssid,
       process_msg_ap_frameburstenabled, send_msg_ap_get_frameburstenabled,
       send_msg_ap_set_frameburstenabled, process_msg_ap_guardinterval,
       send_msg_get_ap_guardinterval, send_msg_set_ap_guardinterval,
       process_msg_ap_dtiminterval, send_msg_get_ap_dtiminterval,
       send_msg_set_ap_dtiminterval, process_msg_ap_rtsthreshold,
       send_msg_ap_get_rtsthreshold, send_msg_ap_set_rtsthreshold,
       process_msg_beacon_interval, send_msg_get_beacon_interval,
       send_msg_set_beacon_interval, Row, Handler, Asks, Tells, Answers,
       Applies, Null, Wild, Slips, Sender, Waits, Posts, Unanswered,
       UnansweredByStation, Misplaced
<1>1. servlet_general[t].process.failed \in {"asked", "empty"}
  BY SMTT(90)
<1>2. Surviving(t, servlet_general[t])
  BY SMTT(90) DEF Surviving
<1>11. Skipping(t, servlet_general[t])
  BY SMTT(90) DEF Skipping
<1>3. Placed(t, servlet_general[t])
  BY SMTT(90) DEF Placed
<1>4. Answering(t, servlet_general[t])
  BY SMTT(90) DEF Answering
<1>5. Expecting(t, servlet_general[t])
  BY SMTT(90) DEF Expecting
<1>6. NotAnswering(t, servlet_general[t])
  BY SMTT(90) DEF NotAnswering
<1>7. t \in Misplaced => ~servlet_general[t].process.relays
  BY SMTT(90)
<1>8. t = "MSG_PING" => ~servlet_general[t].process.relays
  BY SMTT(90)
<1>9. servlet_general[t].send.tested => servlet_general[t].process.replies
  BY SMTT(90)
<1>10. QED
  BY <1>1, <1>2, <1>3, <1>4, <1>5, <1>6, <1>7, <1>8, <1>9, <1>11, Zenon
     DEF RowSound

LEMMA ServletCounters ==
    ASSUME NEW t \in DOMAIN servlet_counters
    PROVE  RowSound(t, servlet_counters[t])
<1> USE DEF servlet_counters, process_msg_bytesreceived,
       send_msg_bytesreceived, process_msg_bytessent, send_msg_bytessent,
       process_msg_packetsreceived, send_msg_get_packetsreceived,
       process_msg_packetslost, send_msg_get_packetslost,
       process_msg_packetssent, send_msg_get_packetssent,
       process_msg_deauthenticate_user, send_msg_deauthenticate_user,
       process_msg_disconnect_user, send_msg_disconnect_user,
       process_msg_powersavemode, send_msg_get_powersavemode,
       send_msg_set_powersavemode, process_msg_delay, send_msg_delay,
       process_msg_failed, send_msg_failed, process_msg_jitter,
       send_msg_jitter, process_msg_fastbsstransition_compatible,
       send_msg_fastbsstransition_compatible, process_msg_frequency,
       send_msg_get_frequency, send_msg_set_frequency,
       process_msg_association_process, send_msg_association_process, Row,
       Handler, Asks, Tells, Answers, Applies, Null, Wild, Slips, Sender,
       Waits, Posts, Unanswered, UnansweredByStation, Misplaced,
       AssociationType
<1>1. servlet_counters[t].process.failed \in {"asked", "empty"}
  BY SMTT(90)
<1>2. Surviving(t, servlet_counters[t])
  BY SMTT(90) DEF Surviving
<1>11. Skipping(t, servlet_counters[t])
  BY SMTT(90) DEF Skipping
<1>3. Placed(t, servlet_counters[t])
  BY SMTT(90) DEF Placed
<1>4. Answering(t, servlet_counters[t])
  BY SMTT(90) DEF Answering
<1>5. Expecting(t, servlet_counters[t])
  BY SMTT(90) DEF Expecting
<1>6. NotAnswering(t, servlet_counters[t])
  BY SMTT(90) DEF NotAnswering
<1>7. t \in Misplaced => ~servlet_counters[t].process.relays
  BY SMTT(90)
<1>8. t = "MSG_PING" => ~servlet_counters[t].process.relays
  BY SMTT(90)
<1>9. servlet_counters[t].send.tested => servlet_counters[t].process.replies
  BY SMTT(90)
<1>10. QED
  BY <1>1, <1>2, <1>3, <1>4, <1>5, <1>6, <1>7, <1>8, <1>9, <1>11, Zenon
     DEF RowSound

LEMMA ServletRadio ==
    ASSUME NEW t \in DOMAIN servlet_radio
    PROVE  RowSound(t, servlet_radio[t])
<1> USE DEF servlet_radio, process_msg_snr, send_msg_snr, process_msg_mac,
       send_msg_get_mac, process_msg_radio_wlans, send_msg_radio_wlans,
       process_msg_channels, send_msg_get_valid_channels, process_msg_intf,
       generic_get_intf_msg, process_msg_radio_linkstatistics,
       send_msg_radio_linkstatistics, process_msg_currentchannel,
       send_msg_get_currentchannel, send_msg_set_currentchannel,
       process_msg_wlan_info, send_msg_get_wlan_info, process_msg_beaconinfo,
       send_msg_beaconinfo, process_msg_channelbandwitdh,
       send_msg_get_channelbandwitdh, send_msg_set_channelbandwitdh,
       process_msg_txpower, send_msg_get_txpower, send_msg_set_txpower,
       process_msg_snr_threshold, send_msg_set_snr_threshold,
       process_msg_snr_interval, send_msg_set_snr_interval, Row, Handler,
       Asks, Tells, Answers, Applies, Null, Wild, Slips, Sender, Waits, Posts,
       Unanswered, UnansweredByStation, Misplaced
<1>1. servlet_radio[t].process.failed \in {"asked", "empty"}
  BY SMTT(90)
<1>2. Surviving(t, servlet_radio[t])
  BY SMTT(90) DEF Surviving
<1>11. Skipping(t, servlet_radio[t])
  BY SMTT(90) DEF Skipping
<1>3. Placed(t, servlet_radio[t])
  BY SMTT(90) DEF Placed
<1>4. Answering(t, servlet_radio[t])
  BY SMTT(90) DEF Answering
<1>5. Expecting(t, servlet_radio[t])
  BY SMTT(90) DEF Expecting
<1>6. NotAnswering(t, servlet_radio[t])
  BY SMTT(90) DEF NotAnswering
<1>7. t \in Misplaced => ~servlet_radio[t].process.relays
  BY SMTT(90)
<1>8. t = "MSG_PING" => ~servlet_radio[t].process.relays
  BY SMTT(90)
<1>9. servlet_radio[t].send.tested => servlet_radio[t].process.replies
  BY SMTT(90)
<1>10. QED
  BY <1>1, <1>2, <1>3, <1>4, <1>5, <1>6, <1>7, <1>8, <1>9, <1>11, Zenon
     DEF RowSound

\* The fields of a handler that misuses memory.
Fields(process, plain, null, wild) ==
    /\ process.relays = plain.relays /\ process.failed = plain.failed
    /\ process.local = plain.local /\ process.replies = plain.replies
    /\ process.skips = plain.skips
    /\ process.null = null /\ process.wild = wild

LEMMA NetworkFields ==
    /\ Fields(process_msg_ap_routes, Asks("asked"), {"failed"}, {"always"})
    /\ Fields(process_msg_scan_received, Asks("asked"), {"failed"},
              {"relayed"})
    /\ Fields(process_msg_noiseinfo, Answers("here"), {}, {"station"})
<1> USE DEF Fields, Null, Wild, Asks, Answers, Handler
<1>1. Fields(process_msg_ap_routes, Asks("asked"), {"failed"}, {"always"})
  BY DEF process_msg_ap_routes
<1>2. Fields(process_msg_scan_received, Asks("asked"), {"failed"},
             {"relayed"})
  BY DEF process_msg_scan_received
<1>3. Fields(process_msg_noiseinfo, Answers("here"), {}, {"station"})
  BY DEF process_msg_noiseinfo
<1> HIDE DEF Fields, Null, Wild, Asks, Answers, Handler
<1>4. QED
  BY <1>1, <1>2, <1>3

LEMMA ExtendedFields ==
    /\ Fields(process_msg_tx_bitrates, Asks("asked"), {"missing"}, {})
    /\ Fields(process_msg_set_tx_bitrate, Applies("own"), {}, {"always"})
    /\ Fields(process_msg_statistics, Asks("asked"), {"missing_ap"},
              {"relayed"})
    /\ Fields(process_msg_acs, [Asks("asked") EXCEPT !.skips = "all"],
              {"missing"}, {})
<1> USE DEF Fields, Null, Wild, Asks, Applies, Handler
<1>1. Fields(process_msg_tx_bitrates, Asks("asked"), {"missing"}, {})
  BY DEF process_msg_tx_bitrates
<1>2. Fields(process_msg_set_tx_bitrate, Applies("own"), {}, {"always"})
  BY DEF process_msg_set_tx_bitrate
<1>3. Fields(process_msg_statistics, Asks("asked"), {"missing_ap"},
             {"relayed"})
  BY DEF process_msg_statistics
<1>4. Fields(process_msg_acs, [Asks("asked") EXCEPT !.skips = "all"],
             {"missing"}, {})
  BY DEF process_msg_acs
<1> HIDE DEF Fields, Null, Wild, Asks, Applies, Handler
<1>5. QED
  BY <1>1, <1>2, <1>3, <1>4

LEMMA ServletNetwork ==
    ASSUME NEW t \in DOMAIN servlet_network
    PROVE  RowSound(t, servlet_network[t])
<1>1. CASE t = "MSG_GET_IPV4_ADDRESS"
  <2>1. /\ servlet_network[t].process = process_msg_ipv4_address(TRUE)
        /\ servlet_network[t].send = send_msg_get_ip_address
    BY <1>1 DEF servlet_network, Row
  <2>2. QED
    BY <1>1, <2>1
       DEF process_msg_ipv4_address, Null, Asks, Applies, Handler,
           send_msg_get_ip_address, Slips, Sender, Waits, Posts, RowSound,
           Surviving, Skipping, Placed, Answering, Expecting, NotAnswering,
           Unanswered, UnansweredByStation, Misplaced
<1>2. CASE t = "MSG_SET_IPV4_ADDRESS"
  <2>1. /\ servlet_network[t].process = process_msg_ipv4_address(FALSE)
        /\ servlet_network[t].send =
             send_msg_set_ip_address("MSG_SET_IPV4_ADDRESS")
    BY <1>2 DEF servlet_network, Row
  <2>2. QED
    BY <1>2, <2>1
       DEF process_msg_ipv4_address, Null, Asks, Applies, Handler,
           send_msg_set_ip_address, Slips, Sender, Waits, Posts, RowSound,
           Surviving, Skipping, Placed, Answering, Expecting, NotAnswering,
           Unanswered, UnansweredByStation, Misplaced
<1>3. CASE t = "MSG_GET_IPV6_ADDRESS"
  <2>1. /\ servlet_network[t].process = process_msg_ipv6_address(TRUE)
        /\ servlet_network[t].send = send_msg_get_ip_address
    BY <1>3 DEF servlet_network, Row
  <2>2. QED
    BY <1>3, <2>1
       DEF process_msg_ipv6_address, Null, Asks, Applies, Handler,
           send_msg_get_ip_address, Slips, Sender, Waits, Posts, RowSound,
           Surviving, Skipping, Placed, Answering, Expecting, NotAnswering,
           Unanswered, UnansweredByStation, Misplaced
<1>4. CASE t = "MSG_SET_IPV6_ADDRESS"
  <2>1. /\ servlet_network[t].process = process_msg_ipv6_address(FALSE)
        /\ servlet_network[t].send =
             send_msg_set_ip_address("MSG_SET_IPV6_ADDRESS")
    BY <1>4 DEF servlet_network, Row
  <2>2. QED
    BY <1>4, <2>1
       DEF process_msg_ipv6_address, Null, Asks, Applies, Handler,
           send_msg_set_ip_address, Slips, Sender, Waits, Posts, RowSound,
           Surviving, Skipping, Placed, Answering, Expecting, NotAnswering,
           Unanswered, UnansweredByStation, Misplaced
<1>5. CASE t = "MSG_GET_ROUTES"
  <2>1. /\ servlet_network[t].process = process_msg_ap_routes
        /\ servlet_network[t].send = send_msg_ap_get_routes
    BY <1>5 DEF servlet_network, Row
  <2>2. QED
    BY <1>5, <2>1, NetworkFields
       DEF Fields, Asks, Answers, Applies, Handler, send_msg_ap_get_routes,
           Slips, Sender, Waits, Posts, RowSound, Surviving, Skipping, Placed,
           Answering, Expecting, NotAnswering, Unanswered, UnansweredByStation,
           Misplaced
<1>6. CASE t = "MSG_SCAN"
  <2>1. /\ servlet_network[t].process = process_msg_scan_received
        /\ servlet_network[t].send = send_msg_get_scan
    BY <1>6 DEF servlet_network, Row
  <2>2. QED
    BY <1>6, <2>1, NetworkFields
       DEF Fields, Asks, Answers, Applies, Handler, send_msg_get_scan, Slips,
           Sender, Waits, Posts, RowSound, Surviving, Skipping, Placed,
           Answering, Expecting, NotAnswering, Unanswered,
           UnansweredByStation, Misplaced
<1>7. CASE t = "MSG_GET_NOISEINFO"
  <2>1. /\ servlet_network[t].process = process_msg_noiseinfo
        /\ servlet_network[t].send = send_msg_get_noiseinfo
    BY <1>7 DEF servlet_network, Row
  <2>2. QED
    BY <1>7, <2>1, NetworkFields
       DEF Fields, Asks, Answers, Applies, Handler, send_msg_get_noiseinfo,
           Slips,
           Sender, Waits, Posts, RowSound, Surviving, Skipping, Placed,
           Answering, Expecting, NotAnswering, Unanswered,
           UnansweredByStation, Misplaced
<1>8. CASE t \notin {"MSG_GET_IPV4_ADDRESS",
                       "MSG_SET_IPV4_ADDRESS",
                       "MSG_GET_IPV6_ADDRESS",
                       "MSG_SET_IPV6_ADDRESS",
                       "MSG_GET_ROUTES",
                       "MSG_SCAN",
                       "MSG_GET_NOISEINFO"}
  <2> USE <1>8 DEF servlet_network, process_msg_ap_in_range,
       send_msg_get_ap_in_range, send_msg_get_ip_address,
       send_msg_set_ip_address, process_msg_retries, send_msg_retries,
       process_msg_uptime, send_msg_uptime, send_msg_ap_get_routes,
       process_msg_ap_ssid, send_msg_ap_get_ssid, process_msg_memory,
       send_msg_get_memory, process_msg_cpu, send_msg_get_cpu,
       process_msg_channelinfo, send_msg_channelinfo,
       process_msg_request_beacon, send_msg_request_beacon,
       process_msg_interferencemap, send_msg_interferencemap,
       process_msg_request_begin_association,
       send_msg_request_begin_association, send_msg_get_scan,
       process_msg_fragmentationthreshold,
       send_msg_ap_get_fragmentationthreshold,
       send_msg_ap_set_fragmentationthreshold, send_msg_get_noiseinfo, Row,
       Handler, Asks, Tells, Answers, Applies, Slips, Sender, Waits, Posts,
       Unanswered, UnansweredByStation, Misplaced
  <2>1. servlet_network[t].process.failed \in {"asked", "empty"}
    BY SMTT(90)
  <2>2. Surviving(t, servlet_network[t])
    BY SMTT(90) DEF Surviving
  <2>11. Skipping(t, servlet_network[t])
    BY SMTT(90) DEF Skipping
  <2>3. Placed(t, servlet_network[t])
    BY SMTT(90) DEF Placed
  <2>4. Answering(t, servlet_network[t])
    BY SMTT(90) DEF Answering
  <2>5. Expecting(t, servlet_network[t])
    BY SMTT(90) DEF Expecting
  <2>6. NotAnswering(t, servlet_network[t])
    BY SMTT(90) DEF NotAnswering
  <2>7. t \in Misplaced => ~servlet_network[t].process.relays
    BY SMTT(90)
  <2>8. t = "MSG_PING" => ~servlet_network[t].process.relays
    BY SMTT(90)
  <2>9. servlet_network[t].send.tested => servlet_network[t].process.replies
    BY SMTT(90)
  <2> HIDE DEF servlet_network
  <2>10. QED
    BY <2>1, <2>2, <2>3, <2>4, <2>5, <2>6, <2>7, <2>8, <2>9, <2>11, Zenon
       DEF RowSound
<1>9. QED
  BY <1>1, <1>2, <1>3, <1>4, <1>5, <1>6, <1>7, <1>8, Zenon

LEMMA ServletExtended ==
    ASSUME NEW t \in DOMAIN servlet_extended
    PROVE  RowSound(t, servlet_extended[t])
<1>1. CASE t = "MSG_GET_TX_BITRATES"
  <2>1. /\ servlet_extended[t].process = process_msg_tx_bitrates
        /\ servlet_extended[t].send = get_msg_tx_bitrates
    BY <1>1 DEF servlet_extended, Row
  <2>2. QED
    BY <1>1, <2>1, ExtendedFields
       DEF Fields, Asks, Answers, Applies, Handler, get_msg_tx_bitrates, Slips,
           Sender, Waits, Posts, RowSound, Surviving, Skipping, Placed,
           Answering, Expecting, NotAnswering, Unanswered,
           UnansweredByStation, Misplaced
<1>2. CASE t = "MSG_SET_TX_BITRATES"
  <2>1. /\ servlet_extended[t].process = process_msg_set_tx_bitrate
        /\ servlet_extended[t].send = set_msg_tx_bitrates
    BY <1>2 DEF servlet_extended, Row
  <2>2. QED
    BY <1>2, <2>1, ExtendedFields
       DEF Fields, Asks, Answers, Applies, Handler, set_msg_tx_bitrates, Slips,
           Sender, Waits, Posts, RowSound, Surviving, Skipping, Placed,
           Answering, Expecting, NotAnswering, Unanswered,
           UnansweredByStation, Misplaced
<1>3. CASE t = "MSG_GET_STATISTICS"
  <2>1. /\ servlet_extended[t].process = process_msg_statistics
        /\ servlet_extended[t].send = send_msg_get_statistics
    BY <1>3 DEF servlet_extended, Row
  <2>2. QED
    BY <1>3, <2>1, ExtendedFields
       DEF Fields, Asks, Answers, Applies, Handler, send_msg_get_statistics,
           Slips, Sender, Waits, Posts, RowSound, Surviving, Skipping, Placed,
           Answering, Expecting, NotAnswering, Unanswered, UnansweredByStation,
           Misplaced
<1>4. CASE t = "MSG_GET_ACS"
  <2>1. /\ servlet_extended[t].process = process_msg_acs
        /\ servlet_extended[t].send = send_msg_get_acs
    BY <1>4 DEF servlet_extended, Row
  <2>2. QED
    BY <1>4, <2>1, ExtendedFields
       DEF Fields, Asks, Answers, Applies, Handler, send_msg_get_acs, Slips,
           Sender, Waits, Posts, RowSound, Surviving, Skipping, Placed,
           Answering, Expecting, NotAnswering, Unanswered,
           UnansweredByStation, Misplaced
<1>5. CASE t \notin {"MSG_GET_TX_BITRATES",
                       "MSG_SET_TX_BITRATES",
                       "MSG_GET_STATISTICS",
                       "MSG_GET_ACS"}
  <2> USE <1>5 DEF servlet_extended, process_msg_vap_create,
       send_msg_vap_create, get_msg_tx_bitrates, process_msg_get_tx_bitrate,
       get_msg_tx_bitrate, set_msg_tx_bitrates,
       process_msg_sta_link_information, get_msg_sta_link_information,
       process_msg_supportedinterface, send_msg_supportedinterface,
       process_msg_location, send_msg_location, process_msg_conf_ssid_radio,
       send_msg_conf_ssid_radio, send_msg_get_statistics, send_msg_get_acs,
       process_msg_sta_statistics, send_msg_get_sta_statistics,
       process_msg_snr_threshold_reached, send_msg_snr_threshold_reached,
       process_msg_changed_ap, send_msg_changed_ap,
       process_msg_mean_sta_statistics, send_msg_mean_sta_statistics,
       send_msg_mean_sta_statistics_interface,
       send_msg_mean_sta_statistics_alpha, send_msg_mean_sta_statistics_time,
       process_msg_station_trigger_transition,
       send_msg_station_trigger_transition, process_msg_tos_cleanall,
       send_msg_tos_cleanall, process_msg_tos_add, sent_tos,
       process_msg_tos_replace, process_msg_set_mtu, send_msg_set_mtu,
       process_msg_set_txqueuelen, send_msg_set_txqueuelen, NoCase,
       send_msg_get_preamble, send_msg_set_preamble, Row, Handler, Asks, Tells,
       Answers, Applies, Slips, Sender, Waits, Posts, Unanswered,
       UnansweredByStation, Misplaced
  <2>1. servlet_extended[t].process.failed \in {"asked", "empty"}
    BY SMTT(90)
  <2>2. Surviving(t, servlet_extended[t])
    BY SMTT(90) DEF Surviving
  <2>11. Skipping(t, servlet_extended[t])
    BY SMTT(90) DEF Skipping
  <2>3. Placed(t, servlet_extended[t])
    BY SMTT(90) DEF Placed
  <2>4. Answering(t, servlet_extended[t])
    BY SMTT(90) DEF Answering
  <2>5. Expecting(t, servlet_extended[t])
    BY SMTT(90) DEF Expecting
  <2>6. NotAnswering(t, servlet_extended[t])
    BY SMTT(90) DEF NotAnswering
  <2>7. t \in Misplaced => ~servlet_extended[t].process.relays
    BY SMTT(90)
  <2>8. t = "MSG_PING" => ~servlet_extended[t].process.relays
    BY SMTT(90)
  <2>9. servlet_extended[t].send.tested => servlet_extended[t].process.replies
    BY SMTT(90)
  <2> HIDE DEF servlet_extended
  <2>10. QED
    BY <2>1, <2>2, <2>3, <2>4, <2>5, <2>6, <2>7, <2>8, <2>9, <2>11, Zenon
       DEF RowSound
<1>6. QED
  BY <1>1, <1>2, <1>3, <1>4, <1>5, Zenon

\* Every row of the table is sound.
LEMMA TableSound ==
    ASSUME NEW t \in MsgType
    PROVE  RowSound(t, MessageTable[t])
BY ServletGeneral, ServletCounters, ServletRadio, ServletNetwork,
   ServletExtended DEF MsgType, MessageTable

-----------------------------------------------------------------------------
(* Types *)

CallPc == {"idle", "connect", "write", "read", "check", "close", "done"}

SrvPc ==
    {"idle", "read", "process", "relaying", "write", "free", "ended"}

CallType == [pc : CallPc, buf : Buffer, ret : Value \cup {"null"}]

SrvType == [pc : SrvPc, value : Value]

\* What is left of an exchange when the sender has returned: nothing.
Resting ==
    /\ call = [h \in Hop |-> IdleCall] /\ slots = <<>>
    /\ conn = [h \in Hop |-> "none"] /\ req = [h \in Hop |-> FALSE]
    /\ rep = [h \in Hop |-> None] /\ srv = [h \in Hop |-> IdleSrv]
    /\ worked = {} /\ misused = FALSE /\ silent = {} /\ faults = 0

Asked ==
    /\ ask \in Ask
    /\ ask.try <= TriesOf(ask.type)
    /\ slots \in [1..TriesOf(ask.type) -> Result]

TypeInv ==
    /\ IF ask = None THEN Resting ELSE Asked
    /\ call \in [Hop -> CallType]
    /\ conn \in [Hop -> {"none", "open", "broken"}]
    /\ req \in [Hop -> BOOLEAN]
    /\ rep \in [Hop -> Buffer \cup {None}]
    /\ srv \in [Hop -> SrvType]
    /\ worked \subseteq Node /\ misused \in BOOLEAN
    /\ silent \subseteq Node /\ faults \in 0..MaxFaults

LEMMA ReplyTypeOf ==
    ASSUME NEW t \in MsgType
    PROVE  ReplyType(t) \in MsgType \cup {"MSG_PONG", "MSG_ERR_TYPE"}
BY DEF ReplyType

LEMMA TriesBound ==
    ASSUME NEW t
    PROVE  TriesOf(t) \in 1..Tries /\ Tries \in Nat
BY ExchangeConstants DEF TriesOf

\* What is known of the question while it is asked.
LEMMA AskFacts ==
    ASSUME TypeInv, ask # None
    PROVE  /\ ask \in Ask /\ Asked
           /\ ask.type \in Type /\ ask.type \in MsgType
           /\ RowSound(ask.type, MessageTable[ask.type])
           /\ ask.station \in BOOLEAN /\ ask.try \in 1..Tries
<1>1. ask \in Ask /\ Asked
  BY DEF TypeInv, Asked
<1>2. ask.type \in Type /\ ask.station \in BOOLEAN /\ ask.try \in 1..Tries
  BY <1>1 DEF Ask
<1>3. ask.type \in MsgType
  BY <1>2, ExchangeConstants
<1>4. QED
  BY <1>1, <1>2, <1>3, TableSound

\* A process that is not idle takes part in an exchange.
LEMMA Active ==
    ASSUME TypeInv, NEW h \in Hop,
           call[h].pc # "idle" \/ srv[h].pc # "idle" \/ conn[h] # "none"
    PROVE  ask # None
BY DEF TypeInv, Resting, IdleCall, IdleSrv

LEMMA InitTypes == Init => TypeInv
<1> SUFFICES ASSUME Init
             PROVE  TypeInv
  OBVIOUS
<1>1. IdleCall \in CallType /\ IdleSrv \in SrvType
  BY DEF IdleCall, CallType, CallPc, Buffer, Value, IdleSrv, SrvType, SrvPc
<1>2. faults \in 0..MaxFaults
  BY ExchangeConstants DEF Init
<1>3. misused \in BOOLEAN
  BY DEF Init
<1>4. req \in [Hop -> BOOLEAN]
  BY DEF Init
<1>5. Resting
  BY Zenon DEF Init, Resting
<1>6. ask = None
  BY DEF Init
<1>7. QED
  BY <1>1, <1>2, <1>3, <1>4, <1>5, <1>6 DEF Init, TypeInv

LEMMA BeginTypes ==
    ASSUME TypeInv, NEW type \in Type, NEW station \in BOOLEAN,
           NEW shape \in Shapes, Begin(type, station, shape)
    PROVE  TypeInv'
<1>1. ask' \in Ask /\ ask'.try = 1 /\ ask'.type = type
  BY TriesBound DEF Begin, Ask
<1>2. slots' \in [1..TriesOf(type) -> Result]
  BY DEF Begin, NewSlots, Result
<1>3. Asked' /\ ask' # None
  BY <1>1, <1>2, TriesBound, NoneAssumption DEF Asked
<1>4. call' \in [Hop -> CallType]
  <2>1. PICK b \in {"other", ReplyType(type)} :
          call' = [call EXCEPT
                     ![1].pc = IF Unnamed(type, shape.len) THEN "done"
                               ELSE "connect",
                     ![1].buf = [type |-> b, value |-> "stale"]]
    BY DEF Begin
  <2>2. [type |-> b, value |-> "stale"] \in Buffer
    BY ReplyTypeOf, ExchangeConstants DEF Buffer, Value
  <2> DEFINE pc == IF Unnamed(type, shape.len) THEN "done" ELSE "connect"
             buf == [type |-> b, value |-> "stale"]
  <2>3. pc \in CallPc /\ buf \in Buffer
    BY <2>2 DEF CallPc
  <2>4. call' = [call EXCEPT ![1].pc = pc, ![1].buf = buf]
    BY <2>1
  <2> HIDE DEF pc, buf
  <2>5. call \in [Hop -> CallType] /\ 1 \in Hop
    BY DEF TypeInv, Hop
  <2>6. /\ DOMAIN call' = Hop
        /\ call'[1] = [[call[1] EXCEPT !.pc = pc] EXCEPT !.buf = buf]
        /\ \A g \in Hop : g # 1 => call'[g] = call[g]
    BY <2>4, <2>5
  <2>7. call'[1] \in CallType
    BY <2>3, <2>5, <2>6 DEF CallType
  <2>8. call' = [g \in Hop |-> call'[g]]
    BY <2>4, <2>5
  <2>9. QED
    BY <2>5, <2>6, <2>7, <2>8
<1>5. QED
  BY <1>3, <1>4 DEF TypeInv, Begin

LEMMA ReturnTypes ==
    ASSUME TypeInv, Return
    PROVE  TypeInv'
<1>1. IdleCall \in CallType /\ IdleSrv \in SrvType
  BY DEF IdleCall, CallType, CallPc, Buffer, Value, IdleSrv, SrvType, SrvPc
<1>2. faults' \in 0..MaxFaults
  BY ExchangeConstants DEF Return
<1>3. misused' \in BOOLEAN /\ req' \in [Hop -> BOOLEAN]
  BY DEF Return
<1>4. Resting' /\ ask' = None
  BY Zenon DEF Return, Resting
<1>5. QED
  BY <1>1, <1>2, <1>3, <1>4 DEF Return, TypeInv

\* A step that keeps the question and the slots and the types of the rest.
LEMMA SameQuestion ==
    ASSUME TypeInv, ask # None, UNCHANGED <<ask, slots>>,
           call' \in [Hop -> CallType],
           conn' \in [Hop -> {"none", "open", "broken"}],
           req' \in [Hop -> BOOLEAN],
           rep' \in [Hop -> Buffer \cup {None}],
           srv' \in [Hop -> SrvType],
           worked' \subseteq Node, misused' \in BOOLEAN,
           silent' \subseteq Node, faults' \in 0..MaxFaults
    PROVE  TypeInv'
BY DEF TypeInv, Asked

LEMMA CallToTypes ==
    ASSUME TypeInv, NEW h \in Hop, NEW pc \in CallPc, CallTo(h, pc)
    PROVE  call' \in [Hop -> CallType]
BY DEF TypeInv, CallTo, CallType

LEMMA SrvToTypes ==
    ASSUME TypeInv, NEW h \in Hop, NEW pc \in SrvPc, SrvTo(h, pc)
    PROVE  srv' \in [Hop -> SrvType]
BY DEF TypeInv, SrvTo, SrvType

LEMMA FaultTypes ==
    ASSUME TypeInv, Fault
    PROVE  faults' \in 0..MaxFaults
BY ExchangeConstants DEF TypeInv, Fault

LEMMA ConnectTypes ==
    ASSUME TypeInv, NEW h \in Hop,
           Connect(h) \/ ConnectFails(h) \/ Refused(h) \/ HandshakeFails(h)
    PROVE  TypeInv'
<1> USE DEF Connect, ConnectFails, Refused, HandshakeFails
<1>1. ask # None
  BY Active DEF CallAt
<1>2. call' \in [Hop -> CallType]
  BY CallToTypes DEF CallPc
<1>3. srv' \in [Hop -> SrvType]
  <2>1. CASE Connect(h)
    BY <2>1, SrvToTypes DEF SrvPc
  <2>2. QED
    BY <2>1 DEF TypeInv
<1>4. conn' \in [Hop -> {"none", "open", "broken"}]
  BY DEF TypeInv
<1>5. faults' \in 0..MaxFaults
  BY FaultTypes DEF TypeInv
<1>6. UNCHANGED <<ask, slots, req, rep, worked, silent>>
  OBVIOUS
<1>7. misused' \in BOOLEAN
  BY DEF TypeInv
<1>8. QED
  BY <1>1, <1>2, <1>3, <1>4, <1>5, <1>6, <1>7, SameQuestion DEF TypeInv

LEMMA WriteTypes ==
    ASSUME TypeInv, NEW h \in Hop, Write(h)
    PROVE  TypeInv'
<1>1. ask # None
  BY Active DEF Write, CallAt
<1>2. call' \in [Hop -> CallType]
  BY CallToTypes DEF Write, CallPc
<1>3. req' \in [Hop -> BOOLEAN]
  BY DEF TypeInv, Write
<1>4. misused' \in BOOLEAN
  BY DEF TypeInv, Write
<1>5. UNCHANGED <<ask, slots, conn, rep, srv, worked, silent, faults>>
  BY DEF Write
<1>6. QED
  BY <1>1, <1>2, <1>3, <1>4, <1>5, SameQuestion DEF TypeInv

LEMMA CallerEndsTypes ==
    ASSUME TypeInv, NEW h \in Hop, CallerEnds(h)
    PROVE  TypeInv'
<1>1. ask # None
  BY Active DEF CallerEnds, CallAt
<1>2. call' \in [Hop -> CallType]
  BY CallToTypes DEF CallerEnds, CallPc
<1>3. req' \in [Hop -> BOOLEAN]
  BY DEF TypeInv, CallerEnds
<1>4. rep' \in [Hop -> Buffer \cup {None}]
  BY DEF TypeInv, CallerEnds
<1>5. conn' \in [Hop -> {"none", "open", "broken"}]
  <2> DEFINE c == IF h = 2 /\ conn[1] # "none" THEN "broken" ELSE conn[1]
  <2>1. c \in {"none", "open", "broken"}
    BY DEF TypeInv, Hop
  <2>2. conn' = [conn EXCEPT ![1] = c, ![h] = "none"]
    BY DEF CallerEnds
  <2> HIDE DEF c
  <2>3. QED
    BY <2>1, <2>2 DEF TypeInv
<1>6. srv' \in [Hop -> SrvType]
  BY DEF TypeInv, CallerEnds, EndedSrv, SrvType, SrvPc, Value
<1>7. misused' \in BOOLEAN
  BY DEF CallerEnds
<1>8. UNCHANGED <<ask, slots, worked, silent, faults>>
  BY DEF CallerEnds
<1>9. QED
  BY <1>1, <1>2, <1>3, <1>4, <1>5, <1>6, <1>7, <1>8, SameQuestion DEF TypeInv

LEMMA ReadTypes ==
    ASSUME TypeInv, NEW h \in Hop, Read(h)
    PROVE  TypeInv'
<1>1. ask # None
  BY Active DEF Read, CallAt
<1>2. UNCHANGED <<ask, slots, conn, req, rep, srv, worked, misused, silent,
                  faults>>
  BY DEF Read
<1>3. CASE /\ rep[h] # None
           /\ call' = [call EXCEPT ![h].pc = "check", ![h].buf = rep[h]]
  <2>1. rep[h] \in Buffer
    BY <1>3 DEF TypeInv
  <2>2. call \in [Hop -> CallType]
    BY DEF TypeInv
  <2>3. /\ call' = [g \in Hop |-> call'[g]]
        /\ call'[h] = [[call[h] EXCEPT !.pc = "check"] EXCEPT !.buf = rep[h]]
        /\ \A g \in Hop : g # h => call'[g] = call[g]
    BY <1>3, <2>2
  <2>4. call'[h] \in CallType
    BY <2>1, <2>2, <2>3 DEF CallType, CallPc
  <2>5. call' \in [Hop -> CallType]
    BY <2>2, <2>3, <2>4
  <2>6. QED
    BY <1>1, <1>2, <2>5, SameQuestion DEF TypeInv
<1>4. CASE CallTo(h, IF sender.tested THEN "close" ELSE "check")
  <2>1. call' \in [Hop -> CallType]
    BY <1>4, CallToTypes DEF CallPc
  <2>2. QED
    BY <1>1, <1>2, <2>1, SameQuestion DEF TypeInv
<1>5. QED
  BY <1>3, <1>4 DEF Read

LEMMA DecodedType ==
    ASSUME TypeInv, NEW h \in Hop
    PROVE  Decoded(h) \in Value \cup {"null"}
BY DEF TypeInv, Decoded, CallType, Buffer

LEMMA CheckTypes ==
    ASSUME TypeInv, NEW h \in Hop, Check(h)
    PROVE  TypeInv'
<1>1. ask # None
  BY Active DEF Check, CallAt
<1>2. UNCHANGED <<ask, conn, req, rep, srv, worked, misused, silent, faults>>
  BY DEF Check
<1> DEFINE v == Decoded(h)
<1>3. v \in Value \cup {"null"} /\ v \in Result
  BY DecodedType DEF Result
<1>4. /\ call' = [call EXCEPT ![h].pc = "close", ![h].ret = v]
      /\ slots' = IF h = 1 THEN [slots EXCEPT ![ask.try] = v] ELSE slots
  BY DEF Check
<1> HIDE DEF v
<1>5. call' \in [Hop -> CallType]
  <2>1. call \in [Hop -> CallType]
    BY DEF TypeInv
  <2>2. /\ call' = [g \in Hop |-> call'[g]]
        /\ call'[h] = [[call[h] EXCEPT !.pc = "close"] EXCEPT !.ret = v]
        /\ \A g \in Hop : g # h => call'[g] = call[g]
    BY <1>4, <2>1
  <2>3. call'[h] \in CallType
    BY <1>3, <2>1, <2>2 DEF CallType, CallPc
  <2>4. QED
    BY <2>1, <2>2, <2>3
<1>6. Asked /\ Asked'
  BY <1>1, <1>2, <1>3, <1>4 DEF TypeInv, Asked
<1>7. QED
  BY <1>1, <1>2, <1>5, <1>6 DEF TypeInv

LEMMA CloseTypes ==
    ASSUME TypeInv, NEW h \in Hop, Close(h)
    PROVE  TypeInv'
<1>1. ask # None
  BY Active DEF Close, CallAt
<1>2. UNCHANGED <<slots, req, srv, worked, misused, silent, faults>>
  BY DEF Close
<1>3. /\ conn' \in [Hop -> {"none", "open", "broken"}]
      /\ rep' \in [Hop -> Buffer \cup {None}]
  BY DEF TypeInv, Close
<1>4. CASE h = 1 /\ ask.try < TriesOf(ask.type)
  <2>1. /\ ask' = [ask EXCEPT !.try = @ + 1]
        /\ call' = [call EXCEPT ![1].pc = "connect", ![1].buf.value = "stale"]
    BY <1>4 DEF Close
  <2>2. ask \in Ask /\ ask.try \in Nat /\ TriesOf(ask.type) \in 1..Tries
    BY <1>1, AskFacts, TriesBound
  <2>3. ask' \in Ask /\ ask'.type = ask.type /\ ask'.try = ask.try + 1
    BY <1>4, <2>1, <2>2, TriesBound DEF Ask
  <2>4. Asked' /\ ask' # None
    <3>1. ask' # None
      BY <2>3, NoneAssumption
    <3>2. slots \in [1..TriesOf(ask.type) -> Result]
      BY <1>1 DEF TypeInv, Asked
    <3>3. TriesOf(ask'.type) = TriesOf(ask.type)
      BY <2>3
    <3>4. QED
      BY <1>2, <1>4, <2>2, <2>3, <3>1, <3>2, <3>3 DEF Asked
  <2>5. call' \in [Hop -> CallType]
    <3>1. call \in [Hop -> CallType] /\ 1 \in Hop
      BY DEF TypeInv, Hop
    <3> DEFINE c == [call EXCEPT ![1].pc = "connect"]
               b == [c[1].buf EXCEPT !.value = "stale"]
    <3>2. c \in [Hop -> CallType]
      BY <3>1 DEF CallType, CallPc
    <3>3. call' = [c EXCEPT ![1].buf.value = "stale"]
      BY <2>1
    <3> HIDE DEF c
    <3>4. c[1] \in CallType
      BY <3>1, <3>2
    <3>5. /\ call' = [g \in Hop |-> call'[g]]
          /\ \A g \in Hop : g # 1 => call'[g] = c[g]
      BY <3>1, <3>2, <3>3
    <3>6. call'[1] = [c[1] EXCEPT !.buf.value = "stale"]
      BY <3>1, <3>2, <3>3
    <3>7. [c[1] EXCEPT !.buf.value = "stale"] = [c[1] EXCEPT !.buf = b]
      BY <3>4 DEF CallType
    <3>8. b \in Buffer
      BY <3>4 DEF CallType, Buffer, Value
    <3> HIDE DEF b
    <3>9. call'[1] \in CallType
      BY <3>4, <3>6, <3>7, <3>8 DEF CallType
    <3>10. QED
      BY <3>1, <3>2, <3>5, <3>9
  <2>6. QED
    BY <1>2, <1>3, <2>4, <2>5 DEF TypeInv
<1>5. CASE ~(h = 1 /\ ask.try < TriesOf(ask.type))
  <2>1. call' \in [Hop -> CallType] /\ UNCHANGED ask
    BY <1>5, CallToTypes DEF Close, CallPc
  <2>2. QED
    BY <1>1, <1>2, <1>3, <2>1, SameQuestion DEF TypeInv
<1>6. QED
  BY <1>4, <1>5

LEMMA ServletReadTypes ==
    ASSUME TypeInv, NEW h \in Hop, servlet_read(h)
    PROVE  TypeInv'
<1>1. ask # None
  BY Active DEF servlet_read, SrvAt
<1>2. srv' \in [Hop -> SrvType]
  BY SrvToTypes DEF servlet_read, AfterRequest, SrvPc
<1>3. req' \in [Hop -> BOOLEAN]
  BY DEF TypeInv, servlet_read <1>4. UNCHANGED <<ask, call, slots, conn, rep,
       worked, misused, silent, faults>>
  BY DEF servlet_read
<1>5. QED
  BY <1>1, <1>2, <1>3, <1>4, SameQuestion DEF TypeInv

LEMMA LocalValueType ==
    ASSUME NEW h \in Hop
    PROVE  /\ LocalValue(h) \in Value
           /\ LocalValue(h) \in Node => WorksOn(h) /\ LocalValue(h) = Server(h)
BY DEF LocalValue, Value, Node, Server

LEMMA ServerNode ==
    ASSUME NEW h \in Hop
    PROVE  Server(h) \in Node
BY DEF Server, Node

LEMMA ReplyTypes ==
    ASSUME TypeInv, NEW h \in Hop, NEW value \in Value, NEW wild \in BOOLEAN,
           Replies(h, value, wild)
    PROVE  srv' \in [Hop -> SrvType] /\ misused' \in BOOLEAN
<1>1. PICK v \in ValueOf(value, wild) :
        srv' = [srv EXCEPT ![h] = [pc |-> AfterProcess, value |-> v]]
  BY DEF Replies
<1>2. v \in Value
  BY DEF ValueOf, Value
<1> DEFINE s == [pc |-> AfterProcess, value |-> v]
<1>3. s \in SrvType
  BY <1>2 DEF SrvType, SrvPc, AfterProcess
<1>4. srv' = [srv EXCEPT ![h] = s]
  BY <1>1
<1> HIDE DEF s
<1>5. srv' \in [Hop -> SrvType]
  BY <1>3, <1>4 DEF TypeInv
<1>6. misused' \in BOOLEAN
  BY DEF Replies, TypeInv
<1>7. QED
  BY <1>5, <1>6

LEMMA CarelessType ==
    ASSUME NEW when, NEW h
    PROVE  Careless(when, h) \in BOOLEAN /\ CarelessRelay(when) \in BOOLEAN
BY DEF Careless, CarelessRelay

LEMMA ProcessLocalTypes ==
    ASSUME TypeInv, NEW h \in Hop, process_local(h)
    PROVE  TypeInv'
<1>1. ask # None
  BY Active DEF process_local, SrvAt
<1>2. Replies(h, LocalValue(h), Careless(handler.wild, h))
  BY DEF process_local
<1>3. srv' \in [Hop -> SrvType] /\ misused' \in BOOLEAN
  BY <1>2, ReplyTypes, LocalValueType, CarelessType
<1>4. worked' \subseteq Node
  BY ServerNode DEF TypeInv, process_local, Works
<1>5. UNCHANGED <<ask, call, slots, conn, req, rep, silent, faults>>
  BY DEF process_local
<1>6. QED
  BY <1>1, <1>3, <1>4, <1>5, SameQuestion DEF TypeInv

LEMMA ProcessMissingTypes ==
    ASSUME TypeInv, NEW h \in Hop, process_missing(h)
    PROVE  TypeInv'
<1>1. ask # None /\ Fault
  BY Active DEF process_missing, FindsNothing, SrvAt
<1>2. Replies(h, "empty", FALSE)
  BY DEF process_missing
<1>3. "empty" \in Value
  BY DEF Value
<1>4. srv' \in [Hop -> SrvType] /\ misused' \in BOOLEAN
  BY <1>2, <1>3, ReplyTypes
<1>5. faults' \in 0..MaxFaults
  BY <1>1, FaultTypes
<1>6. UNCHANGED <<ask, call, slots, conn, req, rep, worked, silent>>
  BY DEF process_missing
<1>7. QED
  BY <1>1, <1>4, <1>5, <1>6, SameQuestion DEF TypeInv

LEMMA ProcessRelayTypes ==
    ASSUME TypeInv, process_relay
    PROVE  TypeInv'
<1>1. ask # None
  BY Active DEF process_relay, SrvAt, Hop
<1>2. srv' \in [Hop -> SrvType]
  BY SrvToTypes DEF process_relay, SrvPc, Hop
<1>3. call' \in [Hop -> CallType]
  <2>1. PICK b \in Uninitialised :
          call' = [call EXCEPT
                     ![2] = [pc |-> IF Unnamed(ask.type, ask.shape.len)
                                    THEN "done" ELSE "connect",
                             buf |-> b, ret |-> "null"]]
    BY DEF process_relay
  <2>2. b \in Buffer
    BY <1>1, AskFacts, ReplyTypeOf DEF Uninitialised, Buffer, Value
  <2> DEFINE c == [pc |-> IF Unnamed(ask.type, ask.shape.len)
                          THEN "done" ELSE "connect",
                   buf |-> b, ret |-> "null"]
  <2>3. c \in CallType
    BY <2>2 DEF CallType, CallPc
  <2>4. call' = [call EXCEPT ![2] = c]
    BY <2>1
  <2> HIDE DEF c
  <2>5. QED
    BY <2>3, <2>4 DEF TypeInv
<1>4. UNCHANGED <<ask, slots, conn, req, rep, worked, misused, silent, faults>>
  BY DEF process_relay
<1>5. QED
  BY <1>1, <1>2, <1>3, <1>4, SameQuestion DEF TypeInv

LEMMA RelayedValueType ==
    ASSUME TypeInv, ask # None
    PROVE  RelayedValue \in Value
<1>1. handler.failed \in {"asked", "empty"}
  BY AskFacts DEF RowSound, handler
<1>2. call[2].ret \in Value \cup {"null"}
  BY DEF TypeInv, CallType, Hop
<1>3. QED
  BY <1>1, <1>2 DEF RelayedValue, StationAnswered, Value

LEMMA ProcessRelayedTypes ==
    ASSUME TypeInv, process_relayed
    PROVE  TypeInv'
<1>1. ask # None /\ 1 \in Hop
  BY Active DEF process_relayed, SrvAt, Hop
<1>2. Replies(1, RelayedValue, CarelessRelay(handler.wild))
  BY DEF process_relayed
<1>3. srv' \in [Hop -> SrvType] /\ misused' \in BOOLEAN
  BY <1>1, <1>2, ReplyTypes, RelayedValueType, CarelessType
<1>4. UNCHANGED <<ask, call, slots, conn, req, rep, worked, silent, faults>>
  BY DEF process_relayed
<1>5. QED
  BY <1>1, <1>3, <1>4, SameQuestion DEF TypeInv

LEMMA CrashTypes ==
    ASSUME TypeInv, NEW h \in Hop, Crash(h) \/ CrashMissing(h)
    PROVE  TypeInv'
<1>1. ask # None /\ Ends(h)
  BY Active DEF Crash, CrashMissing, FindsNothing, SrvAt
<1>2. srv' \in [Hop -> SrvType]
  BY <1>1 DEF TypeInv, Ends, EndedSrv, SrvType, SrvPc, Value
<1>3. conn' \in [Hop -> {"none", "open", "broken"}]
  BY <1>1 DEF TypeInv, Ends
<1>4. misused' \in BOOLEAN
  BY <1>1 DEF Ends
<1>5. UNCHANGED <<ask, call, slots, req, rep, silent>>
  BY <1>1 DEF Ends
<1>6. worked' \subseteq Node
  BY ServerNode DEF TypeInv, Crash, CrashMissing, Works
<1>7. faults' \in 0..MaxFaults
  <2>1. CASE Crash(h)
    BY <2>1 DEF TypeInv, Crash
  <2>2. CASE CrashMissing(h)
    BY <2>2, FaultTypes DEF CrashMissing, FindsNothing
  <2>3. QED
    BY <2>1, <2>2
<1>8. QED
  BY <1>1, <1>2, <1>3, <1>4, <1>5, <1>6, <1>7, SameQuestion DEF TypeInv

LEMMA ServletWriteTypes ==
    ASSUME TypeInv, NEW h \in Hop, servlet_write(h)
    PROVE  TypeInv'
<1>1. ask # None
  BY Active DEF servlet_write, SrvAt
<1>2. srv' \in [Hop -> SrvType]
  BY SrvToTypes DEF servlet_write, SrvPc
<1>3. rep' \in [Hop -> Buffer \cup {None}]
  <2>1. [type |-> ReplyType(ask.type), value |-> srv[h].value] \in Buffer
    BY <1>1, AskFacts, ReplyTypeOf DEF TypeInv, Buffer, SrvType
  <2>2. QED
    BY <2>1 DEF TypeInv, servlet_write <1>4. UNCHANGED <<ask, call, slots,
         conn, req, worked, misused, silent, faults>>
  BY DEF servlet_write
<1>5. QED
  BY <1>1, <1>2, <1>3, <1>4, SameQuestion DEF TypeInv

LEMMA ServletFreeTypes ==
    ASSUME TypeInv, NEW h \in Hop, servlet_free(h)
    PROVE  TypeInv'
<1>1. ask # None
  BY Active DEF servlet_free, SrvAt
<1>2. srv' \in [Hop -> SrvType]
  BY DEF TypeInv, servlet_free, IdleSrv, SrvType, SrvPc, Value
<1>3. UNCHANGED <<ask, call, slots, conn, req, rep, worked, misused, silent,
                  faults>>
  BY DEF servlet_free
<1>4. QED
  BY <1>1, <1>2, <1>3, SameQuestion DEF TypeInv

LEMMA FaultStepTypes ==
    ASSUME TypeInv,
           \/ \E h \in Hop : Break(h)
           \/ \E n \in Node : FallSilent(n)
    PROVE  TypeInv'
<1>1. ask # None
  BY Active DEF Break, FallSilent
<1>2. faults' \in 0..MaxFaults
  BY FaultTypes DEF Break, FallSilent
<1>3. ASSUME NEW h \in Hop, Break(h)
      PROVE  TypeInv'
  <2>1. conn' \in [Hop -> {"none", "open", "broken"}]
    BY <1>3 DEF TypeInv, Break
  <2>2. rep' \in [Hop -> Buffer \cup {None}]
    BY <1>3 DEF TypeInv, Break
  <2>3. req' \in [Hop -> BOOLEAN]
    BY <1>3 DEF TypeInv, Break
  <2>4. UNCHANGED <<ask, call, slots, srv, worked, misused, silent>>
    BY <1>3 DEF Break
  <2>5. QED
    BY <1>1, <1>2, <2>1, <2>2, <2>3, <2>4, SameQuestion DEF TypeInv
<1>4. ASSUME NEW n \in Node, FallSilent(n)
      PROVE  TypeInv'
  <2>1. silent' \subseteq Node
    BY <1>4 DEF TypeInv, FallSilent
  <2>2. UNCHANGED <<ask, call, slots, conn, req, rep, srv, worked, misused>>
    BY <1>4 DEF FallSilent
  <2>3. QED
    BY <1>1, <1>2, <2>1, <2>2, SameQuestion DEF TypeInv
<1>5. QED
  BY <1>3, <1>4

LEMMA TypeStep == TypeInv /\ [Next]_vars => TypeInv'
<1> SUFFICES ASSUME TypeInv, [Next]_vars
             PROVE  TypeInv'
  OBVIOUS
<1>1. CASE UNCHANGED vars
  BY <1>1 DEF TypeInv, vars, Resting, Asked
<1>2. CASE Next
  BY <1>2, BeginTypes, ReturnTypes, ConnectTypes, WriteTypes, ReadTypes,
     CheckTypes, CloseTypes, CallerEndsTypes, ServletReadTypes,
     ProcessLocalTypes, ProcessMissingTypes, ProcessRelayTypes,
     ProcessRelayedTypes, CrashTypes, ServletWriteTypes, ServletFreeTypes,
     FaultStepTypes
     DEF Next, Step, CallStep, SrvStep
<1>3. QED
  BY <1>1, <1>2

\* TypeInv holds in every state of a behaviour.
THEOREM TypesHold == Spec => []TypeInv
BY InitTypes, TypeStep, PTL DEF Spec

\* Every variable of the sender, the connections and the servlets of an
\* exchange keeps its type, for every set of messages, lengths and tries and
\* every number of faults.
THEOREM TypeCorrect == Spec => []TypeOK
<1>1. ASSUME TypeInv
      PROVE  TypeOK
  <2>1. ask \in Ask \cup {None}
    BY <1>1 DEF TypeInv, Asked
  <2>2. \A i \in DOMAIN slots : slots[i] \in Result
    <3>1. CASE ask = None
      BY <1>1, <3>1 DEF TypeInv, Resting
    <3>2. CASE ask # None
      BY <1>1, <3>2 DEF TypeInv, Asked
    <3>3. QED
      BY <3>1, <3>2
  <2>3. ASSUME NEW h \in Hop
        PROVE  /\ call[h].pc \in CallPc
               /\ call[h].buf \in Buffer /\ call[h].ret \in Result
               /\ conn[h] \in {"none", "open", "broken"}
               /\ req[h] \in BOOLEAN
               /\ rep[h] = None \/ rep[h] \in Buffer
               /\ srv[h].pc \in SrvPc /\ srv[h].value \in Value
    BY <1>1 DEF TypeInv, CallType, SrvType, Result
  <2>4. QED
    BY <1>1, <2>1, <2>2, <2>3, Zenon DEF TypeOK, TypeInv, CallPc, SrvPc
<1>2. QED
  BY <1>1, TypesHold, PTL

-----------------------------------------------------------------------------
(* Who works on a request and whose values travel *)

\* The AP has not turned to the station yet.
Fresh ==
    /\ call[2] = IdleCall /\ srv[2] = IdleSrv
    /\ conn[2] = "none" /\ ~req[2] /\ rep[2] = None

\* The order of the two hops: a request is passed on while it is handled, once,
\* and only if it names a station.
OrderInv ==
    ask # None =>
      /\ ask.station => sender.station
      /\ srv[2].pc # "relaying"
      /\ srv[1].pc = "relaying" => Relays(1)
      /\ call[1].pc = "connect" => srv[1].pc \in {"idle", "ended"}
      /\ (\/ call[1].pc = "connect"
          \/ srv[1].pc \in {"read", "process"}
          \/ ~Relays(1)) => Fresh

\* A value of a node was read on that node in this exchange.
Seen(v) == v \in Node => v \in worked

TraceInv ==
    ask # None =>
      /\ worked \subseteq
           IF ask.type \in Misplaced THEN {"ap"} ELSE {Destination}
      /\ \A i \in DOMAIN slots : Seen(slots[i])
      /\ \A h \in Hop :
           /\ Seen(call[h].buf.value) /\ Seen(call[h].ret)
           /\ Seen(srv[h].value)
           /\ rep[h] # None => Seen(rep[h].value)

-----------------------------------------------------------------------------
(* Exchanges in which nothing fails *)

\* What a sender returns when the servlet has one of these values to reply.
Reading(values) ==
    IF handler.replies
    THEN IF Expected(ReplyType(ask.type)) THEN values ELSE {"null"}
    ELSE {"stale", "null"}

ApValues ==
    IF Relays(1)
    THEN {IF v = "null" THEN handler.failed ELSE v :
            v \in Reading({LocalValue(2)})}
    ELSE {LocalValue(1)}

Values(h) == IF h = 1 THEN ApValues ELSE {LocalValue(2)}

Returns(h) == Reading(Values(h))

Undisturbed ==
    /\ ask # None /\ faults = 0 /\ ~misused
    /\ sender.waits /\ ~Unnamed(ask.type, ask.shape.len)

\* How far the servlet is when the sender is at c.
InStep(h) ==
    LET c == call[h].pc
        s == srv[h].pc
    IN  /\ conn[h] = IF c \in {"idle", "connect", "done"} THEN "none"
                     ELSE "open"
        /\ c \in {"idle", "connect"} => s = "idle" /\ ~req[h] /\ rep[h] = None
        /\ c = "write" => s = "read" /\ ~req[h] /\ rep[h] = None
        /\ c = "read" =>
             \/ s = "read" /\ req[h] /\ rep[h] = None
             \/ s \in {"process", "relaying", "write"} /\ ~req[h]
                  /\ rep[h] = None
             \/ s \in {"free", "idle"} /\ ~req[h]
                  /\ (handler.replies <=> rep[h] # None)
        /\ c \in {"check", "close", "done"} =>
             s \in {"free", "idle"} /\ ~req[h]

\* What the messages of a hop carry.
Carries(h) ==
    LET c == call[h].pc
    IN  /\ rep[h] # None =>
             /\ rep[h].type = ReplyType(ask.type) /\ rep[h].value \in Values(h)
        /\ srv[h].pc = "write" => srv[h].value \in Values(h) /\ handler.replies
        /\ c \in {"connect", "write", "read"} => call[h].buf.value = "stale"
        /\ c = "check" =>
             IF handler.replies
             THEN /\ call[h].buf.type = ReplyType(ask.type)
                  /\ call[h].buf.value \in Values(h)
             ELSE call[h].buf.value = "stale"
        /\ c \in {"close", "done"} =>
             (IF h = 1 THEN slots[ask.try] ELSE call[2].ret) \in Returns(h)

CleanState ==
    /\ \A h \in Hop : InStep(h) /\ Carries(h)
    /\ \A i \in 1..(ask.try - 1) : slots[i] \in Returns(1)
    /\ call[1].pc = "done" => ask.try = TriesOf(ask.type)

CleanInv == Undisturbed => CleanState

-----------------------------------------------------------------------------
(* What the steps change: one hop, and little of it *)

HopUnchanged(h) ==
    /\ call'[h] = call[h] /\ srv'[h] = srv[h] /\ conn'[h] = conn[h]
    /\ req'[h] = req[h] /\ rep'[h] = rep[h]

OtherHop(h) == \A g \in Hop : g # h => HopUnchanged(g)

SameCall(h) == call'[h] = call[h]

SameSrv(h) == srv'[h] = srv[h]

SameWire(h) ==
    conn'[h] = conn[h] /\ req'[h] = req[h] /\ rep'[h] = rep[h]

\* The sender moves from one control state to another.
CallMoves(h, from, to) ==
    /\ call[h].pc = from /\ call'[h].pc = to
    /\ call'[h].buf = call[h].buf /\ call'[h].ret = call[h].ret

SrvMoves(h, from, to) ==
    /\ srv[h].pc = from /\ srv'[h].pc = to /\ srv'[h].value = srv[h].value

LEMMA CallToEffect ==
    ASSUME TypeInv, NEW h \in Hop, NEW pc, CallTo(h, pc)
    PROVE  /\ CallMoves(h, call[h].pc, pc)
           /\ \A g \in Hop : g # h => call'[g] = call[g]
BY DEF TypeInv, CallTo, CallType, CallMoves

LEMMA SrvToEffect ==
    ASSUME TypeInv, NEW h \in Hop, NEW pc, SrvTo(h, pc)
    PROVE  /\ SrvMoves(h, srv[h].pc, pc)
           /\ \A g \in Hop : g # h => srv'[g] = srv[g]
BY DEF TypeInv, SrvTo, SrvType, SrvMoves

LEMMA ConnectEffect ==
    ASSUME TypeInv, NEW h \in Hop, Connect(h)
    PROVE  /\ OtherHop(h) /\ ask # None
           /\ CallMoves(h, "connect", "write")
           /\ srv'[h].pc = "read" /\ srv'[h].value = srv[h].value
           /\ conn'[h] = "open" /\ req'[h] = req[h] /\ rep'[h] = rep[h]
           /\ UNCHANGED <<ask, slots, worked, misused, silent, faults>>
<1>1. ask # None
  BY Active DEF Connect, CallAt
<1>2. CallTo(h, "write") /\ SrvTo(h, "read") /\ call[h].pc = "connect"
  BY DEF Connect, CallAt
<1>3. /\ conn'[h] = "open" /\ UNCHANGED <<req, rep>>
      /\ \A g \in Hop : g # h => conn'[g] = conn[g]
  BY DEF Connect, TypeInv
<1>4. UNCHANGED <<ask, slots, worked, misused, silent, faults>>
  BY DEF Connect
<1>5. QED
  BY <1>1, <1>2, <1>3, <1>4, CallToEffect, SrvToEffect
     DEF OtherHop, HopUnchanged, CallMoves, SrvMoves

LEMMA ConnectFailsEffect ==
    ASSUME TypeInv, NEW h \in Hop, ConnectFails(h) \/ HandshakeFails(h)
    PROVE  /\ OtherHop(h) /\ ask # None
           /\ \E pc \in {"close", "write"} : CallMoves(h, "connect", pc)
           /\ SameSrv(h)
           /\ rep'[h] = rep[h]
           /\ UNCHANGED <<ask, slots, worked, misused, silent>>
           /\ faults' > 0
<1>1. ask # None /\ call[h].pc = "connect"
  BY Active DEF ConnectFails, HandshakeFails, CallAt
<1>2. PICK pc \in {"close", "write"} : CallTo(h, pc)
  BY DEF ConnectFails, HandshakeFails
<1>3. /\ UNCHANGED <<req, rep, srv>>
      /\ \A g \in Hop : g # h => conn'[g] = conn[g]
  BY DEF ConnectFails, HandshakeFails, TypeInv
<1>4. faults' > 0
  BY DEF ConnectFails, HandshakeFails, Fault, TypeInv
<1>5. UNCHANGED <<ask, slots, worked, misused, silent>>
  BY DEF ConnectFails, HandshakeFails
<1>6. CallMoves(h, "connect", pc) /\ \A g \in Hop : g # h => call'[g] = call[g]
  BY <1>1, <1>2, CallToEffect
<1>7. QED
  BY <1>1, <1>3, <1>4, <1>5, <1>6 DEF OtherHop, HopUnchanged, SameSrv

LEMMA RefusedEffect ==
    ASSUME TypeInv, NEW h \in Hop, Refused(h)
    PROVE  /\ OtherHop(h) /\ ask # None
           /\ CallMoves(h, "connect", "close")
           /\ SameSrv(h) /\ SameWire(h) /\ misused'
           /\ UNCHANGED <<ask, slots, worked, silent, faults>>
<1>1. ask # None /\ call[h].pc = "connect" /\ CallTo(h, "close")
  BY Active DEF Refused, CallAt
<1>2. misused' /\ UNCHANGED <<ask, slots, conn, req, rep, srv, worked, silent,
                              faults>>
  BY DEF Refused
<1>3. /\ CallMoves(h, "connect", "close")
      /\ \A g \in Hop : g # h => call'[g] = call[g]
  BY <1>1, CallToEffect
<1>4. QED
  BY <1>1, <1>2, <1>3 DEF OtherHop, HopUnchanged, SameSrv, SameWire

LEMMA WriteEffect ==
    ASSUME TypeInv, NEW h \in Hop, Write(h)
    PROVE  /\ OtherHop(h) /\ ask # None
           /\ CallMoves(h, "write", IF sender.waits THEN "read" ELSE "close")
           /\ SameSrv(h)
           /\ req'[h] = (conn[h] = "open")
           /\ conn'[h] = conn[h] /\ rep'[h] = rep[h]
           /\ misused' = (misused \/ sender.slip = "filling")
           /\ UNCHANGED <<ask, slots, worked, silent, faults>>
<1>1. ask # None /\ call[h].pc = "write"
  BY Active DEF Write, CallAt
<1>2. CallTo(h, IF sender.waits THEN "read" ELSE "close")
  BY DEF Write
<1>3. /\ req'[h] = (conn[h] = "open") /\ UNCHANGED <<conn, rep, srv>>
      /\ \A g \in Hop : g # h => req'[g] = req[g]
  BY DEF Write, TypeInv
<1>4. /\ misused' = (misused \/ sender.slip = "filling")
      /\ UNCHANGED <<ask, slots, worked, silent, faults>>
  BY DEF Write
<1>5. /\ CallMoves(h, "write", IF sender.waits THEN "read" ELSE "close")
      /\ \A g \in Hop : g # h => call'[g] = call[g]
  BY <1>1, <1>2, CallToEffect
<1>6. QED
  BY <1>1, <1>3, <1>4, <1>5 DEF OtherHop, HopUnchanged, SameSrv

LEMMA ReadEffect ==
    ASSUME TypeInv, NEW h \in Hop, Read(h)
    PROVE  /\ OtherHop(h) /\ ask # None
           /\ \/ /\ rep[h] # None
                 /\ call[h].pc = "read" /\ call'[h].pc = "check"
                 /\ call'[h].buf = rep[h] /\ call'[h].ret = call[h].ret
              \/ /\ rep[h] = None
                 /\ conn[h] = "broken" \/ srv[h].pc = "idle"
                 /\ CallMoves(h, "read",
                              IF sender.tested THEN "close" ELSE "check")
           /\ SameSrv(h) /\ SameWire(h)
           /\ UNCHANGED <<ask, slots, worked, misused, silent, faults>>
<1>1. ask # None /\ call[h].pc = "read"
  BY Active DEF Read, CallAt
<1>2. UNCHANGED <<ask, slots, conn, req, rep, srv, worked, misused, silent,
                  faults>>
  BY DEF Read
<1>3. CASE /\ rep[h] # None
           /\ call' = [call EXCEPT ![h].pc = "check", ![h].buf = rep[h]]
  <2>1. /\ call'[h].pc = "check" /\ call'[h].buf = rep[h]
        /\ call'[h].ret = call[h].ret
        /\ \A g \in Hop : g # h => call'[g] = call[g]
    BY <1>3 DEF TypeInv, CallType
  <2>2. QED
    BY <1>1, <1>2, <1>3, <2>1 DEF OtherHop, HopUnchanged, SameSrv, SameWire
<1>4. CASE /\ rep[h] = None
           /\ conn[h] = "broken" \/ srv[h].pc = "idle"
           /\ CallTo(h, IF sender.tested THEN "close" ELSE "check")
  <2>1. /\ CallMoves(h, "read", IF sender.tested THEN "close" ELSE "check")
        /\ \A g \in Hop : g # h => call'[g] = call[g]
    BY <1>1, <1>4, CallToEffect
  <2>2. QED
    BY <1>1, <1>2, <1>4, <2>1 DEF OtherHop, HopUnchanged, SameSrv, SameWire
<1>5. QED
  BY <1>3, <1>4 DEF Read

LEMMA CheckEffect ==
    ASSUME TypeInv, NEW h \in Hop, Check(h)
    PROVE  /\ OtherHop(h) /\ ask # None
           /\ call[h].pc = "check" /\ call'[h].pc = "close"
           /\ call'[h].buf = call[h].buf /\ call'[h].ret = Decoded(h)
           /\ slots' = IF h = 1 THEN [slots EXCEPT ![ask.try] = Decoded(h)]
                       ELSE slots
           /\ SameSrv(h) /\ SameWire(h)
           /\ UNCHANGED <<ask, worked, misused, silent, faults>>
<1>1. ask # None /\ call[h].pc = "check"
  BY Active DEF Check, CallAt
<1> DEFINE v == Decoded(h)
<1>2. /\ call' = [call EXCEPT ![h].pc = "close", ![h].ret = v]
      /\ slots' = IF h = 1 THEN [slots EXCEPT ![ask.try] = v] ELSE slots
  BY DEF Check
<1>3. UNCHANGED <<ask, conn, req, rep, srv, worked, misused, silent, faults>>
  BY DEF Check
<1> HIDE DEF v
<1>4. /\ call'[h].pc = "close" /\ call'[h].ret = v
      /\ call'[h].buf = call[h].buf
      /\ \A g \in Hop : g # h => call'[g] = call[g]
  BY <1>2 DEF TypeInv, CallType
<1>5. QED
  BY <1>1, <1>2, <1>3, <1>4 DEF v, OtherHop, HopUnchanged, SameSrv, SameWire

\* A sender that still has tries left starts again.
Retries(h) == h = 1 /\ ask.try < TriesOf(ask.type)

LEMMA CloseEffect ==
    ASSUME TypeInv, NEW h \in Hop, Close(h)
    PROVE  /\ OtherHop(h) /\ ask # None /\ ask' # None
           /\ call[h].pc = "close" /\ call'[h].ret = call[h].ret
           /\ IF Retries(h)
              THEN /\ srv[1].pc \in {"idle", "ended"}
                   /\ call'[1].pc = "connect"
                   /\ call'[1].buf.value = "stale"
                   /\ ask'.try = ask.try + 1
              ELSE /\ CallMoves(h, "close", "done")
                   /\ UNCHANGED ask
           /\ ask'.type = ask.type /\ ask'.station = ask.station
           /\ ask'.shape = ask.shape
           /\ SameSrv(h)
           /\ conn'[h] = "none" /\ rep'[h] = None /\ req'[h] = req[h]
           /\ UNCHANGED <<slots, worked, misused, silent, faults>>
<1>1. ask # None /\ call[h].pc = "close"
  BY Active DEF Close, CallAt
<1>2. UNCHANGED <<slots, req, srv, worked, misused, silent, faults>>
  BY DEF Close
<1>3. /\ conn'[h] = "none" /\ rep'[h] = None
      /\ \A g \in Hop : g # h => conn'[g] = conn[g] /\ rep'[g] = rep[g]
  BY DEF TypeInv, Close
<1>4. CASE Retries(h)
  <2>1. /\ ask' = [ask EXCEPT !.try = @ + 1] /\ h = 1
        /\ srv[1].pc \in {"idle", "ended"}
        /\ call' = [call EXCEPT ![1].pc = "connect", ![1].buf.value = "stale"]
    BY <1>4 DEF Close, Retries
  <2>2. ask \in Ask /\ ask.try \in Nat /\ ask.try < TriesOf(ask.type)
    BY <1>1, <1>4, AskFacts DEF Retries
  <2>3. /\ ask'.type = ask.type /\ ask'.station = ask.station
        /\ ask'.shape = ask.shape /\ ask'.try = ask.try + 1
    BY <2>1, <2>2 DEF Ask
  <2>4. ask' \in Ask
    BY <2>1, <2>2, TriesBound DEF Ask
  <2>5. ask' # None
    BY <2>4, NoneAssumption
  <2>6. /\ call'[1].pc = "connect" /\ call'[1].ret = call[1].ret
        /\ call'[1].buf.value = "stale"
        /\ \A g \in Hop : g # 1 => call'[g] = call[g]
    <3>1. call \in [Hop -> CallType] /\ 1 \in Hop
      BY DEF TypeInv, Hop
    <3> DEFINE c == [call EXCEPT ![1].pc = "connect"]
    <3>2. /\ c \in [Hop -> CallType] /\ c[1].ret = call[1].ret
          /\ c[1].pc = "connect" /\ \A g \in Hop : g # 1 => c[g] = call[g]
      BY <3>1 DEF CallType, CallPc
    <3>3. call' = [c EXCEPT ![1].buf.value = "stale"]
      BY <2>1
    <3> HIDE DEF c
    <3>4. \A g \in Hop : g # 1 => call'[g] = c[g]
      BY <3>1, <3>2, <3>3
    <3>5. call'[1] = [c[1] EXCEPT !.buf.value = "stale"]
      BY <3>1, <3>2, <3>3
    <3>6. c[1] \in CallType
      BY <3>1, <3>2
    <3>7. /\ call'[1].pc = c[1].pc /\ call'[1].ret = c[1].ret
          /\ call'[1].buf = [c[1].buf EXCEPT !.value = "stale"]
      BY <3>5, <3>6 DEF CallType
    <3>8. call'[1].buf.value = "stale"
      BY <3>6, <3>7 DEF CallType, Buffer
    <3>9. QED
      BY <3>2, <3>4, <3>7, <3>8
  <2>7. QED
    BY <1>1, <1>2, <1>3, <1>4, <2>1, <2>3, <2>5, <2>6
       DEF OtherHop, HopUnchanged, SameSrv
<1>5. CASE ~Retries(h)
  <2>1. CallTo(h, "done") /\ UNCHANGED ask
    BY <1>5 DEF Close, Retries
  <2>2. /\ CallMoves(h, "close", "done")
        /\ \A g \in Hop : g # h => call'[g] = call[g]
    BY <1>1, <2>1, CallToEffect
  <2>3. QED
    BY <1>1, <1>2, <1>3, <1>5, <2>1, <2>2
       DEF OtherHop, HopUnchanged, SameSrv, CallMoves
<1>6. QED
  BY <1>4, <1>5

\* The process of the caller ends: what it held is gone.
LEMMA CallerEndsEffect ==
    ASSUME TypeInv, NEW h \in Hop, CallerEnds(h)
    PROVE  /\ ask # None /\ misused'
           /\ \E pc \in {"write", "check"} : CallMoves(h, pc, "done")
           /\ \/ call[h].pc = "write" /\ sender.slip = "filling"
              \/ call[h].pc = "write" /\ NoName("sent")
              \/ call[h].pc = "check" /\ NoName("answered")
           /\ rep'[h] = None
           /\ \A g \in Hop : g # h => /\ call'[g] = call[g]
                                      /\ rep'[g] = rep[g]
           /\ IF h = 2 THEN srv'[1] = EndedSrv /\ srv'[2] = srv[2]
              ELSE OtherHop(1) /\ SameSrv(1)
           /\ UNCHANGED <<ask, slots, worked, silent, faults>>
<1>1. /\ ask # None
      /\ \/ call[h].pc = "write" /\ sender.slip = "filling" /\ UNCHANGED req
         \/ /\ call[h].pc = "write" /\ NoName("sent")
            /\ req' = [req EXCEPT ![h] = (conn[h] = "open")]
         \/ call[h].pc = "check" /\ NoName("answered") /\ UNCHANGED req
  BY Active DEF CallerEnds, CallAt
<1>2. misused' /\ CallTo(h, "done") /\ rep' = [rep EXCEPT ![h] = None]
  BY DEF CallerEnds
<1>3. UNCHANGED <<ask, slots, worked, silent, faults>>
  BY DEF CallerEnds
<1>4. rep'[h] = None /\ \A g \in Hop : g # h => rep'[g] = rep[g]
  BY <1>2 DEF TypeInv
<1>5. /\ CallMoves(h, call[h].pc, "done")
      /\ \A g \in Hop : g # h => call'[g] = call[g]
  BY <1>2, CallToEffect
<1>6. \A g \in Hop : g # h => req'[g] = req[g]
  BY <1>1 DEF TypeInv
<1>7. CASE h = 2
  <2>1. srv'[1] = EndedSrv /\ srv'[2] = srv[2]
    BY <1>7 DEF CallerEnds, TypeInv, Hop
  <2>2. QED
    BY <1>1, <1>2, <1>3, <1>4, <1>5, <1>7, <2>1
<1>8. CASE h = 1
  <2>1. srv' = srv /\ conn'[2] = conn[2]
    BY <1>8 DEF CallerEnds, TypeInv, Hop
  <2>2. OtherHop(1) /\ SameSrv(1)
    BY <1>4, <1>5, <1>6, <1>8, <2>1 DEF OtherHop, HopUnchanged, SameSrv, Hop
  <2>3. QED
    BY <1>1, <1>2, <1>3, <1>4, <1>5, <1>8, <2>2
<1>9. QED
  BY <1>7, <1>8 DEF Hop

LEMMA ServletReadEffect ==
    ASSUME TypeInv, NEW h \in Hop, servlet_read(h)
    PROVE  /\ OtherHop(h) /\ ask # None
           /\ SrvMoves(h, "read", AfterRequest(req[h]))
           /\ req[h] \/ conn[h] # "open"
           /\ SameCall(h)
           /\ ~req'[h] /\ conn'[h] = conn[h] /\ rep'[h] = rep[h]
           /\ UNCHANGED <<ask, slots, worked, misused, silent, faults>>
<1>1. ask # None /\ srv[h].pc = "read"
  BY Active DEF servlet_read, SrvAt
<1>2. SrvTo(h, AfterRequest(req[h])) /\ (req[h] \/ conn[h] # "open")
  BY DEF servlet_read
<1>3. /\ ~req'[h] /\ UNCHANGED <<call, conn, rep>>
      /\ \A g \in Hop : g # h => req'[g] = req[g]
  BY DEF servlet_read, TypeInv
<1>4. UNCHANGED <<ask, slots, worked, misused, silent, faults>>
  BY DEF servlet_read
<1>5. /\ SrvMoves(h, "read", AfterRequest(req[h]))
      /\ \A g \in Hop : g # h => srv'[g] = srv[g]
  BY <1>1, <1>2, SrvToEffect
<1>6. QED
  BY <1>1, <1>2, <1>3, <1>4, <1>5 DEF OtherHop, HopUnchanged, SameCall

LEMMA ReplyEffect ==
    ASSUME TypeInv, NEW h \in Hop, NEW value, NEW wild \in BOOLEAN,
           Replies(h, value, wild)
    PROVE  /\ srv'[h].pc = AfterProcess
           /\ srv'[h].value = value \/ srv'[h].value = "stale"
           /\ ~misused' => srv'[h].value = value
           /\ misused => misused'
           /\ \A g \in Hop : g # h => srv'[g] = srv[g]
<1>1. PICK v \in ValueOf(value, wild) :
        srv' = [srv EXCEPT ![h] = [pc |-> AfterProcess, value |-> v]]
  BY DEF Replies
<1> DEFINE s == [pc |-> AfterProcess, value |-> v]
<1>2. s.pc = AfterProcess /\ s.value = v
  OBVIOUS
<1>3. srv' = [srv EXCEPT ![h] = s]
  BY <1>1
<1> HIDE DEF s
<1>4. srv'[h] = s /\ \A g \in Hop : g # h => srv'[g] = srv[g]
  BY <1>3 DEF TypeInv
<1>5. misused' = (misused \/ wild)
  BY DEF Replies
<1>6. (v = value \/ v = "stale") /\ (~wild => v = value)
  BY <1>1 DEF ValueOf
<1>7. QED
  BY <1>2, <1>4, <1>5, <1>6

LEMMA ProcessLocalEffect ==
    ASSUME TypeInv, NEW h \in Hop, process_local(h)
    PROVE  /\ OtherHop(h) /\ ask # None /\ ~Relays(h)
           /\ srv[h].pc = "process" /\ srv'[h].pc = AfterProcess
           /\ srv'[h].value = LocalValue(h) \/ srv'[h].value = "stale"
           /\ ~misused' => srv'[h].value = LocalValue(h)
           /\ misused => misused'
           /\ Works(h)
           /\ SameCall(h) /\ SameWire(h)
           /\ UNCHANGED <<ask, slots, silent, faults>>
<1>1. ask # None /\ srv[h].pc = "process" /\ ~Relays(h)
  BY Active DEF process_local, SrvAt
<1>2. Replies(h, LocalValue(h), Careless(handler.wild, h)) /\ Works(h)
  BY DEF process_local
<1>3. UNCHANGED <<ask, call, slots, conn, req, rep, silent, faults>>
  BY DEF process_local
<1> DEFINE value == LocalValue(h)
           wild == Careless(handler.wild, h)
<1>4. Replies(h, value, wild) /\ wild \in BOOLEAN
  BY <1>2, CarelessType
<1> HIDE DEF value, wild
<1>5. /\ srv'[h].pc = AfterProcess
      /\ srv'[h].value = value \/ srv'[h].value = "stale"
      /\ ~misused' => srv'[h].value = value
      /\ misused => misused'
      /\ \A g \in Hop : g # h => srv'[g] = srv[g]
  BY <1>4, ReplyEffect
<1>6. QED
  BY <1>1, <1>2, <1>3, <1>5
     DEF value, OtherHop, HopUnchanged, SameCall, SameWire

LEMMA ProcessMissingEffect ==
    ASSUME TypeInv, NEW h \in Hop, process_missing(h)
    PROVE  /\ OtherHop(h) /\ ask # None /\ ~Relays(h)
           /\ srv[h].pc = "process" /\ srv'[h].pc = AfterProcess
           /\ srv'[h].value \in {"empty", "stale"}
           /\ SameCall(h) /\ SameWire(h)
           /\ UNCHANGED <<ask, slots, worked, silent>>
           /\ faults' > 0
<1>1. ask # None /\ srv[h].pc = "process" /\ ~Relays(h) /\ Fault
  BY Active DEF process_missing, FindsNothing, SrvAt
<1>2. Replies(h, "empty", FALSE)
  BY DEF process_missing
<1>3. UNCHANGED <<ask, call, slots, conn, req, rep, worked, silent>>
  BY DEF process_missing
<1>4. /\ srv'[h].pc = AfterProcess
      /\ srv'[h].value \in {"empty", "stale"}
      /\ \A g \in Hop : g # h => srv'[g] = srv[g]
  BY <1>2, ReplyEffect
<1>5. faults' > 0
  BY <1>1 DEF Fault, TypeInv
<1>6. QED
  BY <1>1, <1>3, <1>4, <1>5 DEF OtherHop, HopUnchanged, SameCall, SameWire

LEMMA ProcessRelayEffect ==
    ASSUME TypeInv, process_relay
    PROVE  /\ ask # None /\ Relays(1)
           /\ SrvMoves(1, "process", "relaying")
           /\ SameSrv(2) /\ SameCall(1)
           /\ call'[2].pc = IF Unnamed(ask.type, ask.shape.len) THEN "done"
                            ELSE "connect"
           /\ call'[2].buf.value = "stale" /\ call'[2].ret = "null"
           /\ UNCHANGED <<ask, slots, conn, req, rep, worked, misused, silent,
                          faults>>
<1>1. ask # None /\ Relays(1) /\ srv[1].pc = "process"
  BY Active DEF process_relay, SrvAt, Hop
<1>2. SrvMoves(1, "process", "relaying") /\ SameSrv(2)
  BY <1>1, SrvToEffect DEF process_relay, Hop, SameSrv
<1>3. PICK b \in Uninitialised :
        call' = [call EXCEPT
                   ![2] = [pc |-> IF Unnamed(ask.type, ask.shape.len)
                                  THEN "done" ELSE "connect",
                           buf |-> b, ret |-> "null"]]
  BY DEF process_relay
<1>4. b.value = "stale"
  BY DEF Uninitialised
<1> DEFINE c == [pc |-> IF Unnamed(ask.type, ask.shape.len)
                        THEN "done" ELSE "connect",
                 buf |-> b, ret |-> "null"]
<1>5. /\ c.pc = IF Unnamed(ask.type, ask.shape.len) THEN "done" ELSE "connect"
      /\ c.buf = b /\ c.ret = "null"
  OBVIOUS
<1>6. call' = [call EXCEPT ![2] = c]
  BY <1>3
<1> HIDE DEF c
<1>7. call'[2] = c /\ call'[1] = call[1]
  BY <1>6 DEF TypeInv, Hop
<1>8. UNCHANGED <<ask, slots, conn, req, rep, worked, misused, silent, faults>>
  BY DEF process_relay
<1>9. QED
  BY <1>1, <1>2, <1>4, <1>5, <1>7, <1>8 DEF SameCall

LEMMA ProcessRelayedEffect ==
    ASSUME TypeInv, process_relayed
    PROVE  /\ OtherHop(1) /\ ask # None
           /\ srv[1].pc = "relaying" /\ call[2].pc = "done"
           /\ srv'[1].pc = AfterProcess
           /\ srv'[1].value = RelayedValue \/ srv'[1].value = "stale"
           /\ ~misused' => srv'[1].value = RelayedValue
           /\ misused => misused'
           /\ SameCall(1) /\ SameWire(1)
           /\ UNCHANGED <<ask, slots, worked, silent, faults>>
<1>1. ask # None /\ srv[1].pc = "relaying" /\ call[2].pc = "done"
  BY Active DEF process_relayed, SrvAt, Hop
<1>2. Replies(1, RelayedValue, CarelessRelay(handler.wild))
  BY DEF process_relayed
<1>3. UNCHANGED <<ask, call, slots, conn, req, rep, worked, silent, faults>>
  BY DEF process_relayed
<1> DEFINE value == RelayedValue
           wild == CarelessRelay(handler.wild)
<1>4. Replies(1, value, wild) /\ wild \in BOOLEAN /\ 1 \in Hop
  BY <1>2, CarelessType DEF Hop
<1> HIDE DEF value, wild
<1>5. /\ srv'[1].pc = AfterProcess
      /\ srv'[1].value = value \/ srv'[1].value = "stale"
      /\ ~misused' => srv'[1].value = value
      /\ misused => misused'
      /\ \A g \in Hop : g # 1 => srv'[g] = srv[g]
  BY <1>4, ReplyEffect
<1>6. QED
  BY <1>1, <1>3, <1>5 DEF value, OtherHop, HopUnchanged, SameCall, SameWire

LEMMA CrashEffect ==
    ASSUME TypeInv, NEW h \in Hop, Crash(h) \/ CrashMissing(h)
    PROVE  /\ OtherHop(h) /\ ask # None /\ misused'
           /\ \/ srv[h].pc = "process" /\ ~Relays(h)
              \/ /\ h = 1 /\ srv[1].pc = "relaying"
                 /\ CarelessRelay(handler.null) \/ CarelessRelay(handler.wild)
           /\ srv'[h].pc = "ended" /\ srv'[h].value = "empty"
           /\ SameCall(h) /\ req'[h] = req[h] /\ rep'[h] = rep[h]
           /\ \/ UNCHANGED worked
              \/ Works(h) /\ ~Relays(h) /\ srv[h].pc = "process"
           /\ UNCHANGED <<ask, slots, silent>>
<1>1. /\ ask # None /\ Ends(h)
      /\ \/ srv[h].pc = "process" /\ ~Relays(h)
         \/ /\ h = 1 /\ srv[1].pc = "relaying"
            /\ CarelessRelay(handler.null) \/ CarelessRelay(handler.wild)
      /\ \/ UNCHANGED worked
         \/ Works(h) /\ ~Relays(h) /\ srv[h].pc = "process"
  BY Active DEF Crash, CrashMissing, FindsNothing, SrvAt
<1>2. /\ srv'[h].pc = "ended" /\ srv'[h].value = "empty"
      /\ \A g \in Hop : g # h => srv'[g] = srv[g]
  BY <1>1 DEF TypeInv, Ends, EndedSrv
<1>3. \A g \in Hop : g # h => conn'[g] = conn[g]
  BY <1>1 DEF TypeInv, Ends
<1>4. misused' /\ UNCHANGED <<ask, call, slots, req, rep, silent>>
  BY <1>1 DEF Ends
<1>5. QED
  BY <1>1, <1>2, <1>3, <1>4 DEF OtherHop, HopUnchanged, SameCall

LEMMA ServletWriteEffect ==
    ASSUME TypeInv, NEW h \in Hop, servlet_write(h)
    PROVE  /\ OtherHop(h) /\ ask # None
           /\ SrvMoves(h, "write", "free")
           /\ IF conn[h] = "open"
              THEN /\ rep'[h] # None
                   /\ rep'[h].type = ReplyType(ask.type)
                   /\ rep'[h].value = srv[h].value
              ELSE rep'[h] = rep[h]
           /\ SameCall(h) /\ conn'[h] = conn[h] /\ req'[h] = req[h]
           /\ UNCHANGED <<ask, slots, worked, misused, silent, faults>>
<1>1. ask # None /\ srv[h].pc = "write"
  BY Active DEF servlet_write, SrvAt
<1>2. /\ SrvMoves(h, "write", "free")
      /\ \A g \in Hop : g # h => srv'[g] = srv[g]
  BY <1>1, SrvToEffect DEF servlet_write
<1> DEFINE b == [type |-> ReplyType(ask.type), value |-> srv[h].value]
<1>3. b \in Buffer
  BY <1>1, AskFacts, ReplyTypeOf DEF TypeInv, Buffer, SrvType
<1>4. b # None /\ b.type = ReplyType(ask.type) /\ b.value = srv[h].value
  BY <1>3, NoneAssumption
<1>5. rep' = IF conn[h] = "open" THEN [rep EXCEPT ![h] = b] ELSE rep
  BY DEF servlet_write
<1> HIDE DEF b
<1>6. /\ rep'[h] = IF conn[h] = "open" THEN b ELSE rep[h]
      /\ \A g \in Hop : g # h => rep'[g] = rep[g]
  BY <1>5 DEF TypeInv <1>7. UNCHANGED <<ask, call, slots, conn, req, worked,
       misused, silent, faults>>
  BY DEF servlet_write
<1>8. QED
  BY <1>1, <1>2, <1>4, <1>6, <1>7 DEF OtherHop, HopUnchanged, SameCall

LEMMA ServletFreeEffect ==
    ASSUME TypeInv, NEW h \in Hop, servlet_free(h)
    PROVE  /\ OtherHop(h) /\ ask # None
           /\ srv[h].pc = "free"
           /\ srv'[h].pc = "idle" /\ srv'[h].value = "empty"
           /\ SameCall(h) /\ SameWire(h)
           /\ UNCHANGED <<ask, slots, worked, misused, silent, faults>>
<1>1. ask # None /\ srv[h].pc = "free"
  BY Active DEF servlet_free, SrvAt
<1>2. /\ srv'[h].pc = "idle" /\ srv'[h].value = "empty"
      /\ \A g \in Hop : g # h => srv'[g] = srv[g]
  BY DEF TypeInv, servlet_free, IdleSrv
<1>3. UNCHANGED <<ask, call, slots, conn, req, rep, worked, misused, silent,
                  faults>>
  BY DEF servlet_free
<1>4. QED
  BY <1>1, <1>2, <1>3 DEF OtherHop, HopUnchanged, SameCall, SameWire

LEMMA BreakEffect ==
    ASSUME TypeInv, NEW h \in Hop, Break(h)
    PROVE  /\ OtherHop(h) /\ ask # None
           /\ conn[h] = "open" /\ rep'[h] = None
           /\ SameCall(h) /\ SameSrv(h)
           /\ UNCHANGED <<ask, slots, worked, misused, silent>>
           /\ faults' > 0
<1>1. ask # None /\ conn[h] = "open"
  BY Active DEF Break
<1>2. /\ rep'[h] = None
      /\ \A g \in Hop : g # h => /\ rep'[g] = rep[g] /\ conn'[g] = conn[g]
                                 /\ req'[g] = req[g]
  BY DEF TypeInv, Break
<1>3. UNCHANGED <<ask, call, slots, srv, worked, misused, silent>>
  BY DEF Break
<1>4. faults' > 0
  BY DEF Break, Fault, TypeInv
<1>5. QED
  BY <1>1, <1>2, <1>3, <1>4 DEF OtherHop, HopUnchanged, SameCall, SameSrv

LEMMA FallSilentEffect ==
    ASSUME TypeInv, NEW n \in Node, FallSilent(n)
    PROVE  /\ ask # None
           /\ UNCHANGED <<ask, call, slots, conn, req, rep, srv, worked,
                          misused>>
           /\ faults' > 0
BY DEF FallSilent, Fault, TypeInv

\* The state of the first hop when the controller starts to ask.
LEMMA BeginEffect ==
    ASSUME TypeInv, NEW type \in Type, NEW station \in BOOLEAN,
           NEW shape \in Shapes, Begin(type, station, shape)
    PROVE  /\ Resting /\ ask = None /\ ask' # None
           /\ ask'.type = type /\ ask'.station = station
           /\ ask'.shape = shape /\ ask'.try = 1
           /\ station => MessageTable[type].send.station
           /\ slots' = NewSlots(type)
           /\ call'[2] = IdleCall
           /\ call'[1].pc = IF Unnamed(type, shape.len) THEN "done"
                            ELSE "connect"
           /\ call'[1].buf.value = "stale" /\ call'[1].ret = "null"
           /\ UNCHANGED <<conn, req, rep, srv, worked, misused, silent, faults>>
<1>1. ask = None /\ Resting
  BY DEF Begin, TypeInv
<1>2. ask' \in Ask /\ ask' # None
  BY TriesBound, NoneAssumption DEF Begin, Ask
<1>3. PICK b \in {"other", ReplyType(type)} :
        call' = [call EXCEPT
                   ![1].pc = IF Unnamed(type, shape.len) THEN "done"
                             ELSE "connect",
                   ![1].buf = [type |-> b, value |-> "stale"]]
  BY DEF Begin
<1> DEFINE pc == IF Unnamed(type, shape.len) THEN "done" ELSE "connect"
           buf == [type |-> b, value |-> "stale"]
<1>4. call' = [call EXCEPT ![1].pc = pc, ![1].buf = buf] /\ buf.value = "stale"
  BY <1>3
<1> HIDE DEF pc, buf
<1>5. call \in [Hop -> CallType] /\ 1 \in Hop /\ 2 \in Hop
  BY DEF TypeInv, Hop
<1>6. /\ call'[1].pc = pc /\ call'[1].buf = buf
      /\ call'[1].ret = call[1].ret /\ call'[2] = call[2]
  BY <1>4, <1>5 DEF CallType
<1>7. call[1] = IdleCall /\ call[2] = IdleCall /\ IdleCall.ret = "null"
  BY <1>1, <1>5 DEF Resting, IdleCall
<1>8. QED
  BY <1>1, <1>2, <1>4, <1>6, <1>7 DEF pc, Begin

-----------------------------------------------------------------------------
(* The order of the hops *)

\* A step that keeps the request keeps what the table says of it.
LEMMA SameRequest ==
    ASSUME ask'.type = ask.type, ask'.station = ask.station,
           ask'.shape = ask.shape
    PROVE  /\ sender' = sender /\ handler' = handler
           /\ \A h \in Hop : Relays(h)' <=> Relays(h)
           /\ Destination' = Destination
BY DEF sender, handler, Relays, Skips, NamesStation, Destination

\* A step of the second hop.
LEMMA StationStep ==
    ASSUME OrderInv, ask # None, UNCHANGED ask, HopUnchanged(1),
           ~Fresh, srv'[2].pc # "relaying"
    PROVE  OrderInv'
<1>1. sender' = sender /\ (Relays(1)' <=> Relays(1))
  BY SameRequest DEF Hop
<1>2. QED
  BY <1>1 DEF OrderInv, HopUnchanged

\* A step of the first hop.
LEMMA ApStep ==
    ASSUME OrderInv, ask # None, HopUnchanged(2),
           ask'.type = ask.type, ask'.station = ask.station,
           ask'.shape = ask.shape,
           srv'[1].pc = "relaying" => srv[1].pc = "relaying",
           call'[1].pc = "connect" =>
             /\ srv'[1].pc \in {"idle", "ended"}
             /\ call[1].pc = "connect" \/ ~Relays(1),
           srv'[1].pc \in {"read", "process"} =>
             call[1].pc = "connect" \/ srv[1].pc \in {"read", "process"}
    PROVE  OrderInv'
<1>1. sender' = sender /\ (Relays(1)' <=> Relays(1))
  BY SameRequest DEF Hop
<1>2. Fresh => Fresh'
  BY DEF Fresh, HopUnchanged
<1>3. srv'[2].pc # "relaying"
  BY DEF OrderInv, HopUnchanged
<1>4. QED
  BY <1>1, <1>2, <1>3 DEF OrderInv

LEMMA HopNumbers == \A h \in Hop : h = 1 \/ h = 2
BY DEF Hop

\* The end of a process that calls.
LEMMA CallerEndsOrder ==
    ASSUME TypeInv, OrderInv, NEW h \in Hop, CallerEnds(h)
    PROVE  OrderInv'
<1>1. /\ ask # None /\ UNCHANGED ask
      /\ call[h].pc \in {"write", "check"} /\ call'[h].pc = "done"
      /\ \A g \in Hop : g # h => call'[g] = call[g]
      /\ IF h = 2 THEN srv'[1] = EndedSrv /\ srv'[2] = srv[2]
         ELSE OtherHop(1) /\ SameSrv(1)
  BY CallerEndsEffect DEF CallMoves
<1>2. CASE h = 1
  <2>1. HopUnchanged(2) /\ srv'[1] = srv[1] /\ call'[1].pc = "done"
    BY <1>1, <1>2 DEF OtherHop, SameSrv, Hop
  <2>2. QED
    BY <1>1, <2>1, ApStep
<1>3. CASE h = 2
  <2>1. ~Fresh
    BY <1>1, <1>3 DEF Fresh, IdleCall
  <2>2. Relays(1) /\ call[1].pc # "connect"
    BY <1>1, <2>1 DEF OrderInv
  <2>3. sender' = sender /\ Relays(1)'
    BY <1>1, <2>2, SameRequest DEF Hop
  <2>4. /\ srv'[1].pc = "ended" /\ srv'[2].pc = srv[2].pc
        /\ call'[1] = call[1]
    BY <1>1, <1>3 DEF EndedSrv, Hop
  <2>5. QED
    BY <1>1, <2>2, <2>3, <2>4 DEF OrderInv
<1>4. QED
  BY <1>2, <1>3, HopNumbers

LEMMA CallOrder ==
    ASSUME TypeInv, OrderInv, NEW h \in Hop,
           CallStep(h) \/ ConnectFails(h) \/ HandshakeFails(h)
    PROVE  OrderInv'
<1>0. CASE CallerEnds(h)
  BY <1>0, CallerEndsOrder
<1> SUFFICES ASSUME ~CallerEnds(h)
             PROVE  OrderInv'
  BY <1>0
<1>1. /\ OtherHop(h) /\ ask # None
      /\ call[h].pc # "idle"
      /\ ask'.type = ask.type /\ ask'.station = ask.station
      /\ ask'.shape = ask.shape
      /\ srv'[h].pc \in {srv[h].pc, "read"}
      /\ srv'[h].pc # srv[h].pc => call[h].pc = "connect"
      /\ h = 2 => UNCHANGED ask
      /\ call'[h].pc = "connect" => Retries(h) /\ SameSrv(h)
                                      /\ srv[h].pc \in {"idle", "ended"}
  <2>1. CASE Connect(h)
    BY <2>1, ConnectEffect DEF CallMoves
  <2>2. CASE ConnectFails(h) \/ HandshakeFails(h)
    BY <2>2, ConnectFailsEffect DEF CallMoves, SameSrv
  <2>3. CASE Write(h)
    BY <2>3, WriteEffect DEF CallMoves, SameSrv
  <2>4. CASE Read(h)
    BY <2>4, ReadEffect DEF CallMoves, SameSrv
  <2>5. CASE Check(h)
    BY <2>5, CheckEffect DEF SameSrv
  <2>6. CASE Close(h)
    BY <2>6, CloseEffect DEF CallMoves, SameSrv, Retries
  <2>7. CASE Refused(h)
    BY <2>7, RefusedEffect DEF CallMoves, SameSrv
  <2>8. QED
    BY <2>1, <2>2, <2>3, <2>4, <2>5, <2>6, <2>7 DEF CallStep
<1>2. CASE h = 1
  <2>1. HopUnchanged(2)
    BY <1>1, <1>2 DEF OtherHop, Hop
  <2>2. Retries(1) => ~Relays(1)
    <3>1. SUFFICES ASSUME Retries(1)
                   PROVE  ~Relays(1)
      OBVIOUS
    <3>2. ask.type = "MSG_PING"
      BY <1>1, <3>1, AskFacts DEF Retries, TriesOf
    <3>3. QED
      BY <1>1, <3>2, AskFacts DEF RowSound, Relays, handler
  <2>3. QED
    BY <1>1, <1>2, <2>1, <2>2, ApStep DEF SameSrv, OrderInv
<1>3. CASE h = 2
  <2>1. HopUnchanged(1) /\ UNCHANGED ask
    BY <1>1, <1>3 DEF OtherHop, Hop
  <2>2. ~Fresh /\ srv'[2].pc # "relaying"
    BY <1>1, <1>3 DEF Fresh, IdleCall, OrderInv
  <2>3. QED
    BY <1>1, <2>1, <2>2, StationStep
<1>4. QED
  BY <1>2, <1>3, HopNumbers

LEMMA SrvOrder ==
    ASSUME TypeInv, OrderInv, NEW h \in Hop,
           \/ SrvStep(h) \/ Break(h)
           \/ process_missing(h) \/ CrashMissing(h)
    PROVE  OrderInv'
<1>1. /\ OtherHop(h) /\ ask # None /\ UNCHANGED ask
      /\ srv[h].pc # "idle" \/ conn[h] # "none"
      /\ SameCall(h)
      /\ \/ SameSrv(h)
         \/ srv[h].pc = "read" /\ srv'[h].pc \in {"process", "free"}
         \/ /\ srv[h].pc \notin {"idle", "ended"}
            /\ srv'[h].pc \in {"write", "free", "idle", "ended"}
  <2>1. CASE servlet_read(h)
    BY <2>1, ServletReadEffect DEF SrvMoves, AfterRequest
  <2>2. CASE process_local(h)
    BY <2>2, ProcessLocalEffect DEF AfterProcess
  <2>3. CASE Crash(h) \/ CrashMissing(h)
    BY <2>3, CrashEffect
  <2>4. CASE servlet_write(h)
    BY <2>4, ServletWriteEffect DEF SrvMoves
  <2>5. CASE servlet_free(h)
    BY <2>5, ServletFreeEffect
  <2>6. CASE Break(h)
    BY <2>6, BreakEffect
  <2>7. CASE process_missing(h)
    BY <2>7, ProcessMissingEffect DEF AfterProcess
  <2>8. QED
    BY <2>1, <2>2, <2>3, <2>4, <2>5, <2>6, <2>7 DEF SrvStep
<1>2. CASE h = 1
  <2>1. HopUnchanged(2)
    BY <1>1, <1>2 DEF OtherHop, Hop
  <2>2. /\ srv'[1].pc = "relaying" => srv[1].pc = "relaying"
        /\ call'[1].pc = "connect" =>
             srv'[1].pc \in {"idle", "ended"} /\ call[1].pc = "connect"
        /\ srv'[1].pc \in {"read", "process"} =>
             srv[1].pc \in {"read", "process"}
    BY <1>1, <1>2 DEF SameSrv, SameCall, OrderInv
  <2>3. QED
    BY <1>1, <2>1, <2>2, ApStep
<1>3. CASE h = 2
  <2>1. HopUnchanged(1)
    BY <1>1, <1>3 DEF OtherHop, Hop
  <2>2. ~Fresh /\ srv'[2].pc # "relaying"
    BY <1>1, <1>3 DEF Fresh, IdleSrv, OrderInv, SameSrv
  <2>3. QED
    BY <1>1, <2>1, <2>2, StationStep
<1>4. QED
  BY <1>2, <1>3, HopNumbers

LEMMA RelayOrder ==
    ASSUME TypeInv, OrderInv, process_relay \/ process_relayed
    PROVE  OrderInv'
<1>1. CASE process_relay
  <2>1. /\ ask # None /\ Relays(1) /\ UNCHANGED ask
        /\ srv[1].pc = "process" /\ srv'[1].pc = "relaying"
        /\ call'[1] = call[1] /\ srv'[2] = srv[2]
    BY <1>1, ProcessRelayEffect DEF SrvMoves, SameCall, SameSrv
  <2>2. sender' = sender /\ Relays(1)'
    BY <2>1, SameRequest DEF Hop
  <2>3. call[1].pc # "connect"
    BY <2>1 DEF OrderInv
  <2>4. QED
    BY <2>1, <2>2, <2>3 DEF OrderInv
<1>2. CASE process_relayed
  <2>1. /\ ask # None /\ UNCHANGED ask /\ HopUnchanged(2)
        /\ srv[1].pc = "relaying" /\ srv'[1].pc \in {"write", "free"}
        /\ call'[1] = call[1]
    BY <1>2, ProcessRelayedEffect
       DEF OtherHop, Hop, SameCall, AfterProcess
  <2>2. call[1].pc # "connect"
    BY <2>1 DEF OrderInv
  <2>3. QED
    BY <2>1, <2>2, ApStep
<1>3. QED
  BY <1>1, <1>2

LEMMA BeginOrder ==
    ASSUME TypeInv, NEW type \in Type, NEW station \in BOOLEAN,
           NEW shape \in Shapes, Begin(type, station, shape)
    PROVE  OrderInv'
<1>1. /\ Resting /\ ask'.type = type /\ ask'.station = station
      /\ station => MessageTable[type].send.station
      /\ call'[2] = IdleCall
      /\ UNCHANGED <<conn, req, rep, srv>>
  BY BeginEffect
<1>2. Fresh'
  BY <1>1 DEF Fresh, Resting, Hop
<1>3. srv'[1] = IdleSrv /\ srv'[2] = IdleSrv /\ IdleSrv.pc = "idle"
  BY <1>1 DEF Resting, Hop, IdleSrv
<1>4. ask'.station => sender'.station
  BY <1>1 DEF sender
<1>5. QED
  BY <1>2, <1>3, <1>4 DEF OrderInv

LEMMA OrderStep == TypeInv /\ OrderInv /\ [Next]_vars => OrderInv'
<1> SUFFICES ASSUME TypeInv, OrderInv, [Next]_vars
             PROVE  OrderInv'
  OBVIOUS
<1>1. CASE UNCHANGED vars
  BY <1>1 DEF OrderInv, vars, Fresh, sender, Relays, Skips, NamesStation,
              handler
<1>2. CASE Return
  BY <1>2 DEF Return, OrderInv
<1>3. CASE \E n \in Node : FallSilent(n)
  BY <1>3 DEF FallSilent, OrderInv, Fresh, sender, Relays, Skips,
              NamesStation, handler
<1>4. QED
  BY <1>1, <1>2, <1>3, CallOrder, SrvOrder, RelayOrder, BeginOrder
     DEF Next, Step

LEMMA InitOrder == Init => OrderInv
BY DEF Init, OrderInv

-----------------------------------------------------------------------------
(* Who works, and whose values travel *)

SeenNow(v) == v \in Node => v \in worked'

\* What a step must show of the one hop that it changes.
LEMMA HopTrace ==
    ASSUME TypeInv, TraceInv, ask # None, NEW h \in Hop, OtherHop(h),
           ask'.type = ask.type, ask'.station = ask.station,
           ask'.shape = ask.shape,
           worked \subseteq worked',
           worked' \subseteq
             IF ask.type \in Misplaced THEN {"ap"} ELSE {Destination},
           \A i \in DOMAIN slots' : SeenNow(slots'[i]),
           SeenNow(call'[h].buf.value), SeenNow(call'[h].ret),
           SeenNow(srv'[h].value),
           rep'[h] # None => SeenNow(rep'[h].value)
    PROVE  TraceInv'
<1>1. Destination' = Destination
  BY SameRequest
<1>2. ASSUME NEW g \in Hop
      PROVE  /\ SeenNow(call'[g].buf.value) /\ SeenNow(call'[g].ret)
             /\ SeenNow(srv'[g].value)
             /\ rep'[g] # None => SeenNow(rep'[g].value)
  <2>1. CASE g = h
    BY <2>1
  <2>2. CASE g # h
    BY <2>2 DEF OtherHop, HopUnchanged, TraceInv, Seen, SeenNow
  <2>3. QED
    BY <2>1, <2>2
<1>3. QED
  BY <1>1, <1>2 DEF TraceInv, Seen, SeenNow

\* The same for a step on which nobody works.
LEMMA IdleTrace ==
    ASSUME TypeInv, TraceInv, ask # None, NEW h \in Hop, OtherHop(h),
           ask'.type = ask.type, ask'.station = ask.station,
           ask'.shape = ask.shape, UNCHANGED worked,
           UNCHANGED slots \/ (\A i \in DOMAIN slots' : SeenNow(slots'[i])),
           call'[h].buf.value = call[h].buf.value
             \/ SeenNow(call'[h].buf.value),
           call'[h].ret = call[h].ret \/ SeenNow(call'[h].ret),
           srv'[h].value = srv[h].value \/ SeenNow(srv'[h].value),
           rep'[h] = rep[h] \/ rep'[h] = None \/ SeenNow(rep'[h].value)
    PROVE  TraceInv'
<1>1. worked' \subseteq
        IF ask.type \in Misplaced THEN {"ap"} ELSE {Destination}
  BY DEF TraceInv
<1>2. \A i \in DOMAIN slots' : SeenNow(slots'[i])
  BY DEF TraceInv, Seen, SeenNow
<1>3. /\ SeenNow(call'[h].buf.value) /\ SeenNow(call'[h].ret)
      /\ SeenNow(srv'[h].value)
      /\ rep'[h] # None => SeenNow(rep'[h].value)
  BY DEF TraceInv, Seen, SeenNow
<1>4. QED
  BY <1>1, <1>2, <1>3, HopTrace

LEMMA NotNodes ==
    /\ SeenNow("stale") /\ SeenNow("null") /\ SeenNow("empty")
    /\ SeenNow("asked") /\ SeenNow("fixed") /\ SeenNow("error")
BY DEF SeenNow, Node

LEMMA CallerEndsTrace ==
    ASSUME TypeInv, TraceInv, NEW h \in Hop, CallerEnds(h)
    PROVE  TraceInv'
<1>1. /\ ask # None /\ UNCHANGED <<ask, slots, worked>>
      /\ call'[h].buf = call[h].buf /\ call'[h].ret = call[h].ret
      /\ rep'[h] = None
      /\ \A g \in Hop : g # h => call'[g] = call[g] /\ rep'[g] = rep[g]
      /\ IF h = 2 THEN srv'[1] = EndedSrv /\ srv'[2] = srv[2]
         ELSE OtherHop(1) /\ SameSrv(1)
  BY CallerEndsEffect DEF CallMoves
<1>2. Destination' = Destination
  BY <1>1, SameRequest
<1>3. \A g \in Hop : srv'[g].value \in {srv[g].value, "empty"}
  BY <1>1 DEF OtherHop, HopUnchanged, SameSrv, EndedSrv, Hop
<1>4. \A g \in Hop :
        /\ SeenNow(call'[g].buf.value) /\ SeenNow(call'[g].ret)
        /\ SeenNow(srv'[g].value)
        /\ rep'[g] # None => SeenNow(rep'[g].value)
  BY <1>1, <1>3, NotNodes DEF TraceInv, Seen, SeenNow
<1>5. QED
  BY <1>1, <1>2, <1>4 DEF TraceInv, Seen, SeenNow

LEMMA CallTrace ==
    ASSUME TypeInv, TraceInv, NEW h \in Hop,
           CallStep(h) \/ ConnectFails(h) \/ HandshakeFails(h)
    PROVE  TraceInv'
<1>1. CASE Connect(h)
  BY <1>1, ConnectEffect, IdleTrace DEF CallMoves
<1>2. CASE ConnectFails(h) \/ HandshakeFails(h)
  BY <1>2, ConnectFailsEffect, IdleTrace DEF CallMoves, SameSrv
<1>3. CASE Write(h)
  BY <1>3, WriteEffect, IdleTrace DEF CallMoves, SameSrv
<1>4. CASE Read(h)
  <2>1. /\ OtherHop(h) /\ ask # None /\ srv'[h] = srv[h] /\ rep'[h] = rep[h]
        /\ call'[h].ret = call[h].ret
        /\ \/ call'[h].buf = call[h].buf
           \/ rep[h] # None /\ call'[h].buf = rep[h]
        /\ UNCHANGED <<ask, slots, worked>>
    BY <1>4, ReadEffect DEF CallMoves, SameSrv, SameWire
  <2>2. rep[h] # None => SeenNow(rep[h].value)
    BY <2>1 DEF TraceInv, Seen, SeenNow
  <2>3. QED
    BY <2>1, <2>2, IdleTrace
<1>5. CASE Check(h)
  <2>1. /\ OtherHop(h) /\ ask # None /\ srv'[h] = srv[h] /\ rep'[h] = rep[h]
        /\ call'[h].buf = call[h].buf /\ call'[h].ret = Decoded(h)
        /\ slots' = IF h = 1 THEN [slots EXCEPT ![ask.try] = Decoded(h)]
                    ELSE slots
        /\ UNCHANGED <<ask, worked>>
    BY <1>5, CheckEffect DEF SameSrv, SameWire
  <2>2. SeenNow(Decoded(h))
    <3>1. SeenNow(call[h].buf.value)
      BY <2>1 DEF TraceInv, Seen, SeenNow
    <3>2. Decoded(h) \in {call[h].buf.value, "null"}
      BY DEF Decoded
    <3>3. QED
      BY <3>1, <3>2, NotNodes
  <2>3. \A i \in DOMAIN slots' : SeenNow(slots'[i])
    <3> DEFINE v == Decoded(h)
    <3>1. /\ SeenNow(v)
          /\ slots' = IF h = 1 THEN [slots EXCEPT ![ask.try] = v] ELSE slots
      BY <2>1, <2>2
    <3> HIDE DEF v
    <3>2. \A i \in DOMAIN slots : SeenNow(slots[i])
      BY <2>1 DEF TraceInv, Seen, SeenNow
    <3>3. \A i \in DOMAIN slots' :
            i \in DOMAIN slots /\ (slots'[i] = v \/ slots'[i] = slots[i])
      BY <3>1
    <3>4. QED
      BY <3>1, <3>2, <3>3
  <2>4. QED
    BY <2>1, <2>2, <2>3, IdleTrace
<1>6. CASE Close(h)
  <2>1. call'[h].buf = call[h].buf \/ call'[h].buf.value = "stale"
    BY <1>6, CloseEffect DEF CallMoves, Retries
  <2>2. /\ OtherHop(h) /\ ask # None
        /\ ask'.type = ask.type /\ ask'.station = ask.station
        /\ ask'.shape = ask.shape
        /\ UNCHANGED <<slots, worked>>
        /\ call'[h].ret = call[h].ret /\ srv'[h] = srv[h] /\ rep'[h] = None
    BY <1>6, CloseEffect DEF SameSrv
  <2>3. QED
    BY <2>1, <2>2, NotNodes, IdleTrace
<1>7. CASE Refused(h)
  BY <1>7, RefusedEffect, IdleTrace DEF CallMoves, SameSrv, SameWire
<1>8. QED
  BY <1>1, <1>2, <1>3, <1>4, <1>5, <1>6, <1>7, CallerEndsTrace DEF CallStep

\* A handler works on the node that the request is for.
LEMMA WorksWhereAsked ==
    ASSUME TypeInv, OrderInv, ask # None, NEW h \in Hop,
           srv[h].pc = "process", ~Relays(h), WorksOn(h)
    PROVE  Server(h) \in
             IF ask.type \in Misplaced THEN {"ap"} ELSE {Destination}
<1>1. RowSound(ask.type, MessageTable[ask.type])
  BY AskFacts
<1>2. CASE h = 1
  <2>1. CASE ~ask.station
    BY <1>2, <2>1 DEF Destination, Server
  <2>2. CASE ask.station
    <3>1. ~handler.relays /\ sender.station
      BY <1>2, <2>2 DEF Relays, WorksOn, NamesStation, OrderInv
    <3>2. handler.local \in {"own", "ap"}
      BY <1>2, <2>2 DEF WorksOn, NamesStation
    <3>3. ask.type \in Misplaced
      BY <1>1, <3>1, <3>2 DEF RowSound, Placed, handler, sender
    <3>4. QED
      BY <1>2, <3>3 DEF Server
  <2>3. QED
    BY <2>1, <2>2
<1>3. CASE h = 2
  <2>1. Relays(1)
    BY <1>3 DEF OrderInv, Fresh, IdleSrv
  <2>2. ask.type \notin Misplaced
    BY <1>1, <2>1 DEF RowSound, Relays, handler
  <2>3. QED
    BY <1>3, <2>1, <2>2 DEF Relays, NamesStation, Destination, Server
<1>4. QED
  BY <1>2, <1>3, HopNumbers

LEMMA WorkTrace ==
    ASSUME TypeInv, OrderInv, TraceInv, NEW h \in Hop,
           OtherHop(h), ask # None, UNCHANGED <<ask, slots>>,
           \/ UNCHANGED worked
           \/ Works(h) /\ ~Relays(h) /\ srv[h].pc = "process",
           SeenNow(srv'[h].value), SameCall(h), rep'[h] = rep[h]
    PROVE  TraceInv'
<1>1. worked' \subseteq
        IF ask.type \in Misplaced THEN {"ap"} ELSE {Destination}
  BY WorksWhereAsked DEF TraceInv, Works
<1>2. worked \subseteq worked'
  BY DEF Works
<1>3. /\ SeenNow(call'[h].buf.value) /\ SeenNow(call'[h].ret)
      /\ rep'[h] # None => SeenNow(rep'[h].value)
      /\ \A i \in DOMAIN slots' : SeenNow(slots'[i])
  BY <1>2 DEF TraceInv, Seen, SeenNow, SameCall
<1>4. QED
  BY <1>1, <1>2, <1>3, HopTrace

LEMMA ProcessLocalTrace ==
    ASSUME TypeInv, OrderInv, TraceInv, NEW h \in Hop, process_local(h)
    PROVE  TraceInv'
<1>1. /\ OtherHop(h) /\ ask # None /\ UNCHANGED <<ask, slots>> /\ ~Relays(h)
      /\ srv[h].pc = "process" /\ Works(h)
      /\ srv'[h].value = LocalValue(h) \/ srv'[h].value = "stale"
      /\ SameCall(h) /\ rep'[h] = rep[h]
  BY ProcessLocalEffect DEF SameWire
<1>2. SeenNow(srv'[h].value)
  BY <1>1, LocalValueType, NotNodes DEF SeenNow, Works
<1>3. QED
  BY <1>1, <1>2, WorkTrace

LEMMA CrashTrace ==
    ASSUME TypeInv, OrderInv, TraceInv, NEW h \in Hop,
           Crash(h) \/ CrashMissing(h)
    PROVE  TraceInv'
<1>1. /\ OtherHop(h) /\ ask # None /\ UNCHANGED <<ask, slots>>
      /\ \/ UNCHANGED worked
         \/ Works(h) /\ ~Relays(h) /\ srv[h].pc = "process"
      /\ srv'[h].value = "empty" /\ SameCall(h) /\ rep'[h] = rep[h]
  BY CrashEffect
<1>2. SeenNow(srv'[h].value)
  BY <1>1, NotNodes
<1>3. QED
  BY <1>1, <1>2, WorkTrace

LEMMA SrvTrace ==
    ASSUME TypeInv, OrderInv, TraceInv, NEW h \in Hop,
           \/ SrvStep(h) \/ Break(h)
           \/ process_missing(h) \/ CrashMissing(h)
    PROVE  TraceInv'
<1>1. CASE servlet_read(h)
  BY <1>1, ServletReadEffect, IdleTrace DEF SrvMoves, SameCall
<1>2. CASE process_local(h)
  BY <1>2, ProcessLocalTrace
<1>3. CASE Crash(h) \/ CrashMissing(h)
  BY <1>3, CrashTrace
<1>4. CASE servlet_write(h)
  <2>1. /\ OtherHop(h) /\ ask # None /\ UNCHANGED <<ask, slots, worked>>
        /\ call'[h] = call[h] /\ srv'[h].value = srv[h].value
        /\ rep'[h] = rep[h] \/ rep'[h].value = srv[h].value
    BY <1>4, ServletWriteEffect DEF SameCall, SrvMoves
  <2>2. SeenNow(srv[h].value)
    BY <2>1 DEF TraceInv, Seen, SeenNow
  <2>3. QED
    BY <2>1, <2>2, IdleTrace
<1>5. CASE servlet_free(h)
  BY <1>5, ServletFreeEffect, NotNodes, IdleTrace DEF SameCall, SameWire
<1>6. CASE Break(h)
  BY <1>6, BreakEffect, IdleTrace DEF SameCall, SameSrv
<1>7. CASE process_missing(h)
  <2>1. SeenNow(srv'[h].value)
    BY <1>7, ProcessMissingEffect, NotNodes
  <2>2. QED
    BY <1>7, <2>1, ProcessMissingEffect, IdleTrace DEF SameCall, SameWire
<1>8. QED
  BY <1>1, <1>2, <1>3, <1>4, <1>5, <1>6, <1>7 DEF SrvStep

LEMMA RelayTrace ==
    ASSUME TypeInv, TraceInv, process_relay \/ process_relayed
    PROVE  TraceInv'
<1>1. CASE process_relay
  <2>1. /\ ask # None /\ UNCHANGED <<ask, slots, rep, worked>>
        /\ srv'[1].value = srv[1].value /\ srv'[2] = srv[2]
        /\ call'[1] = call[1]
        /\ call'[2].buf.value = "stale" /\ call'[2].ret = "null"
    BY <1>1, ProcessRelayEffect DEF SrvMoves, SameCall, SameSrv
  <2>2. Destination' = Destination
    BY <2>1, SameRequest
  <2>3. \A g \in Hop :
          /\ SeenNow(call'[g].buf.value) /\ SeenNow(call'[g].ret)
          /\ SeenNow(srv'[g].value)
          /\ rep'[g] # None => SeenNow(rep'[g].value)
    BY <2>1, NotNodes, HopNumbers DEF TraceInv, Seen, SeenNow
  <2>4. QED
    BY <2>1, <2>2, <2>3 DEF TraceInv, Seen, SeenNow
<1>2. CASE process_relayed
  <2>1. /\ OtherHop(1) /\ ask # None /\ UNCHANGED <<ask, slots, worked>>
        /\ srv'[1].value = RelayedValue \/ srv'[1].value = "stale"
        /\ call'[1] = call[1] /\ rep'[1] = rep[1]
    BY <1>2, ProcessRelayedEffect DEF SameCall, SameWire
  <2>2. SeenNow(call[2].ret)
    BY <2>1 DEF TraceInv, Seen, SeenNow, Hop
  <2>3. handler.failed \notin Node
    BY <2>1, AskFacts DEF RowSound, handler, Node
  <2>4. SeenNow(RelayedValue)
    BY <2>2, <2>3 DEF RelayedValue, SeenNow
  <2>5. 1 \in Hop /\ SeenNow(srv'[1].value)
    BY <2>1, <2>4, NotNodes DEF Hop
  <2>6. QED
    BY <2>1, <2>5, IdleTrace
<1>3. QED
  BY <1>1, <1>2

LEMMA BeginTrace ==
    ASSUME TypeInv, NEW type \in Type, NEW station \in BOOLEAN,
           NEW shape \in Shapes, Begin(type, station, shape)
    PROVE  TraceInv'
<1>1. /\ Resting /\ slots' = NewSlots(type) /\ call'[2] = IdleCall
      /\ call'[1].buf.value = "stale" /\ call'[1].ret = "null"
      /\ UNCHANGED <<rep, srv, worked>>
  BY BeginEffect
<1>2. worked' = {}
  BY <1>1 DEF Resting
<1>3. \A i \in DOMAIN slots' : SeenNow(slots'[i])
  BY <1>1 DEF NewSlots, SeenNow, Node
<1>4. \A g \in Hop : rep'[g] = None /\ srv'[g].value = "empty"
  BY <1>1 DEF Resting, IdleSrv
<1>5. \A g \in Hop : SeenNow(call'[g].buf.value) /\ SeenNow(call'[g].ret)
  BY <1>1, NotNodes, HopNumbers DEF IdleCall
<1>6. QED
  BY <1>2, <1>3, <1>4, <1>5, NotNodes DEF TraceInv, Seen, SeenNow

LEMMA TraceStep ==
    TypeInv /\ OrderInv /\ TraceInv /\ [Next]_vars => TraceInv'
<1> SUFFICES ASSUME TypeInv, OrderInv, TraceInv, [Next]_vars
             PROVE  TraceInv'
  OBVIOUS
<1>1. CASE UNCHANGED vars
  BY <1>1 DEF TraceInv, vars, Seen, Destination
<1>2. CASE Return
  BY <1>2 DEF Return, TraceInv
<1>3. CASE \E n \in Node : FallSilent(n)
  BY <1>3 DEF FallSilent, TraceInv, Seen, Destination
<1>4. QED
  BY <1>1, <1>2, <1>3, CallTrace, SrvTrace, RelayTrace, BeginTrace
     DEF Next, Step

LEMMA InitTrace == Init => TraceInv
BY DEF Init, TraceInv

\* OrderInv and TraceInv hold in every state of a behaviour.
THEOREM TracesHold == Spec => [](OrderInv /\ TraceInv)
BY InitTypes, InitOrder, InitTrace, TypeStep, OrderStep, TraceStep, PTL
   DEF Spec

\* The station address in process_ and the relay through send_: whatever
\* fails, and however the two hops interleave, only the node that the request
\* is for reads or sets anything, and a value that is returned as that of a
\* node was read there in this exchange - the stale values of the buffers never
\* pass for it.
THEOREM AskedNodeOnly == Spec => []OnlyTheNodeAsked
<1>1. OrderInv /\ TraceInv => OnlyTheNodeAsked
  BY DEF TraceInv, OnlyTheNodeAsked, Seen
<1>2. QED
  BY <1>1, TracesHold, PTL

-----------------------------------------------------------------------------
(* Exchanges in which nothing fails: the hops stay in step *)

\* The values that the hops carry depend on the request only.
LEMMA SameValues ==
    ASSUME ask'.type = ask.type, ask'.station = ask.station,
           ask'.shape = ask.shape
    PROVE  /\ \A h \in Hop : Values(h)' = Values(h) /\ Returns(h)' = Returns(h)
           /\ \A h \in Hop : LocalValue(h)' = LocalValue(h)
           /\ handler' = handler /\ sender' = sender
           /\ TriesOf(ask.type)' = TriesOf(ask.type)
           /\ ReplyType(ask.type)' = ReplyType(ask.type)
<1>1. /\ sender' = sender /\ handler' = handler
      /\ \A h \in Hop : Relays(h)' <=> Relays(h)
  BY SameRequest
<1>2. \A h \in Hop : LocalValue(h)' = LocalValue(h)
  BY <1>1 DEF LocalValue, WorksOn, Skips, NamesStation
<1>3. \A t : Expected(t)' <=> Expected(t)
  BY <1>1 DEF Expected
<1>4. /\ TriesOf(ask.type)' = TriesOf(ask.type)
      /\ ReplyType(ask.type)' = ReplyType(ask.type)
  BY DEF TriesOf, ReplyType
<1>5. \A v : Reading(v)' = Reading(v)
  BY <1>1, <1>3, <1>4 DEF Reading
<1>6. Reading({LocalValue(2)})' = Reading({LocalValue(2)})
  BY <1>1, <1>2, <1>3, <1>4 DEF Reading, Hop
<1>7. ApValues' = ApValues
  BY <1>1, <1>2, <1>6 DEF ApValues, Hop
<1>8. \A h \in Hop : Values(h)' = Values(h)
  BY <1>2, <1>7 DEF Values, Hop
<1>9. \A h \in Hop : Returns(h)' = Returns(h)
  BY <1>1, <1>3, <1>4, <1>8 DEF Returns, Reading
<1>10. QED
  BY <1>1, <1>2, <1>4, <1>8, <1>9

\* The other hop stays in step.
LEMMA OtherInStep ==
    ASSUME NEW g \in Hop, InStep(g), Carries(g), HopUnchanged(g),
           ask'.type = ask.type, ask'.station = ask.station,
           ask'.shape = ask.shape, g = 1 => UNCHANGED <<ask, slots>>
    PROVE  InStep(g)' /\ Carries(g)'
<1>1. /\ Values(g)' = Values(g) /\ Returns(g)' = Returns(g)
      /\ handler' = handler /\ ReplyType(ask.type)' = ReplyType(ask.type)
  BY SameValues
<1>2. InStep(g)'
  BY <1>1 DEF InStep, HopUnchanged
<1>3. g = 2 => call'[2] = call[2]
  BY DEF HopUnchanged
<1>4. Carries(g)'
  BY <1>1, <1>3, HopNumbers DEF Carries, HopUnchanged
<1>5. QED
  BY <1>2, <1>4

\* What a step must show of the one hop that it changes.
LEMMA HopClean ==
    ASSUME CleanState, NEW h \in Hop, OtherHop(h),
           ask'.type = ask.type, ask'.station = ask.station,
           ask'.shape = ask.shape, h = 2 => UNCHANGED <<ask, slots>>,
           InStep(h)', Carries(h)',
           \A i \in 1..(ask'.try - 1) : slots'[i] \in Returns(1),
           call'[1].pc = "done" => ask'.try = TriesOf(ask.type)
    PROVE  CleanState'
<1>1. ASSUME NEW g \in Hop
      PROVE  InStep(g)' /\ Carries(g)'
  <2>1. CASE g = h
    BY <2>1
  <2>2. CASE g # h
    <3>1. HopUnchanged(g) /\ InStep(g) /\ Carries(g)
      BY <2>2 DEF OtherHop, CleanState
    <3>2. g = 1 => UNCHANGED <<ask, slots>>
      BY <2>2, HopNumbers
    <3>3. QED
      BY <3>1, <3>2, OtherInStep
  <2>3. QED
    BY <2>1, <2>2
<1>2. Returns(1)' = Returns(1) /\ TriesOf(ask.type)' = TriesOf(ask.type)
  BY SameValues DEF Hop
<1>3. QED
  BY <1>1, <1>2 DEF CleanState

\* The same for a step that keeps the question and the slots.
LEMMA HopClean2 ==
    ASSUME CleanState, NEW h \in Hop, OtherHop(h),
           UNCHANGED <<ask, slots>>,
           InStep(h)', Carries(h)', call'[h].pc = "done" => call[h].pc = "done"
    PROVE  CleanState'
<1>1. \A i \in 1..(ask'.try - 1) : slots'[i] \in Returns(1)
  BY DEF CleanState
<1>2. call'[1].pc = "done" => ask'.try = TriesOf(ask.type)
  BY HopNumbers DEF CleanState, OtherHop, HopUnchanged, Hop
<1>3. QED
  BY <1>1, <1>2, HopClean

LEMMA ConnectClean ==
    ASSUME TypeInv, CleanState, NEW h \in Hop, Connect(h)
    PROVE  CleanState'
<1>1. /\ OtherHop(h) /\ CallMoves(h, "connect", "write")
      /\ srv'[h].pc = "read" /\ srv'[h].value = srv[h].value
      /\ conn'[h] = "open" /\ req'[h] = req[h] /\ rep'[h] = rep[h]
      /\ UNCHANGED <<ask, slots>>
  BY ConnectEffect
<1>2. InStep(h) /\ Carries(h)
  BY DEF CleanState
<1>3. InStep(h)'
  BY <1>1, <1>2 DEF InStep, CallMoves
<1>4. Carries(h)'
  BY <1>1, <1>2 DEF InStep, Carries, CallMoves
<1>5. QED
  BY <1>1, <1>3, <1>4, HopClean2 DEF CallMoves

LEMMA WriteClean ==
    ASSUME TypeInv, CleanState, sender.waits, NEW h \in Hop, Write(h)
    PROVE  CleanState'
<1>1. /\ OtherHop(h) /\ CallMoves(h, "write", "read")
      /\ SameSrv(h)
      /\ req'[h] = (conn[h] = "open")
      /\ conn'[h] = conn[h] /\ rep'[h] = rep[h]
      /\ UNCHANGED <<ask, slots>>
  BY WriteEffect
<1>2. InStep(h) /\ Carries(h)
  BY DEF CleanState
<1>3. conn[h] = "open" /\ srv[h].pc = "read" /\ rep[h] = None
  BY <1>1, <1>2 DEF InStep, CallMoves
<1>4. InStep(h)'
  BY <1>1, <1>3 DEF InStep, CallMoves, SameSrv
<1>5. Carries(h)'
  BY <1>1, <1>2, <1>3 DEF Carries, CallMoves, SameSrv
<1>6. QED
  BY <1>1, <1>4, <1>5, HopClean2 DEF CallMoves

LEMMA ReadClean ==
    ASSUME TypeInv, CleanState, NEW h \in Hop, Read(h)
    PROVE  CleanState'
<1>1. /\ OtherHop(h) /\ ask # None
      /\ call[h].pc = "read" /\ SameSrv(h) /\ SameWire(h)
      /\ UNCHANGED <<ask, slots>>
  BY ReadEffect DEF CallMoves
<1>2. InStep(h) /\ Carries(h)
  BY DEF CleanState
<1>3. /\ handler' = handler /\ Values(h)' = Values(h)
      /\ ReplyType(ask.type)' = ReplyType(ask.type)
  BY <1>1, SameValues
<1>4. CASE /\ rep[h] # None
           /\ call'[h].pc = "check" /\ call'[h].buf = rep[h]
  <2>1. srv[h].pc \in {"free", "idle"} /\ ~req[h] /\ handler.replies
    BY <1>1, <1>2, <1>4 DEF InStep
  <2>2. rep[h].type = ReplyType(ask.type) /\ rep[h].value \in Values(h)
    BY <1>2, <1>4 DEF Carries
  <2>3. InStep(h)'
    BY <1>1, <1>2, <1>3, <1>4, <2>1 DEF InStep, SameSrv, SameWire
  <2>4. Carries(h)'
    BY <1>1, <1>3, <1>4, <2>1, <2>2 DEF Carries, SameSrv, SameWire
  <2>5. QED
    BY <1>1, <1>4, <2>3, <2>4, HopClean2
<1>5. CASE /\ rep[h] = None
           /\ conn[h] = "broken" \/ srv[h].pc = "idle"
           /\ CallMoves(h, "read", IF sender.tested THEN "close" ELSE "check")
  <2>1. srv[h].pc = "idle" /\ ~req[h] /\ ~handler.replies
    BY <1>1, <1>2, <1>5 DEF InStep
  <2>2. ~sender.tested
    BY <1>1, <2>1, AskFacts DEF RowSound, sender, handler
  <2>3. call'[h].pc = "check" /\ call'[h].buf.value = "stale"
    BY <1>1, <1>2, <1>5, <2>2 DEF Carries, CallMoves
  <2>4. InStep(h)'
    BY <1>1, <1>2, <1>3, <2>1, <2>3 DEF InStep, SameSrv, SameWire
  <2>5. Carries(h)'
    BY <1>1, <1>3, <1>5, <2>1, <2>3 DEF Carries, SameSrv, SameWire
  <2>6. QED
    BY <1>1, <2>3, <2>4, <2>5, HopClean2
<1>6. QED
  BY <1>4, <1>5, ReadEffect

\* What return_message_type and decode_ make of the buffer.
LEMMA DecodedReturns ==
    ASSUME NEW h \in Hop, Carries(h), call[h].pc = "check"
    PROVE  Decoded(h) \in Returns(h)
<1>1. CASE handler.replies
  BY <1>1 DEF Carries, Decoded, Returns, Reading
<1>2. CASE ~handler.replies
  BY <1>2 DEF Carries, Decoded, Returns, Reading
<1>3. QED
  BY <1>1, <1>2

LEMMA CheckClean ==
    ASSUME TypeInv, CleanState, NEW h \in Hop, Check(h)
    PROVE  CleanState'
<1> DEFINE v == Decoded(h)
<1>1. /\ OtherHop(h) /\ ask # None
      /\ call[h].pc = "check" /\ call'[h].pc = "close" /\ call'[h].ret = v
      /\ slots' = IF h = 1 THEN [slots EXCEPT ![ask.try] = v] ELSE slots
      /\ SameSrv(h) /\ SameWire(h) /\ UNCHANGED ask
  BY CheckEffect
<1>2. InStep(h) /\ Carries(h)
  BY DEF CleanState
<1>3. v \in Returns(h)
  BY <1>1, <1>2, DecodedReturns
<1> HIDE DEF v
<1>4. /\ handler' = handler /\ Values(h)' = Values(h)
      /\ Returns(h)' = Returns(h)
      /\ ReplyType(ask.type)' = ReplyType(ask.type)
  BY <1>1, SameValues
<1>5. InStep(h)'
  BY <1>1, <1>2, <1>4 DEF InStep, SameSrv, SameWire
<1>6. ask.try \in 1..TriesOf(ask.type) /\ DOMAIN slots = 1..TriesOf(ask.type)
  BY <1>1, AskFacts, TriesBound DEF Asked
<1>7. h = 1 => slots'[ask'.try] = v
  BY <1>1, <1>6
<1>8. \A i \in 1..(ask'.try - 1) : slots'[i] = slots[i]
  BY <1>1, <1>6, TriesBound
<1>9. Carries(h)'
  BY <1>1, <1>2, <1>3, <1>4, <1>7, HopNumbers
     DEF Carries, SameSrv, SameWire
<1>10. h = 2 => UNCHANGED <<ask, slots>>
  BY <1>1
<1>11. call'[1].pc = "done" => ask'.try = TriesOf(ask.type)
  BY <1>1 DEF CleanState, OtherHop, HopUnchanged, Hop
<1>12. \A i \in 1..(ask'.try - 1) : slots'[i] \in Returns(1)
  BY <1>1, <1>8 DEF CleanState
<1>13. QED
  BY <1>1, <1>5, <1>9, <1>10, <1>11, <1>12, HopClean

LEMMA CloseClean ==
    ASSUME TypeInv, CleanState, NEW h \in Hop, Close(h)
    PROVE  CleanState'
<1>1. /\ OtherHop(h) /\ ask # None
      /\ call[h].pc = "close" /\ call'[h].ret = call[h].ret
      /\ ask'.type = ask.type /\ ask'.station = ask.station
      /\ ask'.shape = ask.shape
      /\ SameSrv(h)
      /\ conn'[h] = "none" /\ rep'[h] = None /\ req'[h] = req[h]
      /\ UNCHANGED slots
  BY CloseEffect
<1>2. InStep(h) /\ Carries(h)
  BY DEF CleanState
<1>3. /\ handler' = handler /\ Values(h)' = Values(h)
      /\ Returns(h)' = Returns(h)
      /\ ReplyType(ask.type)' = ReplyType(ask.type)
  BY <1>1, SameValues
<1>4. ask.try \in Nat /\ ask.try <= TriesOf(ask.type)
  BY <1>1, AskFacts DEF Asked
<1>5. CASE Retries(h)
  <2>0. /\ h = 1 /\ srv[1].pc \in {"idle", "ended"}
        /\ call'[1].pc = "connect" /\ call'[1].buf.value = "stale"
        /\ ask'.try = ask.try + 1
    BY <1>5, CloseEffect DEF Retries
  <2>1. /\ h = 1 /\ srv[1].pc = "idle"
        /\ call'[1].pc = "connect" /\ call'[1].buf.value = "stale"
        /\ ask'.try = ask.try + 1
    <3>1. srv[1].pc \in {"free", "idle"}
      BY <1>1, <1>2, <2>0 DEF InStep
    <3>2. QED
      BY <2>0, <3>1
  <2>2. InStep(h)'
    BY <1>1, <1>2, <2>1 DEF InStep, SameSrv
  <2>3. Carries(h)'
    BY <1>1, <2>1 DEF Carries, SameSrv
  <2>4. slots[ask.try] \in Returns(1)
    BY <1>1, <1>2, <2>1 DEF Carries
  <2>5. \A i \in 1..(ask'.try - 1) : i \in 1..(ask.try - 1) \/ i = ask.try
    BY <1>4, <2>1
  <2>6. \A i \in 1..(ask'.try - 1) : slots'[i] \in Returns(1)
    BY <1>1, <2>4, <2>5 DEF CleanState
  <2>7. QED
    BY <1>1, <2>1, <2>2, <2>3, <2>6, HopClean
<1>6. CASE ~Retries(h)
  <2>1. CallMoves(h, "close", "done") /\ UNCHANGED ask
    BY <1>6, CloseEffect
  <2>2. InStep(h)'
    BY <1>1, <1>2, <2>1 DEF InStep, SameSrv, CallMoves
  <2>3. Carries(h)'
    BY <1>1, <1>2, <1>3, <2>1, HopNumbers DEF Carries, SameSrv, CallMoves
  <2>4. h = 1 => ask.try = TriesOf(ask.type)
    BY <1>4, <1>6, TriesBound DEF Retries
  <2>5. call'[1].pc = "done" => ask'.try = TriesOf(ask.type)
    BY <1>1, <2>1, <2>4, HopNumbers
       DEF CleanState, OtherHop, HopUnchanged, Hop
  <2>6. \A i \in 1..(ask'.try - 1) : slots'[i] \in Returns(1)
    BY <1>1, <2>1 DEF CleanState
  <2>7. QED
    BY <1>1, <2>1, <2>2, <2>3, <2>5, <2>6, HopClean
<1>7. QED
  BY <1>5, <1>6

LEMMA ServletReadClean ==
    ASSUME TypeInv, CleanState, NEW h \in Hop, servlet_read(h)
    PROVE  CleanState'
<1>1. /\ OtherHop(h) /\ SrvMoves(h, "read", AfterRequest(req[h]))
      /\ req[h] \/ conn[h] # "open"
      /\ SameCall(h)
      /\ ~req'[h] /\ conn'[h] = conn[h] /\ rep'[h] = rep[h]
      /\ UNCHANGED <<ask, slots>>
  BY ServletReadEffect
<1>2. InStep(h) /\ Carries(h)
  BY DEF CleanState
<1>3. call[h].pc = "read" /\ req[h] /\ rep[h] = None
  <2>1. call[h].pc \in CallPc /\ srv[h].pc = "read"
    BY <1>1 DEF TypeInv, CallType, SrvMoves
  <2>2. QED
    BY <1>1, <1>2, <2>1 DEF InStep, CallPc
<1>4. srv'[h].pc = "process"
  BY <1>1, <1>3 DEF SrvMoves, AfterRequest
<1>5. /\ handler' = handler /\ Values(h)' = Values(h)
      /\ Returns(h)' = Returns(h)
      /\ ReplyType(ask.type)' = ReplyType(ask.type)
  BY <1>1, SameValues
<1>6. InStep(h)'
  BY <1>1, <1>2, <1>3, <1>4 DEF InStep, SameCall
<1>7. Carries(h)'
  BY <1>1, <1>2, <1>3, <1>4, <1>5 DEF Carries, SameCall
<1>8. QED
  BY <1>1, <1>3, <1>6, <1>7, HopClean2 DEF SameCall

\* A servlet with a value to reply, or nothing to.
LEMMA ProcessedClean ==
    ASSUME TypeInv, CleanState, NEW h \in Hop, OtherHop(h),
           srv[h].pc \in {"process", "relaying"},
           srv'[h].pc = AfterProcess, srv'[h].value \in Values(h),
           SameCall(h), SameWire(h), UNCHANGED <<ask, slots>>
    PROVE  CleanState'
<1>1. InStep(h) /\ Carries(h)
  BY DEF CleanState
<1>2. call[h].pc = "read" /\ ~req[h] /\ rep[h] = None
  <2>1. call[h].pc \in CallPc
    BY DEF TypeInv, CallType
  <2>2. QED
    BY <1>1, <2>1 DEF InStep, CallPc
<1>3. /\ handler' = handler /\ Values(h)' = Values(h)
      /\ Returns(h)' = Returns(h)
      /\ ReplyType(ask.type)' = ReplyType(ask.type)
  BY SameValues
<1>4. srv'[h].pc = IF handler.replies THEN "write" ELSE "free"
  BY DEF AfterProcess
<1>5. InStep(h)'
  BY <1>1, <1>2, <1>3, <1>4 DEF InStep, SameCall, SameWire
<1>6. Carries(h)'
  BY <1>1, <1>2, <1>3, <1>4 DEF Carries, SameCall, SameWire
<1>7. QED
  BY <1>2, <1>5, <1>6, HopClean2 DEF SameCall

LEMMA ProcessLocalClean ==
    ASSUME TypeInv, CleanState, NEW h \in Hop, process_local(h),
           ~misused'
    PROVE  CleanState'
<1>1. /\ OtherHop(h) /\ ~Relays(h)
      /\ srv[h].pc = "process" /\ srv'[h].pc = AfterProcess
      /\ srv'[h].value = LocalValue(h)
      /\ SameCall(h) /\ SameWire(h) /\ UNCHANGED <<ask, slots>>
  BY ProcessLocalEffect
<1>2. srv'[h].value \in Values(h)
  BY <1>1, HopNumbers DEF Values, ApValues
<1>3. QED
  BY <1>1, <1>2, ProcessedClean

\* What the AP replies when the station has answered.
LEMMA RelayedValueClean ==
    ASSUME CleanState, sender.waits, Relays(1), call[2].pc = "done"
    PROVE  RelayedValue \in Values(1)
<1>1. call[2].ret \in Reading({LocalValue(2)})
  BY DEF CleanState, Carries, Returns, Values, Hop
<1>2. RelayedValue = IF call[2].ret = "null" THEN handler.failed
                     ELSE call[2].ret
  BY DEF RelayedValue, StationAnswered
<1>3. QED
  BY <1>1, <1>2 DEF Values, ApValues

LEMMA ProcessRelayedClean ==
    ASSUME TypeInv, OrderInv, CleanState, sender.waits, process_relayed,
           ~misused'
    PROVE  CleanState'
<1>1. /\ OtherHop(1) /\ ask # None
      /\ srv[1].pc = "relaying" /\ call[2].pc = "done"
      /\ srv'[1].pc = AfterProcess /\ srv'[1].value = RelayedValue
      /\ SameCall(1) /\ SameWire(1) /\ UNCHANGED <<ask, slots>>
  BY ProcessRelayedEffect
<1>2. Relays(1) /\ 1 \in Hop
  BY <1>1 DEF OrderInv, Hop
<1>3. QED
  BY <1>1, <1>2, RelayedValueClean, ProcessedClean

LEMMA ProcessRelayClean ==
    ASSUME TypeInv, OrderInv, CleanState, ~Unnamed(ask.type, ask.shape.len),
           process_relay
    PROVE  CleanState'
<1>1. /\ ask # None /\ Relays(1)
      /\ SrvMoves(1, "process", "relaying")
      /\ SameSrv(2) /\ SameCall(1)
      /\ call'[2].pc = "connect" /\ call'[2].buf.value = "stale"
      /\ UNCHANGED <<ask, slots, conn, req, rep>>
  BY ProcessRelayEffect
<1>2. Fresh /\ 1 \in Hop /\ 2 \in Hop
  BY <1>1 DEF OrderInv, SrvMoves, Hop
<1>3. InStep(1) /\ Carries(1)
  BY <1>2 DEF CleanState
<1>4. call[1].pc = "read" /\ ~req[1] /\ rep[1] = None
  <2>1. call[1].pc \in CallPc /\ srv[1].pc = "process"
    BY <1>1, <1>2 DEF TypeInv, CallType, SrvMoves
  <2>2. QED
    BY <1>3, <2>1 DEF InStep, CallPc
<1>5. Returns(1)' = Returns(1) /\ TriesOf(ask.type)' = TriesOf(ask.type)
  BY <1>1, <1>2, SameValues
<1>6. InStep(1)'
  BY <1>1, <1>3, <1>4 DEF InStep, SrvMoves, SameCall
<1>7. Carries(1)'
  BY <1>1, <1>3, <1>4 DEF Carries, SrvMoves, SameCall
<1>8. InStep(2)'
  BY <1>1, <1>2 DEF InStep, Fresh, IdleSrv, SameSrv
<1>9. Carries(2)'
  BY <1>1, <1>2 DEF Carries, Fresh, IdleSrv, SameSrv
<1>10. QED
  BY <1>1, <1>4, <1>5, <1>6, <1>7, <1>8, <1>9, HopNumbers
     DEF CleanState, SameCall

LEMMA ServletWriteClean ==
    ASSUME TypeInv, CleanState, NEW h \in Hop, servlet_write(h)
    PROVE  CleanState'
<1>1. /\ OtherHop(h) /\ SrvMoves(h, "write", "free")
      /\ conn[h] = "open" =>
           /\ rep'[h] # None
           /\ rep'[h].type = ReplyType(ask.type)
           /\ rep'[h].value = srv[h].value
      /\ SameCall(h) /\ conn'[h] = conn[h] /\ req'[h] = req[h]
      /\ UNCHANGED <<ask, slots>>
  BY ServletWriteEffect
<1>2. InStep(h) /\ Carries(h)
  BY DEF CleanState
<1>3. call[h].pc = "read" /\ ~req[h] /\ conn[h] = "open"
  <2>1. call[h].pc \in CallPc /\ srv[h].pc = "write"
    BY <1>1 DEF TypeInv, CallType, SrvMoves
  <2>2. QED
    BY <1>2, <2>1 DEF InStep, CallPc
<1>4. /\ handler' = handler /\ Values(h)' = Values(h)
      /\ Returns(h)' = Returns(h)
      /\ ReplyType(ask.type)' = ReplyType(ask.type)
  BY <1>1, SameValues
<1>5. srv[h].value \in Values(h) /\ handler.replies
  BY <1>1, <1>2 DEF Carries, SrvMoves
<1>6. InStep(h)'
  BY <1>1, <1>3, <1>4, <1>5 DEF InStep, SameCall, SrvMoves
<1>7. Carries(h)'
  BY <1>1, <1>2, <1>3, <1>4, <1>5 DEF Carries, SameCall, SrvMoves
<1>8. QED
  BY <1>1, <1>3, <1>6, <1>7, HopClean2 DEF SameCall

LEMMA ServletFreeClean ==
    ASSUME TypeInv, CleanState, NEW h \in Hop, servlet_free(h)
    PROVE  CleanState'
<1>1. /\ OtherHop(h) /\ srv[h].pc = "free" /\ srv'[h].pc = "idle"
      /\ SameCall(h) /\ SameWire(h) /\ UNCHANGED <<ask, slots>>
  BY ServletFreeEffect
<1>2. InStep(h) /\ Carries(h)
  BY DEF CleanState
<1>3. /\ handler' = handler /\ Values(h)' = Values(h)
      /\ Returns(h)' = Returns(h)
      /\ ReplyType(ask.type)' = ReplyType(ask.type)
  BY <1>1, SameValues
<1>4. InStep(h)'
  BY <1>1, <1>2, <1>3 DEF InStep, SameCall, SameWire
<1>5. Carries(h)'
  BY <1>1, <1>2, <1>3, HopNumbers DEF Carries, SameCall, SameWire
<1>6. QED
  BY <1>1, <1>4, <1>5, HopClean2 DEF SameCall

LEMMA BeginClean ==
    ASSUME TypeInv, NEW type \in Type, NEW station \in BOOLEAN,
           NEW shape \in Shapes, Begin(type, station, shape), Undisturbed'
    PROVE  CleanState'
<1>1. /\ Resting /\ ask'.type = type /\ ask'.try = 1 /\ ask'.shape = shape
      /\ call'[2] = IdleCall
      /\ call'[1].pc = IF Unnamed(type, shape.len) THEN "done" ELSE "connect"
      /\ call'[1].buf.value = "stale"
      /\ UNCHANGED <<conn, req, rep, srv, misused>>
  BY BeginEffect
<1>2. call'[1].pc = "connect"
  BY <1>1 DEF Undisturbed, Unnamed
<1>3. /\ \A h \in Hop : /\ conn'[h] = "none" /\ ~req'[h] /\ rep'[h] = None
                        /\ srv'[h].pc = "idle"
      /\ ~misused'
  BY <1>1 DEF Resting, IdleSrv
<1>4. call'[2].pc = "idle"
  BY <1>1 DEF IdleCall
<1>5. InStep(1)' /\ InStep(2)'
  BY <1>2, <1>3, <1>4 DEF InStep, Hop
<1>6. Carries(1)' /\ Carries(2)'
  BY <1>1, <1>2, <1>3, <1>4 DEF Carries, Hop
<1>7. QED
  BY <1>1, <1>2, <1>3, <1>5, <1>6, HopNumbers DEF CleanState

\* A step that keeps the request and adds no fault was undisturbed before.
LEMMA UndisturbedBefore ==
    ASSUME TypeInv, Undisturbed', ask # None,
           ask'.type = ask.type, ask'.station = ask.station,
           ask'.shape = ask.shape, faults' = faults, misused => misused'
    PROVE  Undisturbed
BY SameRequest DEF Undisturbed, Unnamed

LEMMA CleanStep ==
    TypeInv /\ OrderInv /\ CleanInv /\ [Next]_vars => CleanInv'
<1> SUFFICES ASSUME TypeInv, OrderInv, CleanInv, [Next]_vars, Undisturbed'
             PROVE  CleanState'
  BY DEF CleanInv
<1>1. CASE UNCHANGED vars
  <2>1. Undisturbed
    BY <1>1 DEF vars, Undisturbed, Unnamed, sender
  <2>2. /\ ask'.type = ask.type /\ ask'.station = ask.station
        /\ ask'.shape = ask.shape /\ UNCHANGED <<ask, slots>>
        /\ \A h \in Hop : HopUnchanged(h) /\ OtherHop(h)
    BY <1>1 DEF vars, HopUnchanged, OtherHop
  <2>3. CleanState
    BY <2>1 DEF CleanInv
  <2>4. InStep(1)' /\ Carries(1)' /\ 1 \in Hop /\ call'[1] = call[1]
    BY <2>2, <2>3, OtherInStep DEF CleanState, Hop, HopUnchanged
  <2>5. QED
    BY <2>2, <2>3, <2>4, HopClean2
<1>2. CASE Return
  BY <1>2 DEF Return, Undisturbed
<1>3. CASE \E type \in Type, station \in BOOLEAN, shape \in Shapes :
             Begin(type, station, shape)
  BY <1>3, BeginClean
<1>4. CASE \/ \E h \in Hop : \/ ConnectFails(h) \/ HandshakeFails(h)
                             \/ Break(h) \/ process_missing(h)
           \/ \E n \in Node : FallSilent(n)
  <2>1. faults' > 0
    BY <1>4, ConnectFailsEffect, BreakEffect, FallSilentEffect,
       ProcessMissingEffect
  <2>2. QED
    BY <2>1 DEF Undisturbed
<1>5. ASSUME NEW h \in Hop, CallStep(h)
      PROVE  CleanState'
  <2>0. ~Refused(h) /\ ~CallerEnds(h) /\ ~misused'
    BY RefusedEffect, CallerEndsEffect DEF Undisturbed
  <2>1. /\ ask # None /\ faults' = faults
        /\ ask'.type = ask.type /\ ask'.station = ask.station
        /\ ask'.shape = ask.shape /\ (misused => misused')
    BY <1>5, <2>0, ConnectEffect, WriteEffect, ReadEffect, CheckEffect,
       CloseEffect DEF CallStep
  <2>2. CleanState /\ sender.waits
    BY <2>1, UndisturbedBefore DEF CleanInv, Undisturbed
  <2>3. QED
    BY <1>5, <2>0, <2>2, ConnectClean, WriteClean, ReadClean, CheckClean,
       CloseClean DEF CallStep
<1>6. ASSUME NEW h \in Hop, SrvStep(h) \/ CrashMissing(h)
      PROVE  CleanState'
  <2>0. ~Crash(h) /\ ~CrashMissing(h) /\ ~misused'
    BY CrashEffect DEF Undisturbed
  <2>1. ask # None /\ faults' = faults /\ ask' = ask /\ (misused => misused')
    BY <1>6, <2>0, ServletReadEffect, ProcessLocalEffect,
       ServletWriteEffect, ServletFreeEffect DEF SrvStep
  <2>2. CleanState
    BY <2>1, UndisturbedBefore DEF CleanInv
  <2>3. QED
    BY <1>6, <2>0, <2>2, ServletReadClean, ProcessLocalClean,
       ServletWriteClean, ServletFreeClean DEF SrvStep
<1>7. CASE process_relay \/ process_relayed
  <2>0. ~misused'
    BY DEF Undisturbed
  <2>1. ask # None /\ faults' = faults /\ ask' = ask /\ (misused => misused')
    BY <1>7, ProcessRelayEffect, ProcessRelayedEffect
  <2>2. /\ CleanState /\ sender.waits
        /\ ~Unnamed(ask.type, ask.shape.len)
    BY <2>1, UndisturbedBefore DEF CleanInv, Undisturbed
  <2>3. QED
    BY <1>7, <2>0, <2>2, ProcessRelayClean, ProcessRelayedClean
<1>8. QED
  BY <1>1, <1>2, <1>3, <1>4, <1>5, <1>6, <1>7 DEF Next, Step

LEMMA InitClean == Init => CleanInv
BY DEF Init, CleanInv, Undisturbed

\* CleanInv holds in every state of a behaviour.
THEOREM CleanHolds == Spec => []CleanInv
<1>1. Init => CleanInv
  BY InitClean
<1>2. TypeInv /\ OrderInv /\ CleanInv /\ [Next]_vars => CleanInv'
  BY CleanStep
<1>3. QED
  BY <1>1, <1>2, TypesHold, TracesHold, PTL DEF Spec

-----------------------------------------------------------------------------
(* The AP outlives a relay *)

\* A step of one hop keeps the request and ends no process.
Harmless(h) ==
    /\ ask # None
    /\ ask'.type = ask.type /\ ask'.station = ask.station
    /\ ask'.shape = ask.shape
    /\ OtherHop(h)
    /\ srv'[h].pc = "ended" => srv[h].pc = "ended"

LEMMA CallHarmless ==
    ASSUME TypeInv, NEW h \in Hop, h = 1 \/ ~CallerEnds(h),
           CallStep(h) \/ ConnectFails(h) \/ HandshakeFails(h)
    PROVE  Harmless(h)
<1>1. CASE Connect(h)
  BY <1>1, ConnectEffect DEF Harmless
<1>2. CASE ConnectFails(h) \/ HandshakeFails(h)
  BY <1>2, ConnectFailsEffect DEF Harmless, SameSrv
<1>3. CASE Refused(h)
  BY <1>3, RefusedEffect DEF Harmless, SameSrv
<1>4. CASE Write(h)
  BY <1>4, WriteEffect DEF Harmless, SameSrv
<1>5. CASE Read(h)
  BY <1>5, ReadEffect DEF Harmless, SameSrv
<1>6. CASE Check(h)
  BY <1>6, CheckEffect DEF Harmless, SameSrv
<1>7. CASE Close(h)
  BY <1>7, CloseEffect DEF Harmless, SameSrv
<1>8. CASE h = 1 /\ CallerEnds(h)
  BY <1>8, CallerEndsEffect DEF Harmless, SameSrv
<1>9. QED
  BY <1>1, <1>2, <1>3, <1>4, <1>5, <1>6, <1>7, <1>8 DEF CallStep

LEMMA SrvHarmless ==
    ASSUME TypeInv, NEW h \in Hop, ~Crash(h),
           SrvStep(h) \/ Break(h) \/ process_missing(h)
    PROVE  Harmless(h)
<1>1. CASE servlet_read(h)
  BY <1>1, ServletReadEffect DEF Harmless, SrvMoves, AfterRequest
<1>2. CASE process_local(h)
  BY <1>2, ProcessLocalEffect DEF Harmless, AfterProcess
<1>3. CASE servlet_write(h)
  BY <1>3, ServletWriteEffect DEF Harmless, SrvMoves
<1>4. CASE servlet_free(h)
  BY <1>4, ServletFreeEffect DEF Harmless
<1>5. CASE Break(h)
  BY <1>5, BreakEffect DEF Harmless, SameSrv
<1>6. CASE process_missing(h)
  BY <1>6, ProcessMissingEffect DEF Harmless, AfterProcess
<1>7. QED
  BY <1>1, <1>2, <1>3, <1>4, <1>5, <1>6 DEF SrvStep

LEMMA RelaySurvivedKept ==
    ASSUME RelaySurvived, ask # None,
           ask'.type = ask.type, ask'.station = ask.station,
           ask'.shape = ask.shape, srv'[1].pc = "ended" => srv[1].pc = "ended"
    PROVE  RelaySurvived'
<1>1. Relays(1)' <=> Relays(1)
  BY SameRequest DEF Hop
<1>2. QED
  BY <1>1 DEF RelaySurvived

LEMMA HarmlessKept ==
    ASSUME RelaySurvived, NEW h \in Hop, Harmless(h)
    PROVE  RelaySurvived'
<1>1. srv'[1].pc = "ended" => srv[1].pc = "ended"
  BY DEF Harmless, OtherHop, HopUnchanged, Hop
<1>2. QED
  BY <1>1, RelaySurvivedKept DEF Harmless

\* The handler of the AP ends the process after it passed the request on ...
LEMMA CrashSurvived ==
    ASSUME TypeInv, RelaySurvived, NEW h \in Hop,
           Crash(h) \/ CrashMissing(h)
    PROVE  RelaySurvived'
<1>1. /\ ask # None /\ UNCHANGED ask /\ OtherHop(h)
      /\ \/ ~Relays(h)
         \/ h = 1 /\ (CarelessRelay(handler.null)
                      \/ CarelessRelay(handler.wild))
  BY CrashEffect
<1>2. Relays(1)' <=> Relays(1)
  BY <1>1, SameRequest DEF Hop
<1>3. CASE h = 2
  BY <1>1, <1>3, RelaySurvivedKept DEF OtherHop, HopUnchanged, Hop
<1>4. CASE h = 1
  <2>1. SUFFICES ASSUME Relays(1)
                 PROVE  ask.type \in {"MSG_SCAN", "MSG_GET_STATISTICS",
                                      "MSG_GET_ROUTES"}
    BY <1>1, <1>2 DEF RelaySurvived
  <2>2. {"relayed", "failed"} \cap (handler.null \cup handler.wild) # {}
    BY <1>1, <1>4, <2>1 DEF CarelessRelay
  <2>3. Surviving(ask.type, MessageTable[ask.type])
    BY <1>1, AskFacts DEF RowSound
  <2>4. QED
    BY <2>1, <2>2, <2>3 DEF Surviving, Relays, handler
<1>5. QED
  BY <1>3, <1>4, HopNumbers

\* ... or the sender does while it does so.
LEMMA CallerSurvived ==
    ASSUME TypeInv, OrderInv, CallerEnds(2)
    PROVE  RelaySurvived'
<1>1. /\ ask # None /\ UNCHANGED ask
      /\ \/ sender.slip = "filling"
         \/ sender.slip \in {"sent", "answered"} /\ ask.shape.len = 0
  BY CallerEndsEffect DEF NoName, Hop
<1>2. Relays(1)' <=> Relays(1)
  BY <1>1, SameRequest DEF Hop
<1>3. Surviving(ask.type, MessageTable[ask.type])
  BY <1>1, AskFacts DEF RowSound
<1>4. QED
  BY <1>1, <1>2, <1>3 DEF Surviving, Relays, handler, sender, RelaySurvived

LEMMA SurvivedStep ==
    TypeInv /\ OrderInv /\ RelaySurvived /\ [Next]_vars => RelaySurvived'
<1> SUFFICES ASSUME TypeInv, OrderInv, RelaySurvived, [Next]_vars
             PROVE  RelaySurvived'
  OBVIOUS
<1>1. CASE UNCHANGED vars
  <2>1. CASE ask = None
    BY <1>1, <2>1 DEF vars, RelaySurvived
  <2>2. CASE ask # None
    BY <1>1, <2>2, RelaySurvivedKept DEF vars
  <2>3. QED
    BY <2>1, <2>2
<1>2. CASE Return
  BY <1>2 DEF Return, RelaySurvived
<1>3. CASE \E type \in Type, station \in BOOLEAN, shape \in Shapes :
             Begin(type, station, shape)
  <2>1. Resting /\ UNCHANGED srv
    BY <1>3, BeginEffect
  <2>2. srv'[1].pc = "idle"
    BY <2>1 DEF Resting, IdleSrv, Hop
  <2>3. QED
    BY <2>2 DEF RelaySurvived
<1>4. CASE \E n \in Node : FallSilent(n)
  BY <1>4, FallSilentEffect, RelaySurvivedKept
<1>5. ASSUME NEW h \in Hop,
             CallStep(h) \/ ConnectFails(h) \/ HandshakeFails(h)
      PROVE  RelaySurvived'
  BY <1>5, CallHarmless, HarmlessKept, CallerSurvived, HopNumbers
<1>6. ASSUME NEW h \in Hop,
             \/ SrvStep(h) \/ Break(h)
             \/ process_missing(h) \/ CrashMissing(h)
      PROVE  RelaySurvived'
  BY <1>6, SrvHarmless, HarmlessKept, CrashSurvived
<1>7. CASE process_relay \/ process_relayed
  <2>1. ask # None /\ UNCHANGED ask /\ srv'[1].pc # "ended"
    BY <1>7, ProcessRelayEffect, ProcessRelayedEffect
       DEF SrvMoves, AfterProcess
  <2>2. QED
    BY <2>1, RelaySurvivedKept
<1>8. QED
  BY <1>1, <1>2, <1>3, <1>4, <1>5, <1>6, <1>7 DEF Next, Step

\* process_ and the relay through send_: whatever becomes of the station and
\* of the connections, the process of an AP that passes a request on ends only
\* for a scan, statistics, routes and a wlan_info without a name - never for
\* any other of the messages, however the exchange fails.
THEOREM RelaySurvives == Spec => []RelaySurvived
<1>1. Init => RelaySurvived
  BY DEF Init, RelaySurvived
<1>2. QED
  BY <1>1, SurvivedStep, TypesHold, TracesHold, PTL DEF Spec

-----------------------------------------------------------------------------
(* Answers *)

Served ==
    /\ ~Skipped
    /\ \/ ask.type \notin Unanswered \cup UnansweredByStation
       \/ ask.type \in UnansweredByStation /\ ~ask.station

\* Which requests are not looked into.
LEMMA SkipsOf ==
    ASSUME RowSound(ask.type, MessageTable[ask.type])
    PROVE  /\ Skips(1) <=> Skipped
           /\ Skips(2) => Skipped
           /\ handler.skips # "nothing" => handler.local = "own"
           /\ handler.skips = "nothing" => ~Skips(1) /\ ~Skips(2)
BY DEF RowSound, Skipping, Skips, Skipped, NamesStation, handler

\* What the table says of the requests that are answered ...
LEMMA ServedReturns ==
    ASSUME TypeInv, OrderInv, ask # None, sender.waits, Served
    PROVE  Returns(1) \subseteq {Destination, "fixed"}
<1>1. RowSound(ask.type, MessageTable[ask.type])
  BY AskFacts
<1>0. ~Skips(1) /\ ~Skips(2)
  BY <1>1, SkipsOf DEF Served
<1>2. ask.type \notin Unanswered
  BY DEF Served, Unanswered, UnansweredByStation
<1>3. /\ handler.replies
      /\ IF ask.type \in UnansweredByStation
         THEN handler.local \in {"own", "here", "ap"} /\ ~ask.station
         ELSE /\ handler.local \in {"own", "fixed"}
              /\ sender.station /\ ~handler.relays => handler.local = "fixed"
  BY <1>1, <1>2 DEF RowSound, Answering, handler, sender, Served
<1>4. Expected(ReplyType(ask.type))
  BY <1>1, <1>2, <1>3
     DEF RowSound, Expecting, Expected, sender, handler, ReplyType
<1>5. \A v : Reading(v) = v
  BY <1>3, <1>4 DEF Reading
<1>6. CASE ~ask.station
  <2>1. ~Relays(1) /\ ~NamesStation(1) /\ Server(1) = "ap"
    BY <1>6 DEF Relays, NamesStation, Server
  <2>2. LocalValue(1) \in {"ap", "fixed"}
    BY <1>0, <1>1, <1>3, <2>1, SkipsOf DEF LocalValue, WorksOn
  <2>3. QED
    BY <1>5, <1>6, <2>1, <2>2 DEF Returns, Values, ApValues, Destination
<1>7. CASE ask.station
  <2>1. sender.station
    BY <1>7 DEF OrderInv
  <2>2. /\ handler.local \in {"own", "fixed"}
        /\ ~handler.relays => handler.local = "fixed"
    <3>1. ask.type \notin UnansweredByStation
      BY <1>7 DEF Served
    <3>2. QED
      BY <1>3, <2>1, <3>1
  <2>3. LocalValue(2) \in {"sta", "fixed"}
    BY <1>0, <1>1, <2>2, SkipsOf DEF LocalValue, WorksOn, Server
  <2>4. CASE Relays(1)
    BY <1>5, <1>7, <2>3, <2>4 DEF Returns, Values, ApValues, Destination
  <2>5. CASE ~Relays(1)
    <3>1. handler.local = "fixed"
      BY <1>0, <1>7, <2>2, <2>5 DEF Relays, NamesStation
    <3>2. LocalValue(1) = "fixed"
      BY <1>1, <3>1, SkipsOf DEF LocalValue, WorksOn
    <3>3. QED
      BY <1>5, <2>5, <3>2 DEF Returns, Values, ApValues
  <2>6. QED
    BY <2>4, <2>5
<1>8. QED
  BY <1>6, <1>7

\* ... and of those that are not.
LEMMA UnservedReturns ==
    ASSUME TypeInv, OrderInv, ask # None, sender.waits, ~Served
    PROVE  Returns(1) \cap {Destination, "fixed"} = {}
<1>1. RowSound(ask.type, MessageTable[ask.type])
  BY AskFacts
<1>2. Destination \in {"ap", "sta"}
  BY DEF Destination
<1>3. handler.failed \in {"asked", "empty"}
  BY <1>1 DEF RowSound, handler
<1>8. CASE Skipped
  <2>1. Skips(1) /\ handler.local = "own" /\ ~Relays(1)
    BY <1>1, <1>8, SkipsOf DEF Relays
  <2>2. LocalValue(1) \in {"asked", "empty"}
    BY <2>1 DEF LocalValue, WorksOn
  <2>3. Values(1) = {LocalValue(1)}
    BY <2>1 DEF Values, ApValues
  <2>4. QED
    BY <1>2, <2>2, <2>3 DEF Returns, Reading
<1>4. CASE ~handler.replies
  BY <1>2, <1>4 DEF Returns, Reading
<1>5. CASE handler.replies /\ ~Expected(ReplyType(ask.type))
  BY <1>2, <1>5 DEF Returns, Reading
<1>6. CASE ~Skipped /\ handler.replies /\ Expected(ReplyType(ask.type))
  <2>1. \A v : Reading(v) = v
    BY <1>6 DEF Reading
  <2>2. CASE ask.type \in Unanswered
    <3>1. handler.local = "asked"
      <4>1. ask.type # "MSG_PING"
        BY <2>2 DEF Unanswered
      <4>2. \/ handler.local = "asked"
            \/ /\ "any" \notin sender.expects
               /\ ask.type \notin sender.expects
               /\ handler.local # "error"
            \/ /\ "any" \notin sender.expects
               /\ "MSG_ERR_TYPE" \notin sender.expects
               /\ handler.local = "error"
        BY <1>1, <1>6, <2>2 DEF RowSound, NotAnswering, handler, sender
      <4>3. ReplyType(ask.type) = IF handler.local = "error"
                                  THEN "MSG_ERR_TYPE" ELSE ask.type
        BY <4>1 DEF ReplyType, handler
      <4>4. QED
        BY <1>6, <4>2, <4>3 DEF Expected
    <3>2. LocalValue(1) = "asked" /\ LocalValue(2) = "asked"
      BY <1>1, <3>1, SkipsOf DEF LocalValue, WorksOn
    <3>3. QED
      BY <1>2, <2>1, <3>2 DEF Returns, Values, ApValues
  <2>3. CASE ask.type \notin Unanswered
    <3>1. ask.type \in UnansweredByStation /\ ask.station
      BY <1>6, <2>3 DEF Served
    <3>2. IF handler.relays THEN handler.local = "ap"
          ELSE handler.local \in {"own", "here"}
      BY <1>1, <2>3, <3>1 DEF RowSound, Answering, handler, sender
    <3>3. Destination = "sta"
      BY <3>1 DEF Destination
    <3>4. CASE handler.relays
      <4>1. Relays(1)
        BY <1>1, <3>1, <3>2, <3>4, SkipsOf DEF Relays, NamesStation
      <4>2. LocalValue(2) = "empty"
        BY <3>2, <3>4 DEF LocalValue, WorksOn, Server
      <4>3. QED
        BY <2>1, <3>3, <4>1, <4>2 DEF Returns, Values, ApValues
    <3>5. CASE ~handler.relays
      <4>1. ~Relays(1)
        BY <3>5 DEF Relays
      <4>2. LocalValue(1) \in {"ap", "asked", "empty"}
        BY <3>2, <3>5 DEF LocalValue, WorksOn, Server
      <4>3. QED
        BY <2>1, <3>3, <4>1, <4>2 DEF Returns, Values, ApValues
    <3>6. QED
      BY <3>4, <3>5
  <2>4. QED
    BY <2>2, <2>3
<1>7. QED
  BY <1>4, <1>5, <1>6, <1>8

\* send_, servlet and process_ of all types: when nothing fails and no memory
\* is misused, a sender that waits returns, in every slot and at both hops, the
\* value of the node that it asked - except for the requests listed, for which
\* it never does.
THEOREM AnsweredEver == Spec => []Answered
<1>1. ASSUME TypeInv, OrderInv, CleanInv
      PROVE  Answered
  <2>1. SUFFICES ASSUME Undisturbed, call[1].pc = "done"
                 PROVE  (\A i \in DOMAIN slots :
                           slots[i] \in {Destination, "fixed"}) <=> Served
    BY Zenon DEF Answered, Undisturbed, Served
  <2>2. ask # None /\ sender.waits /\ CleanState
    BY <1>1, <2>1 DEF Undisturbed, CleanInv
  <2>3. /\ DOMAIN slots = 1..TriesOf(ask.type)
        /\ ask.try = TriesOf(ask.type) /\ TriesOf(ask.type) \in Nat \ {0}
    BY <1>1, <2>1, <2>2, AskFacts, TriesBound DEF Asked, CleanState
  <2>4. slots[ask.try] \in Returns(1)
    BY <2>1, <2>2 DEF CleanState, Carries, Hop
  <2>5. \A i \in DOMAIN slots : i \in 1..(ask.try - 1) \/ i = ask.try
    BY <2>3
  <2>6. \A i \in DOMAIN slots : slots[i] \in Returns(1)
    BY <2>2, <2>4, <2>5 DEF CleanState
  <2>7. 1 \in DOMAIN slots
    BY <2>3
  <2>8. CASE Served
    BY <1>1, <2>2, <2>6, <2>8, ServedReturns
  <2>9. CASE ~Served
    <3>1. Returns(1) \cap {Destination, "fixed"} = {}
      BY <1>1, <2>2, <2>9, UnservedReturns
    <3>2. QED
      BY <2>6, <2>7, <2>9, <3>1
  <2>10. QED
    BY <2>8, <2>9
<1>2. QED
  BY <1>1, TypesHold, TracesHold, CleanHolds, PTL

-----------------------------------------------------------------------------
(* Sums over the fields of a layout *)

Kind == {C, I, L, B, T, F, D, X, S, Y}

\* g[n] is the sum of the first n values of w.
Sums(g, N, w) == g = [i \in 0..N |-> IF i = 0 THEN 0 ELSE g[i - 1] + w[i]]

LEMMA SumStep ==
    ASSUME NEW N \in Nat, NEW w \in [1..N -> Nat], NEW g, Sums(g, N, w)
    PROVE  g[0] = 0 /\ \A i \in 1..N : g[i] = g[i - 1] + w[i]
<1>1. g = [i \in 0..N |-> IF i = 0 THEN 0 ELSE g[i - 1] + w[i]]
  BY DEF Sums
<1>2. \A i \in 0..N : g[i] = IF i = 0 THEN 0 ELSE g[i - 1] + w[i]
  BY <1>1
<1>3. 0 \in 0..N /\ \A i \in 1..N : i \in 0..N /\ i # 0
  OBVIOUS
<1>4. QED
  BY <1>2, <1>3

LEMMA SumExists ==
    ASSUME NEW N \in Nat, NEW w \in [1..N -> Nat]
    PROVE  \E g : Sums(g, N, w)
<1> DEFINE Q == {n \in Nat : n <= N => \E g : Sums(g, n, w)}
<1>1. 0 \in Q
  <2>1. PICK g : g = [i \in 0..0 |-> 0]
    OBVIOUS
  <2>2. g = [i \in 0..0 |-> IF i = 0 THEN 0 ELSE g[i - 1] + w[i]]
    BY <2>1
  <2>3. QED
    BY <2>2 DEF Sums
<1>2. ASSUME NEW n \in Nat, n \in Q
      PROVE  n + 1 \in Q
  <2>1. SUFFICES ASSUME n + 1 <= N
                 PROVE  \E g : Sums(g, n + 1, w)
    BY <1>2
  <2>2. PICK g : Sums(g, n, w)
    BY <1>2, <2>1
  <2>3. PICK f : f = [i \in 0..(n + 1) |-> IF i = n + 1 THEN g[n] + w[n + 1]
                                           ELSE g[i]]
    OBVIOUS
  <2>4. \A i \in 0..n : g[i] = IF i = 0 THEN 0 ELSE g[i - 1] + w[i]
    BY <2>2 DEF Sums
  <2>5. ASSUME NEW i \in 0..(n + 1)
        PROVE  f[i] = IF i = 0 THEN 0 ELSE f[i - 1] + w[i]
    <3>1. CASE i = n + 1
      <4>1. i # 0 /\ i - 1 = n /\ n \in 0..(n + 1) /\ n # n + 1
        BY <3>1
      <4>2. f[i] = g[n] + w[n + 1] /\ f[n] = g[n]
        BY <2>3, <3>1, <4>1
      <4>3. QED
        BY <3>1, <4>1, <4>2
    <3>2. CASE i # n + 1
      <4>1. i \in 0..n
        BY <3>2
      <4>2. f[i] = g[i]
        BY <2>3, <3>2
      <4>3. CASE i = 0
        BY <2>4, <4>1, <4>2, <4>3
      <4>4. CASE i # 0
        <5>1. i - 1 \in 0..(n + 1) /\ i - 1 # n + 1
          BY <4>1, <4>4
        <5>2. f[i - 1] = g[i - 1]
          BY <2>3, <5>1
        <5>3. QED
          BY <2>4, <4>1, <4>2, <4>4, <5>2
      <4>5. QED
        BY <4>3, <4>4
    <3>3. QED
      BY <3>1, <3>2
  <2>6. f = [i \in 0..(n + 1) |-> IF i = 0 THEN 0 ELSE f[i - 1] + w[i]]
    BY <2>3, <2>5
  <2>7. QED
    BY <2>6 DEF Sums
<1>3. Nat \subseteq Q
  <2> HIDE DEF Q
  <2>1. QED
    BY <1>1, <1>2, NumberInduction
<1>4. QED
  BY <1>3

LEMMA AddMore ==
    ASSUME NEW x \in Nat, NEW y \in Nat, NEW v \in Nat, NEW w \in Nat,
           NEW d \in Int, NEW e \in Int, y + d <= x, w + e <= v + d
    PROVE  x + v \in Nat /\ y + w \in Nat /\ (y + w) + e <= x + v
OBVIOUS

\* When the summands differ by what d grows by, or more, the sums differ by d.
LEMMA SumsDiffer ==
    ASSUME NEW N \in Nat, NEW v \in [1..N -> Nat], NEW w \in [1..N -> Nat],
           NEW g, Sums(g, N, v), NEW h, Sums(h, N, w),
           NEW d \in [0..N -> Int], d[0] = 0,
           \A i \in 1..N : w[i] + d[i] <= v[i] + d[i - 1]
    PROVE  g[N] \in Nat /\ h[N] \in Nat /\ h[N] + d[N] <= g[N]
<1> DEFINE Q == {n \in Nat : n <= N => /\ g[n] \in Nat /\ h[n] \in Nat
                                       /\ h[n] + d[n] <= g[n]}
<1>1. /\ g[0] = 0 /\ \A i \in 1..N : g[i] = g[i - 1] + v[i]
      /\ h[0] = 0 /\ \A i \in 1..N : h[i] = h[i - 1] + w[i]
  BY SumStep
<1>2. 0 \in Q
  BY <1>1
<1>3. ASSUME NEW n \in Nat, n \in Q
      PROVE  n + 1 \in Q
  <2>1. SUFFICES ASSUME n + 1 <= N
                 PROVE  /\ g[n + 1] \in Nat /\ h[n + 1] \in Nat
                        /\ h[n + 1] + d[n + 1] <= g[n + 1]
    BY <1>3
  <2>2. /\ g[n] \in Nat /\ h[n] \in Nat /\ h[n] + d[n] <= g[n]
    BY <1>3, <2>1
  <2>3. n + 1 \in 1..N /\ n \in 0..N /\ n + 1 \in 0..N /\ (n + 1) - 1 = n
    BY <2>1
  <2>4. /\ g[n + 1] = g[n] + v[n + 1] /\ h[n + 1] = h[n] + w[n + 1]
        /\ w[n + 1] + d[n + 1] <= v[n + 1] + d[n]
    BY <1>1, <2>3
  <2>5. v[n + 1] \in Nat /\ w[n + 1] \in Nat
    BY <2>3
  <2>6. d[n] \in Int /\ d[n + 1] \in Int
    BY <2>3
  <2>7. /\ g[n] + v[n + 1] \in Nat /\ h[n] + w[n + 1] \in Nat
        /\ (h[n] + w[n + 1]) + d[n + 1] <= g[n] + v[n + 1]
    BY <2>2, <2>4, <2>5, <2>6, AddMore
  <2>8. QED
    BY <2>4, <2>7
<1>4. Nat \subseteq Q
  <2> HIDE DEF Q
  <2>1. QED
    BY <1>2, <1>3, NumberInduction
<1>5. QED
  BY <1>4

CountedOf(f, len) == [i \in 1..Len(f) |-> Counted(f[i], len)]

EncodedOf(f, len) == [i \in 1..Len(f) |-> Encoded(f[i], len)]

\* buffer_handler_fun.c: what the lengths of a field differ by.
LEMMA FieldBytes ==
    ASSUME NEW k \in Kind, NEW len \in Nat
    PROVE  /\ Counted(k, len) \in Nat /\ Encoded(k, len) \in Nat
           /\ Encoded(k, len) <= Counted(k, len)
           /\ k = B => Counted(k, len) = Encoded(k, len) + 3
           /\ k # B => Counted(k, len) <= Encoded(k, len) + 1
           /\ k # B /\ k # C => Counted(k, len) = Encoded(k, len)
<1>1. CASE k = C
  BY <1>1 DEF Counted, Encoded, strlen_ethanol, encode_char, C, B
<1>2. CASE k = B
  BY <1>2 DEF Counted, Encoded, bool_len_ethanol, encode_bool, C, B
<1>3. CASE k # C /\ k # B
  <2>1. Counted(k, len) = Width[k] /\ Encoded(k, len) = Width[k]
    BY <1>3 DEF Counted, Encoded
  <2>2. Width[k] \in Nat
    BY <1>3 DEF Width, Kind, C, I, L, B, T, F, D, X, S, Y
  <2>3. QED
    BY <1>3, <2>1, <2>2
<1>4. QED
  BY <1>1, <1>2, <1>3

LEMMA FieldSums ==
    ASSUME NEW f \in Seq(Kind), NEW len \in Nat
    PROVE  /\ Len(f) \in Nat
           /\ CountedOf(f, len) \in [1..Len(f) -> Nat]
           /\ EncodedOf(f, len) \in [1..Len(f) -> Nat]
           /\ \E g : Sums(g, Len(f), CountedOf(f, len))
                     /\ Bytes(Counted, f, len) = g[Len(f)]
           /\ \E g : Sums(g, Len(f), EncodedOf(f, len))
                     /\ Bytes(Encoded, f, len) = g[Len(f)]
<1>1. Len(f) \in Nat /\ \A i \in 1..Len(f) : f[i] \in Kind
  OBVIOUS
<1>2. CountedOf(f, len) \in [1..Len(f) -> Nat]
  BY <1>1, FieldBytes DEF CountedOf
<1>3. EncodedOf(f, len) \in [1..Len(f) -> Nat]
  BY <1>1, FieldBytes DEF EncodedOf
<1>4. \E g : Sums(g, Len(f), CountedOf(f, len))
             /\ Bytes(Counted, f, len) = g[Len(f)]
  <2> DEFINE g == CHOOSE g : Sums(g, Len(f), CountedOf(f, len))
             s == CHOOSE s : s = [i \in 0..Len(f) |->
                                    IF i = 0 THEN 0
                                    ELSE s[i - 1] + Counted(f[i], len)]
  <2>1. Sums(g, Len(f), CountedOf(f, len))
    BY <1>1, <1>2, SumExists
  <2>2. ASSUME NEW e
        PROVE  Sums(e, Len(f), CountedOf(f, len))
                  <=> e = [i \in 0..Len(f) |->
                             IF i = 0 THEN 0
                             ELSE e[i - 1] + Counted(f[i], len)]
    <3>1. \A i \in 0..Len(f) :
             i # 0 => CountedOf(f, len)[i] = Counted(f[i], len)
      BY <1>1 DEF CountedOf
    <3>2. [i \in 0..Len(f) |->
             IF i = 0 THEN 0 ELSE e[i - 1] + CountedOf(f, len)[i]]
          = [i \in 0..Len(f) |->
               IF i = 0 THEN 0 ELSE e[i - 1] + Counted(f[i], len)]
      BY <3>1
    <3>3. QED
      BY <3>2 DEF Sums
  <2>3. g = s
    BY <2>2
  <2>4. Bytes(Counted, f, len) = s[Len(f)]
    BY DEF Bytes
  <2>5. QED
    BY <2>1, <2>3, <2>4
<1>5. \E g : Sums(g, Len(f), EncodedOf(f, len))
             /\ Bytes(Encoded, f, len) = g[Len(f)]
  <2> DEFINE g == CHOOSE g : Sums(g, Len(f), EncodedOf(f, len))
             s == CHOOSE s : s = [i \in 0..Len(f) |->
                                    IF i = 0 THEN 0
                                    ELSE s[i - 1] + Encoded(f[i], len)]
  <2>1. Sums(g, Len(f), EncodedOf(f, len))
    BY <1>1, <1>3, SumExists
  <2>2. ASSUME NEW e
        PROVE  Sums(e, Len(f), EncodedOf(f, len))
                  <=> e = [i \in 0..Len(f) |->
                             IF i = 0 THEN 0
                             ELSE e[i - 1] + Encoded(f[i], len)]
    <3>1. \A i \in 0..Len(f) :
             i # 0 => EncodedOf(f, len)[i] = Encoded(f[i], len)
      BY <1>1 DEF EncodedOf
    <3>2. [i \in 0..Len(f) |->
             IF i = 0 THEN 0 ELSE e[i - 1] + EncodedOf(f, len)[i]]
          = [i \in 0..Len(f) |->
               IF i = 0 THEN 0 ELSE e[i - 1] + Encoded(f[i], len)]
      BY <3>1
    <3>3. QED
      BY <3>2 DEF Sums
  <2>3. g = s
    BY <2>2
  <2>4. Bytes(Encoded, f, len) = s[Len(f)]
    BY DEF Bytes
  <2>5. QED
    BY <2>1, <2>3, <2>4
<1>6. QED
  BY <1>1, <1>2, <1>3, <1>4, <1>5

\* size_ counts at least what encode_ writes, if d says so of every field.
LEMMA BytesAtLeast ==
    ASSUME NEW f \in Seq(Kind), NEW len \in Nat,
           NEW d \in [0..Len(f) -> Int], d[0] = 0,
           \A i \in 1..Len(f) :
              Encoded(f[i], len) + d[i] <= Counted(f[i], len) + d[i - 1]
    PROVE  /\ Bytes(Counted, f, len) \in Nat /\ Bytes(Encoded, f, len) \in Nat
           /\ Bytes(Encoded, f, len) + d[Len(f)] <= Bytes(Counted, f, len)
<1>1. /\ Len(f) \in Nat
      /\ CountedOf(f, len) \in [1..Len(f) -> Nat]
      /\ EncodedOf(f, len) \in [1..Len(f) -> Nat]
  BY FieldSums
<1>2. PICK g : Sums(g, Len(f), CountedOf(f, len))
               /\ Bytes(Counted, f, len) = g[Len(f)]
  BY FieldSums
<1>3. PICK h : Sums(h, Len(f), EncodedOf(f, len))
               /\ Bytes(Encoded, f, len) = h[Len(f)]
  BY FieldSums
<1>4. \A i \in 1..Len(f) : EncodedOf(f, len)[i] + d[i]
                            <= CountedOf(f, len)[i] + d[i - 1]
  BY DEF EncodedOf, CountedOf
<1>5. /\ g[Len(f)] \in Nat /\ h[Len(f)] \in Nat
      /\ h[Len(f)] + d[Len(f)] <= g[Len(f)]
  BY <1>1, <1>2, <1>3, <1>4, SumsDiffer
<1>6. QED
  BY <1>2, <1>3, <1>5

LEMMA BytesAtMost ==
    ASSUME NEW f \in Seq(Kind), NEW len \in Nat,
           NEW d \in [0..Len(f) -> Int], d[0] = 0,
           \A i \in 1..Len(f) :
              Counted(f[i], len) + d[i] <= Encoded(f[i], len) + d[i - 1]
    PROVE  Bytes(Counted, f, len) + d[Len(f)] <= Bytes(Encoded, f, len)
<1>1. /\ Len(f) \in Nat
      /\ CountedOf(f, len) \in [1..Len(f) -> Nat]
      /\ EncodedOf(f, len) \in [1..Len(f) -> Nat]
  BY FieldSums
<1>2. PICK g : Sums(g, Len(f), CountedOf(f, len))
               /\ Bytes(Counted, f, len) = g[Len(f)]
  BY FieldSums
<1>3. PICK h : Sums(h, Len(f), EncodedOf(f, len))
               /\ Bytes(Encoded, f, len) = h[Len(f)]
  BY FieldSums
<1>4. \A i \in 1..Len(f) : CountedOf(f, len)[i] + d[i]
                            <= EncodedOf(f, len)[i] + d[i - 1]
  BY DEF EncodedOf, CountedOf
<1>5. g[Len(f)] + d[Len(f)] <= h[Len(f)]
  BY <1>1, <1>2, <1>3, <1>4, SumsDiffer
<1>6. QED
  BY <1>2, <1>3, <1>5

LEMMA EveryField ==
    ASSUME NEW f \in Seq(Kind), NEW len \in Nat
    PROVE  /\ Bytes(Counted, f, len) \in Nat /\ Bytes(Encoded, f, len) \in Nat
           /\ Bytes(Encoded, f, len) <= Bytes(Counted, f, len)
<1>1. Len(f) \in Nat /\ \A i \in 1..Len(f) : f[i] \in Kind
  OBVIOUS
<1>2. PICK d : d = [i \in 0..Len(f) |-> 0]
  OBVIOUS
<1>3. d \in [0..Len(f) -> Int] /\ d[0] = 0 /\ d[Len(f)] = 0
  BY <1>1, <1>2
<1>4. ASSUME NEW i \in 1..Len(f)
      PROVE  Encoded(f[i], len) + d[i] <= Counted(f[i], len) + d[i - 1]
  <2>1. d[i] = 0 /\ d[i - 1] = 0
    BY <1>1, <1>2
  <2>2. /\ Counted(f[i], len) \in Nat /\ Encoded(f[i], len) \in Nat
        /\ Encoded(f[i], len) <= Counted(f[i], len)
    BY <1>1, FieldBytes
  <2>3. QED
    BY <2>1, <2>2
<1>5. /\ Bytes(Counted, f, len) \in Nat /\ Bytes(Encoded, f, len) \in Nat
      /\ Bytes(Encoded, f, len) + d[Len(f)] <= Bytes(Counted, f, len)
  BY <1>3, <1>4, BytesAtLeast
<1>6. QED
  BY <1>3, <1>5

\* Two bools: size_ counts six bytes more.
LEMMA TwoBools ==
    ASSUME NEW f \in Seq(Kind), NEW len \in Nat,
           NEW a \in 1..Len(f), NEW b \in 1..Len(f), a < b,
           f[a] = B, f[b] = B
    PROVE  Bytes(Encoded, f, len) + 6 <= Bytes(Counted, f, len)
<1>1. Len(f) \in Nat /\ \A i \in 1..Len(f) : f[i] \in Kind
  OBVIOUS
<1>2. PICK d : d = [i \in 0..Len(f) |-> IF i < a THEN 0
                                        ELSE IF i < b THEN 3 ELSE 6]
  OBVIOUS
<1>3. d \in [0..Len(f) -> Int] /\ d[0] = 0 /\ d[Len(f)] = 6
  BY <1>1, <1>2
<1>4. ASSUME NEW i \in 1..Len(f)
      PROVE  Encoded(f[i], len) + d[i] <= Counted(f[i], len) + d[i - 1]
  <2>1. i \in 0..Len(f) /\ i - 1 \in 0..Len(f)
    BY <1>1
  <2>2. /\ Counted(f[i], len) \in Nat /\ Encoded(f[i], len) \in Nat
        /\ Encoded(f[i], len) <= Counted(f[i], len)
        /\ f[i] = B => Counted(f[i], len) = Encoded(f[i], len) + 3
    BY <1>1, FieldBytes
  <2>3. CASE i = a \/ i = b
    <3>1. d[i] = d[i - 1] + 3 /\ d[i - 1] \in Int
      BY <1>1, <1>2, <2>1, <2>3
    <3>2. QED
      BY <2>2, <2>3, <3>1
  <2>4. CASE i # a /\ i # b
    <3>1. d[i] = d[i - 1] /\ d[i - 1] \in Int
      BY <1>1, <1>2, <2>1, <2>4
    <3>2. QED
      BY <2>2, <3>1
  <2>5. QED
    BY <2>3, <2>4
<1>5. Bytes(Encoded, f, len) + d[Len(f)] <= Bytes(Counted, f, len)
  BY <1>3, <1>4, BytesAtLeast
<1>6. QED
  BY <1>3, <1>5

\* No bool: size_ counts at most a byte more for every field.
LEMMA NoBool ==
    ASSUME NEW f \in Seq(Kind), NEW len \in Nat,
           \A i \in 1..Len(f) : f[i] # B
    PROVE  Bytes(Counted, f, len) <= Bytes(Encoded, f, len) + Len(f)
<1>1. Len(f) \in Nat /\ \A i \in 1..Len(f) : f[i] \in Kind
  OBVIOUS
<1>2. PICK d : d = [i \in 0..Len(f) |-> -i]
  OBVIOUS
<1>3. d \in [0..Len(f) -> Int] /\ d[0] = 0 /\ d[Len(f)] = -Len(f)
  BY <1>1, <1>2
<1>4. ASSUME NEW i \in 1..Len(f)
      PROVE  Counted(f[i], len) + d[i] <= Encoded(f[i], len) + d[i - 1]
  <2>1. d[i] = -i /\ d[i - 1] = -(i - 1)
    BY <1>1, <1>2
  <2>2. /\ Counted(f[i], len) \in Nat /\ Encoded(f[i], len) \in Nat
        /\ Counted(f[i], len) <= Encoded(f[i], len) + 1
    BY <1>1, FieldBytes
  <2>3. QED
    BY <2>1, <2>2
<1>5. Bytes(Counted, f, len) + d[Len(f)] <= Bytes(Encoded, f, len)
  BY <1>3, <1>4, BytesAtMost
<1>6. Bytes(Counted, f, len) \in Nat /\ Bytes(Encoded, f, len) \in Nat
  BY EveryField
<1>7. QED
  BY <1>1, <1>3, <1>5, <1>6

\* Neither string nor bool: size_ counts what encode_ writes.
LEMMA Numbers ==
    ASSUME NEW f \in Seq(Kind), NEW len \in Nat,
           \A i \in 1..Len(f) : f[i] # B /\ f[i] # C
    PROVE  Bytes(Counted, f, len) = Bytes(Encoded, f, len)
<1>1. Len(f) \in Nat /\ \A i \in 1..Len(f) : f[i] \in Kind
  OBVIOUS
<1>2. PICK d : d = [i \in 0..Len(f) |-> 0]
  OBVIOUS
<1>3. d \in [0..Len(f) -> Int] /\ d[0] = 0 /\ d[Len(f)] = 0
  BY <1>1, <1>2
<1>4. ASSUME NEW i \in 1..Len(f)
      PROVE  Counted(f[i], len) + d[i] <= Encoded(f[i], len) + d[i - 1]
  <2>1. d[i] = 0 /\ d[i - 1] = 0
    BY <1>1, <1>2
  <2>2. /\ Counted(f[i], len) \in Nat /\ Encoded(f[i], len) \in Nat
        /\ Counted(f[i], len) = Encoded(f[i], len)
    BY <1>1, FieldBytes
  <2>3. QED
    BY <2>1, <2>2
<1>5. Bytes(Counted, f, len) + d[Len(f)] <= Bytes(Encoded, f, len)
  BY <1>3, <1>4, BytesAtMost
<1>6. /\ Bytes(Counted, f, len) \in Nat /\ Bytes(Encoded, f, len) \in Nat
      /\ Bytes(Encoded, f, len) <= Bytes(Counted, f, len)
  BY EveryField
<1>7. QED
  BY <1>3, <1>5, <1>6

-----------------------------------------------------------------------------
(* Layouts *)

Layout ==
    [fixed : Seq(Kind), item : Seq(Kind), sub : Seq(Kind),
     surplus : [fixed : Int, item : Int, sub : Int]]

\* The buffer has room for what encode_ writes, for every shape.
Roomy(layout) == \A s \in Shape : Written(layout, s) <= Announced(layout, s)

LEMMA TimesMore ==
    ASSUME NEW n \in Nat, NEW x \in Int, NEW y \in Int, x <= y
    PROVE  n * x <= n * y /\ n * x \in Int /\ n * y \in Int
OBVIOUS

LEMMA HeaderLength == encode_header \in Nat
BY DEF encode_header, encode_char

LEMMA RoomyWhen ==
    ASSUME NEW a \in Layout,
           0 <= a.surplus.fixed, 0 <= a.surplus.sub,
           \A len \in Nat : Bytes(Encoded, a.item, len)
                              <= Bytes(Counted, a.item, len) + a.surplus.item
    PROVE  Roomy(a)
<1>1. SUFFICES ASSUME NEW s \in Shape
               PROVE  Written(a, s) <= Announced(a, s)
  BY DEF Roomy
<1>2. s.len \in Nat /\ s.n \in Nat /\ s.m \in Nat
  BY DEF Shape
<1>3. /\ a.fixed \in Seq(Kind) /\ a.item \in Seq(Kind) /\ a.sub \in Seq(Kind)
      /\ a.surplus.fixed \in Int /\ a.surplus.item \in Int
      /\ a.surplus.sub \in Int
  BY DEF Layout
<1> DEFINE cf == Bytes(Counted, a.fixed, s.len)
           ef == Bytes(Encoded, a.fixed, s.len)
           ci == Bytes(Counted, a.item, s.len)
           ei == Bytes(Encoded, a.item, s.len)
           cs == Bytes(Counted, a.sub, s.len)
           es == Bytes(Encoded, a.sub, s.len)
<1>4. cf \in Nat /\ ef \in Nat /\ ef <= cf
  BY <1>2, <1>3, EveryField
<1>5. ci \in Nat /\ ei \in Nat /\ ei <= ci + a.surplus.item
  BY <1>2, <1>3, EveryField
<1>6. cs \in Nat /\ es \in Nat /\ es <= cs
  BY <1>2, <1>3, EveryField
<1>7. /\ Written(a, s) = encode_header + ef + s.n * (ei + s.m * es)
      /\ Announced(a, s) = encode_header + cf + a.surplus.fixed
            + s.n * (ci + a.surplus.item + s.m * (cs + a.surplus.sub))
  BY DEF Written, Announced
<1> HIDE DEF cf, ef, ci, ei, cs, es
<1> DEFINE p == s.m * es
           q == s.m * (cs + a.surplus.sub)
<1>8. p \in Int /\ q \in Int /\ p <= q
  <2>1. es \in Int /\ cs + a.surplus.sub \in Int /\ es <= cs + a.surplus.sub
    BY <1>3, <1>6
  <2>2. QED
    BY <1>2, <2>1, TimesMore
<1>9. /\ Written(a, s) = encode_header + ef + s.n * (ei + p)
      /\ Announced(a, s) = encode_header + cf + a.surplus.fixed
            + s.n * (ci + a.surplus.item + q)
  BY <1>7
<1> HIDE DEF p, q
<1> DEFINE u == s.n * (ei + p)
           v == s.n * (ci + a.surplus.item + q)
<1>10. u \in Int /\ v \in Int /\ u <= v
  <2>1. /\ ei + p \in Int /\ ci + a.surplus.item + q \in Int
        /\ ei + p <= ci + a.surplus.item + q
    BY <1>3, <1>5, <1>8
  <2>2. QED
    BY <1>2, <2>1, TimesMore
<1>11. /\ Written(a, s) = encode_header + ef + u
       /\ Announced(a, s) = encode_header + cf + a.surplus.fixed + v
  BY <1>9
<1> HIDE DEF u, v
<1>12. QED
  BY <1>3, <1>4, <1>10, <1>11, HeaderLength

LEMMA NestedRoomy ==
    ASSUME NEW f \in Seq(Kind), NEW i \in Seq(Kind), NEW s \in Seq(Kind)
    PROVE  Roomy(Nested(f, i, s))
<1> DEFINE a == Nested(f, i, s)
<1>1. /\ a \in Layout /\ a.item = i
      /\ a.surplus.fixed = 0 /\ a.surplus.item = 0 /\ a.surplus.sub = 0
  BY DEF Nested, Layout
<1> HIDE DEF a
<1>2. \A len \in Nat : Bytes(Encoded, a.item, len)
                         <= Bytes(Counted, a.item, len) + a.surplus.item
  <2>1. SUFFICES ASSUME NEW len \in Nat
                 PROVE  Bytes(Encoded, i, len) <= Bytes(Counted, i, len) + 0
    BY <1>1
  <2>2. /\ Bytes(Counted, i, len) \in Nat /\ Bytes(Encoded, i, len) \in Nat
        /\ Bytes(Encoded, i, len) <= Bytes(Counted, i, len)
    BY EveryField
  <2>3. QED
    BY <2>2
<1>3. Roomy(a)
  BY <1>1, <1>2, RoomyWhen
<1>4. QED
  BY <1>3 DEF a

LEMMA Kinds ==
    /\ C \in Kind /\ I \in Kind /\ L \in Kind /\ B \in Kind /\ T \in Kind
    /\ F \in Kind /\ D \in Kind /\ X \in Kind /\ S \in Kind /\ Y \in Kind
BY DEF Kind

LEMMA RepKinds ==
    ASSUME NEW k \in Kind, NEW n \in Nat
    PROVE  Rep(k, n) \in Seq(Kind) /\ Len(Rep(k, n)) = n
           /\ \A i \in 1..n : Rep(k, n)[i] = k
BY DEF Rep

LEMMA FlatRoomy ==
    ASSUME NEW f \in Seq(Kind)
    PROVE  Roomy(Flat(f))
<1>1. <<>> \in Seq(Kind)
  OBVIOUS
<1>2. QED
  BY <1>1, NestedRoomy DEF Flat, List

LEMMA ListRoomy ==
    ASSUME NEW f \in Seq(Kind), NEW i \in Seq(Kind)
    PROVE  Roomy(List(f, i))
<1>1. <<>> \in Seq(Kind)
  OBVIOUS
<1>2. QED
  BY <1>1, NestedRoomy DEF List

\* What a size_ function that miscounts changes.
LEMMA MiscountedFixed ==
    ASSUME NEW a \in Layout, NEW b \in Int
    PROVE  LET c == Miscounted(a, "fixed", b)
           IN  /\ c \in Layout /\ c.fixed = a.fixed /\ c.item = a.item
               /\ c.sub = a.sub /\ c.surplus.fixed = b
               /\ c.surplus.item = a.surplus.item
               /\ c.surplus.sub = a.surplus.sub
BY DEF Miscounted, Layout

LEMMA MiscountedItem ==
    ASSUME NEW a \in Layout, NEW b \in Int
    PROVE  LET c == Miscounted(a, "item", b)
           IN  /\ c \in Layout /\ c.fixed = a.fixed /\ c.item = a.item
               /\ c.sub = a.sub /\ c.surplus.fixed = a.surplus.fixed
               /\ c.surplus.item = b
               /\ c.surplus.sub = a.surplus.sub
BY DEF Miscounted, Layout

LEMMA MiscountedSub ==
    ASSUME NEW a \in Layout, NEW b \in Int
    PROVE  LET c == Miscounted(a, "sub", b)
           IN  /\ c \in Layout /\ c.fixed = a.fixed /\ c.item = a.item
               /\ c.sub = a.sub /\ c.surplus.fixed = a.surplus.fixed
               /\ c.surplus.item = a.surplus.item
               /\ c.surplus.sub = b
BY DEF Miscounted, Layout

LEMMA NestedLayout ==
    ASSUME NEW f \in Seq(Kind), NEW i \in Seq(Kind), NEW s \in Seq(Kind)
    PROVE  LET a == Nested(f, i, s)
           IN  /\ a \in Layout /\ a.fixed = f /\ a.item = i /\ a.sub = s
               /\ a.surplus.fixed = 0 /\ a.surplus.item = 0
               /\ a.surplus.sub = 0
BY DEF Nested, Layout

LEMMA ListLayout ==
    ASSUME NEW f \in Seq(Kind), NEW i \in Seq(Kind)
    PROVE  LET a == List(f, i)
           IN  /\ a \in Layout /\ a.fixed = f /\ a.item = i /\ a.sub = <<>>
               /\ a.surplus.fixed = 0 /\ a.surplus.item = 0
               /\ a.surplus.sub = 0
<1>1. <<>> \in Seq(Kind)
  OBVIOUS
<1>2. QED
  BY <1>1 DEF List, Nested, Layout

LEMMA ConcatAt ==
    ASSUME NEW f \in Seq(Kind), NEW g \in Seq(Kind)
    PROVE  /\ f \o g \in Seq(Kind) /\ Len(f \o g) = Len(f) + Len(g)
           /\ \A k \in 1..(Len(f) + Len(g)) :
                (f \o g)[k] = IF k <= Len(f) THEN f[k] ELSE g[k - Len(f)]
BY ConcatProperties

LEMMA IntfRoomy == Roomy(msg_intf)
<1> DEFINE f == <<C, I, I>>
           i == <<L, C, I, C, B>>
           a == List(f, i)
           b == Miscounted(a, "fixed", 4)
<1>1. f \in Seq(Kind) /\ i \in Seq(Kind) /\ <<>> \in Seq(Kind)
  BY Kinds
<1> HIDE DEF f, i
<1>2. /\ a \in Layout /\ a.surplus.item = 0 /\ a.surplus.sub = 0
  BY <1>1, ListLayout
<1> HIDE DEF a
<1>3. /\ b \in Layout /\ b.surplus.fixed = 4
      /\ b.surplus.item = 0 /\ b.surplus.sub = 0
  BY <1>2, MiscountedFixed
<1> HIDE DEF b
<1>4. \A len \in Nat : Bytes(Encoded, b.item, len)
                         <= Bytes(Counted, b.item, len) + b.surplus.item
  <2>1. SUFFICES ASSUME NEW len \in Nat
                 PROVE  Bytes(Encoded, b.item, len)
                          <= Bytes(Counted, b.item, len) + 0
    BY <1>3
  <2>2. b.item \in Seq(Kind)
    BY <1>3 DEF Layout
  <2>3. /\ Bytes(Counted, b.item, len) \in Nat
        /\ Bytes(Encoded, b.item, len) \in Nat
        /\ Bytes(Encoded, b.item, len) <= Bytes(Counted, b.item, len)
    BY <2>2, EveryField
  <2>4. QED
    BY <2>3
<1>5. Roomy(b)
  BY <1>3, <1>4, RoomyWhen
<1>6. QED
  BY <1>5 DEF a, b, f, i, msg_intf

\* The two bools that make up for what the size of a scanned BSS lacks.
BoolsAt(f) == f \in Seq(Kind) /\ 19 <= Len(f) /\ f[12] = B /\ f[19] = B

LEMMA BoolsKept ==
    ASSUME NEW f, BoolsAt(f), NEW g \in Seq(Kind)
    PROVE  BoolsAt(f \o g)
<1>1. f \in Seq(Kind) /\ 19 <= Len(f) /\ f[12] = B /\ f[19] = B
  BY DEF BoolsAt
<1>2. f \o g \in Seq(Kind) /\ Len(f \o g) = Len(f) + Len(g)
  BY <1>1
<1>3. Len(f) \in Nat /\ Len(g) \in Nat /\ 12 \in 1..Len(f) /\ 19 \in 1..Len(f)
  BY <1>1
<1>4. (f \o g)[12] = f[12] /\ (f \o g)[19] = f[19]
  BY <1>1, <1>3
<1>5. QED
  BY <1>1, <1>2, <1>3, <1>4 DEF BoolsAt

LEMMA ScanRoomy == Roomy(msg_scan_received)
<1> DEFINE p == <<I, I, C, C, C, I, L, L, I, L, I, B, F, I, I,
                  I, L, I, B, B, B, I, I, B>>
           i == p \o Rep(Y, 4) \o <<I, B, I, Y, Y, Y>> \o Rep(I, 4)
                  \o Rep(B, 5) \o <<I, I, I, B, I>>
           f == <<C, C, I, I>>
           u == <<F, I, I, I>> \o Rep(Y, 8)
           a == Nested(f, i, u)
           b == Miscounted(a, "item", -4)
           c == Miscounted(b, "sub", 12)
<1>1. BoolsAt(p)
  <2>1. p \in Seq(Kind)
    BY Kinds
  <2>2. Len(p) = 24 /\ p[12] = B /\ p[19] = B
    OBVIOUS
  <2>3. QED
    BY <2>1, <2>2 DEF BoolsAt
<1> HIDE DEF p
<1>2. /\ Rep(Y, 4) \in Seq(Kind) /\ Rep(I, 4) \in Seq(Kind)
      /\ Rep(B, 5) \in Seq(Kind) /\ Rep(Y, 8) \in Seq(Kind)
  BY Kinds, RepKinds
<1>3. /\ <<I, B, I, Y, Y, Y>> \in Seq(Kind) /\ <<I, I, I, B, I>> \in Seq(Kind)
      /\ f \in Seq(Kind) /\ <<F, I, I, I>> \in Seq(Kind)
  BY Kinds
<1>4. BoolsAt(i)
  <2>1. BoolsAt(p \o Rep(Y, 4))
    BY <1>1, <1>2, BoolsKept
  <2>2. BoolsAt(p \o Rep(Y, 4) \o <<I, B, I, Y, Y, Y>>)
    BY <1>3, <2>1, BoolsKept
  <2>3. BoolsAt(p \o Rep(Y, 4) \o <<I, B, I, Y, Y, Y>> \o Rep(I, 4))
    BY <1>2, <2>2, BoolsKept
  <2>4. BoolsAt(p \o Rep(Y, 4) \o <<I, B, I, Y, Y, Y>> \o Rep(I, 4)
                  \o Rep(B, 5))
    BY <1>2, <2>3, BoolsKept
  <2>5. QED
    BY <1>3, <2>4, BoolsKept
<1> HIDE DEF i
<1>5. u \in Seq(Kind)
  BY <1>2, <1>3
<1> HIDE DEF f, u
<1>6. i \in Seq(Kind)
  BY <1>4 DEF BoolsAt
<1>7. /\ a \in Layout /\ a.item = i /\ a.surplus.fixed = 0
  BY <1>3, <1>5, <1>6, NestedLayout
<1> HIDE DEF a
<1>8. -4 \in Int /\ 12 \in Int
  OBVIOUS
<1>9. /\ b \in Layout /\ b.item = i /\ b.surplus.fixed = 0
      /\ b.surplus.item = -4
  BY <1>7, <1>8, MiscountedItem
<1> HIDE DEF b
<1>10. /\ c \in Layout /\ c.item = i /\ c.surplus.fixed = 0
       /\ c.surplus.item = -4 /\ c.surplus.sub = 12
  BY <1>8, <1>9, MiscountedSub
<1> HIDE DEF c
<1>11. \A len \in Nat : Bytes(Encoded, c.item, len)
                          <= Bytes(Counted, c.item, len) + c.surplus.item
  <2>1. SUFFICES ASSUME NEW len \in Nat
                 PROVE  Bytes(Encoded, i, len) <= Bytes(Counted, i, len) + (-4)
    BY <1>10
  <2>2. Bytes(Counted, i, len) \in Nat /\ Bytes(Encoded, i, len) \in Nat
    BY <1>6, EveryField
  <2>3. Bytes(Encoded, i, len) + 6 <= Bytes(Counted, i, len)
    <3>1. 12 \in 1..Len(i) /\ 19 \in 1..Len(i) /\ 12 < 19
          /\ i[12] = B /\ i[19] = B
      BY <1>4, <1>6 DEF BoolsAt
    <3>2. QED
      BY <1>6, <3>1, TwoBools
  <2>4. QED
    BY <2>2, <2>3
<1>12. Roomy(c)
  BY <1>10, <1>11, RoomyWhen
<1>13. QED
  BY <1>12 DEF a, b, c, f, i, p, u, msg_scan_received

LEMMA NoiseSums ==
    ASSUME NEW h \in Nat, NEW cf \in Nat, NEW ef \in Nat, NEW x \in Nat,
           NEW n \in Nat, ef <= cf, cf <= ef + 4
    PROVE  (h + ef + n * x <= h + cf + n * (x + (-8))) <=> n = 0
<1>1. CASE n = 0
  BY <1>1
<1>2. CASE n # 0
  <2>1. n * (x + (-8)) = n * x - 8 * n
    OBVIOUS
  <2> DEFINE y == n * x
  <2>2. y \in Nat
    OBVIOUS
  <2>3. n * (x + (-8)) = y - 8 * n
    BY <2>1
  <2> HIDE DEF y
  <2>4. ~(h + ef + y <= h + cf + (y - 8 * n))
    BY <1>2, <2>2
  <2>5. QED
    BY <1>2, <2>3, <2>4 DEF y
<1>3. QED
  BY <1>1, <1>2

\* The noise message fits exactly when it has no entry.
LEMMA NoiseFits ==
    ASSUME NEW s \in Shape
    PROVE  Written(msg_noiseinfo, s) <= Announced(msg_noiseinfo, s)
             <=> s.n = 0
<1> DEFINE f == <<C, C, I, I>>
           i == <<I, I, S>> \o Rep(L, 4)
           a == List(f, i)
           b == Miscounted(a, "item", -8)
<1>1. /\ f \in Seq(Kind) /\ <<I, I, S>> \in Seq(Kind) /\ <<>> \in Seq(Kind)
      /\ -8 \in Int
  BY Kinds
<1>2. /\ Rep(L, 4) \in Seq(Kind) /\ Len(Rep(L, 4)) = 4
      /\ \A k \in 1..4 : Rep(L, 4)[k] = L
  BY Kinds, RepKinds
<1>3. Len(f) = 4 /\ \A k \in 1..Len(f) : f[k] # B
  BY DEF C, I, B
<1>4. i \in Seq(Kind) /\ \A k \in 1..Len(i) : i[k] # B /\ i[k] # C
  <2> DEFINE g == <<I, I, S>>
             r == Rep(L, 4)
  <2>0. g[1] = I /\ g[2] = I /\ g[3] = S /\ Len(g) = 3 /\ g \in Seq(Kind)
    BY <1>1
  <2> HIDE DEF g, r
  <2>1. /\ g \o r \in Seq(Kind) /\ Len(g \o r) = 7
        /\ \A k \in 1..7 : (g \o r)[k] = IF k <= 3 THEN g[k] ELSE r[k - 3]
    <3>1. r \in Seq(Kind) /\ Len(r) = 4
      BY <1>2 DEF r
    <3>2. 3 + 4 = 7
      OBVIOUS
    <3>3. /\ g \o r \in Seq(Kind) /\ Len(g \o r) = Len(g) + Len(r)
          /\ \A k \in 1..(Len(g) + Len(r)) :
               (g \o r)[k] = IF k <= Len(g) THEN g[k] ELSE r[k - Len(g)]
      BY <2>0, <3>1, ConcatAt, Zenon
    <3> DEFINE gr == g \o r
    <3> HIDE DEF gr
    <3>4. /\ gr \in Seq(Kind) /\ Len(gr) = Len(g) + Len(r)
          /\ \A k \in 1..(Len(g) + Len(r)) :
               gr[k] = IF k <= Len(g) THEN g[k] ELSE r[k - Len(g)]
      BY <3>3, Zenon DEF gr
    <3>5. /\ gr \in Seq(Kind) /\ Len(gr) = 7
          /\ \A k \in 1..7 : gr[k] = IF k <= 3 THEN g[k] ELSE r[k - 3]
      BY <2>0, <3>1, <3>2, <3>4
    <3>6. QED
      BY <3>5, Zenon DEF gr
  <2>2. ASSUME NEW k \in 1..7
        PROVE  (g \o r)[k] \in {I, S, L}
    <3>1. CASE k <= 3
      <4>1. k = 1 \/ k = 2 \/ k = 3
        BY <3>1
      <4>2. QED
        BY <2>0, <2>1, <3>1, <4>1
    <3>2. CASE ~(k <= 3)
      <4>1. k - 3 \in 1..4
        BY <3>2
      <4>2. r[k - 3] = L
        BY <1>2, <4>1 DEF r
      <4>3. QED
        BY <2>1, <3>2, <4>2
    <3>3. QED
      BY <3>1, <3>2
  <2>3. B \notin {I, S, L} /\ C \notin {I, S, L}
    BY DEF B, C, I, S, L
  <2>4. /\ g \o r \in Seq(Kind)
        /\ \A k \in 1..Len(g \o r) : (g \o r)[k] # B /\ (g \o r)[k] # C
    BY <2>1, <2>2, <2>3
  <2>5. i = g \o r
    BY DEF g, r
  <2> HIDE DEF i
  <2>6. QED
    BY <2>4, <2>5
<1> HIDE DEF i, f
<1>5. /\ a \in Layout /\ a.fixed = f /\ a.item = i /\ a.sub = <<>>
      /\ a.surplus.fixed = 0 /\ a.surplus.sub = 0
  BY <1>1, <1>4, ListLayout
<1> HIDE DEF a
<1>6. /\ b.fixed = f /\ b.item = i /\ b.sub = <<>>
      /\ b.surplus.fixed = 0 /\ b.surplus.sub = 0 /\ b.surplus.item = -8
  BY <1>1, <1>5, MiscountedItem
<1> HIDE DEF b
<1>7. s.len \in Nat /\ s.n \in Nat /\ s.m \in Nat
  BY DEF Shape
<1> DEFINE cf == Bytes(Counted, f, s.len)
           ef == Bytes(Encoded, f, s.len)
           ci == Bytes(Counted, i, s.len)
           ei == Bytes(Encoded, i, s.len)
           cs == Bytes(Counted, <<>>, s.len)
           es == Bytes(Encoded, <<>>, s.len)
<1>8. cf \in Nat /\ ef \in Nat /\ ef <= cf /\ cf <= ef + 4
  BY <1>1, <1>3, <1>7, EveryField, NoBool
<1>9. ci \in Nat /\ ei = ci
  BY <1>4, <1>7, EveryField, Numbers
<1>10. es = 0 /\ cs = 0
  <2>1. \A k \in 1..Len(<<>>) : <<>>[k] # B /\ <<>>[k] # C
    OBVIOUS
  <2>2. cs = es
    BY <1>1, <1>7, <2>1, Numbers
  <2>3. cs = 0
    <3>1. PICK g : /\ Sums(g, Len(<<>>), CountedOf(<<>>, s.len))
                   /\ Bytes(Counted, <<>>, s.len) = g[Len(<<>>)]
      BY <1>1, <1>7, FieldSums
    <3>2. CountedOf(<<>>, s.len) \in [1..Len(<<>>) -> Nat] /\ Len(<<>>) = 0
      BY <1>1, <1>7, FieldSums
    <3>3. g[0] = 0
      BY <3>1, <3>2, SumStep
    <3>4. QED
      BY <3>1, <3>2, <3>3
  <2>4. QED
    BY <2>2, <2>3
<1>11. /\ Written(b, s) = encode_header + ef + s.n * (ei + s.m * es)
       /\ Announced(b, s) = encode_header + cf + 0
             + s.n * (ci + (-8) + s.m * (cs + 0))
  BY <1>6 DEF Written, Announced
<1> HIDE DEF cf, ef, ci, ei, cs, es
<1>12. s.m * es = 0 /\ s.m * (cs + 0) = 0
  BY <1>7, <1>10
<1>13. /\ Written(b, s) = encode_header + ef + s.n * ci
       /\ Announced(b, s) = encode_header + cf + s.n * (ci + (-8))
  <2>1. ei + s.m * es = ci /\ ci + (-8) + s.m * (cs + 0) = ci + (-8)
    BY <1>9, <1>12
  <2>2. encode_header + cf + 0 = encode_header + cf
    BY <1>8, HeaderLength
  <2>3. QED
    BY <1>11, <2>1, <2>2
<1>14. Written(b, s) <= Announced(b, s) <=> s.n = 0
  BY <1>7, <1>8, <1>9, <1>13, HeaderLength, NoiseSums
<1>15. QED
  BY <1>14 DEF a, b, f, i, msg_noiseinfo

LEMMA GeneralRoomy ==
    ASSUME NEW t \in DOMAIN servlet_general
    PROVE  Roomy(servlet_general[t].layout)
<1>1. Roomy(msg_hello)
  <2>1. <<I, I, F>> \in Seq(Kind)
    BY Kinds
  <2>2. QED
    BY <2>1, FlatRoomy DEF msg_hello
<1>2. Roomy(msg_bye)
  <2>1. <<I>> \in Seq(Kind)
    BY Kinds
  <2>2. QED
    BY <2>1, FlatRoomy DEF msg_bye
<1>3. Roomy(msg_ping)
  <2>1. <<C>> \in Seq(Kind)
    BY Kinds
  <2>2. QED
    BY <2>1, FlatRoomy DEF msg_ping
<1>4. Roomy(msg_802_11e_enabled)
  <2>1. <<C, C, I, B>> \in Seq(Kind)
    BY Kinds
  <2>2. QED
    BY <2>1, FlatRoomy DEF msg_802_11e_enabled
<1>5. Roomy(msg_ap_ctsprotection_enabled)
  <2>1. <<C, B>> \in Seq(Kind)
    BY Kinds
  <2>2. QED
    BY <2>1, FlatRoomy DEF msg_ap_ctsprotection_enabled
<1>6. Roomy(msg_ap_broadcastssid)
  <2>1. <<B, C>> \in Seq(Kind)
    BY Kinds
  <2>2. QED
    BY <2>1, FlatRoomy DEF msg_ap_broadcastssid
<1>7. Roomy(msg_ap_frameburstenabled)
  <2>1. <<C, B>> \in Seq(Kind)
    BY Kinds
  <2>2. QED
    BY <2>1, FlatRoomy DEF msg_ap_frameburstenabled
<1>8. Roomy(msg_ap_guardinterval)
  <2>1. <<C, L>> \in Seq(Kind)
    BY Kinds
  <2>2. QED
    BY <2>1, FlatRoomy DEF msg_ap_guardinterval
<1>9. Roomy(msg_ap_dtiminterval)
  <2>1. <<C, L>> \in Seq(Kind)
    BY Kinds
  <2>2. QED
    BY <2>1, FlatRoomy DEF msg_ap_dtiminterval
<1>10. Roomy(msg_ap_rtsthreshold)
  <2>1. <<C, I>> \in Seq(Kind)
    BY Kinds
  <2>2. QED
    BY <2>1, FlatRoomy DEF msg_ap_rtsthreshold
<1>11. Roomy(msg_beacon_interval)
  <2>1. <<C, L>> \in Seq(Kind)
    BY Kinds
  <2>2. QED
    BY <2>1, FlatRoomy DEF msg_beacon_interval
<1>12. QED
  BY <1>1, <1>2, <1>3, <1>4, <1>5, <1>6, <1>7, <1>8, <1>9, <1>10, <1>11,
     SMTT(90) DEF servlet_general, Row

LEMMA CountersRoomy ==
    ASSUME NEW t \in DOMAIN servlet_counters
    PROVE  Roomy(servlet_counters[t].layout)
<1>1. Roomy(msg_bytesreceived)
  <2>1. <<C, C, I, L>> \in Seq(Kind)
    BY Kinds
  <2>2. QED
    BY <2>1, FlatRoomy DEF msg_bytesreceived
<1>2. Roomy(msg_bytessent)
  <2>1. <<C, C, I, L>> \in Seq(Kind)
    BY Kinds
  <2>2. QED
    BY <2>1, FlatRoomy DEF msg_bytessent
<1>3. Roomy(msg_packetsreceived)
  <2>1. <<C, C, I, L>> \in Seq(Kind)
    BY Kinds
  <2>2. QED
    BY <2>1, FlatRoomy DEF msg_packetsreceived
<1>4. Roomy(msg_packetslost)
  <2>1. <<C, C, I, L>> \in Seq(Kind)
    BY Kinds
  <2>2. QED
    BY <2>1, FlatRoomy DEF msg_packetslost
<1>5. Roomy(msg_packetssent)
  <2>1. <<C, C, I, L>> \in Seq(Kind)
    BY Kinds
  <2>2. QED
    BY <2>1, FlatRoomy DEF msg_packetssent
<1>6. Roomy(msg_deauthenticate_user)
  <2>1. <<C>> \in Seq(Kind)
    BY Kinds
  <2>2. QED
    BY <2>1, FlatRoomy DEF msg_deauthenticate_user
<1>7. Roomy(msg_disconnect_user)
  <2>1. <<C>> \in Seq(Kind)
    BY Kinds
  <2>2. QED
    BY <2>1, FlatRoomy DEF msg_disconnect_user
<1>8. Roomy(msg_powersavemode)
  <2>1. <<C, C, I, B>> \in Seq(Kind)
    BY Kinds
  <2>2. QED
    BY <2>1, FlatRoomy DEF msg_powersavemode
<1>9. Roomy(msg_delay)
  <2>1. <<C, C, I, F, F>> \in Seq(Kind)
    BY Kinds
  <2>2. QED
    BY <2>1, FlatRoomy DEF msg_delay
<1>10. Roomy(msg_failed)
  <2>1. <<C, L>> \in Seq(Kind)
    BY Kinds
  <2>2. QED
    BY <2>1, FlatRoomy DEF msg_failed
<1>11. Roomy(msg_jitter)
  <2>1. <<C, F, F>> \in Seq(Kind)
    BY Kinds
  <2>2. QED
    BY <2>1, FlatRoomy DEF msg_jitter
<1>12. Roomy(msg_fastbsstransition_compatible)
  <2>1. <<C, C, I, B>> \in Seq(Kind)
    BY Kinds
  <2>2. QED
    BY <2>1, FlatRoomy DEF msg_fastbsstransition_compatible
<1>13. Roomy(msg_frequency)
  <2>1. <<C, C, C, I, I>> \in Seq(Kind)
    BY Kinds
  <2>2. QED
    BY <2>1, FlatRoomy DEF msg_frequency
<1>14. Roomy(msg_association_process)
  <2>1. <<C, C, B, I>> \in Seq(Kind)
    BY Kinds
  <2>2. QED
    BY <2>1, FlatRoomy DEF msg_association_process
<1>15. QED
  BY <1>1, <1>2, <1>3, <1>4, <1>5, <1>6, <1>7, <1>8, <1>9, <1>10, <1>11,
     <1>12, <1>13, <1>14,
     SMTT(90) DEF servlet_counters, Row

LEMMA RadioRoomy ==
    ASSUME NEW t \in DOMAIN servlet_radio
    PROVE  Roomy(servlet_radio[t].layout)
<1>1. Roomy(msg_snr)
  <2>1. <<C, C, I, L>> \in Seq(Kind)
    BY Kinds
  <2>2. QED
    BY <2>1, FlatRoomy DEF msg_snr
<1>2. Roomy(msg_mac)
  <2>1. <<I>> \in Seq(Kind)
    BY Kinds
  <2>2. <<L, C, C>> \in Seq(Kind)
    BY Kinds
  <2>3. QED
    BY <2>1, <2>2, ListRoomy DEF msg_mac
<1>3. Roomy(msg_radio_wlans)
  <2>1. <<C, I, I>> \in Seq(Kind)
    BY Kinds
  <2>2. <<C, C, I>> \in Seq(Kind)
    BY Kinds
  <2>3. QED
    BY <2>1, <2>2, ListRoomy DEF msg_radio_wlans
<1>4. Roomy(msg_channels)
  <2>1. <<C, I>> \in Seq(Kind)
    BY Kinds
  <2>2. <<D, I>> \in Seq(Kind)
    BY Kinds
  <2>3. QED
    BY <2>1, <2>2, ListRoomy DEF msg_channels
<1>5. Roomy(msg_intf)
  BY IntfRoomy
<1>6. Roomy(msg_radio_linkstatistics)
  <2>1. <<C>> \o Rep(L, 13) \o <<I, L>> \o Rep(I, 7) \in Seq(Kind)
    <3>1. <<C>> \in Seq(Kind)
      BY Kinds
    <3>2. Rep(L, 13) \in Seq(Kind)
      BY Kinds, RepKinds
    <3>3. <<I, L>> \in Seq(Kind)
      BY Kinds
    <3>4. Rep(I, 7) \in Seq(Kind)
      BY Kinds, RepKinds
    <3>5. QED
      BY <3>1, <3>2, <3>3, <3>4
  <2>2. Rep(L, 13) \in Seq(Kind)
    BY Kinds, RepKinds
  <2>3. QED
    BY <2>1, <2>2, ListRoomy DEF msg_radio_linkstatistics
<1>7. Roomy(msg_currentchannel)
  <2>1. <<C, C, I, I, I, B>> \in Seq(Kind)
    BY Kinds
  <2>2. QED
    BY <2>1, FlatRoomy DEF msg_currentchannel
<1>8. Roomy(msg_wlan_info)
  <2>1. <<C, I, I>> \in Seq(Kind)
    BY Kinds
  <2>2. <<I, C, I, I, L, C, C>> \o Rep(I, 6) \in Seq(Kind)
    <3>1. <<I, C, I, I, L, C, C>> \in Seq(Kind)
      BY Kinds
    <3>2. Rep(I, 6) \in Seq(Kind)
      BY Kinds, RepKinds
    <3>3. QED
      BY <3>1, <3>2
  <2>3. QED
    BY <2>1, <2>2, ListRoomy DEF msg_wlan_info
<1>9. Roomy(msg_beaconinfo)
  <2>1. <<I>> \in Seq(Kind)
    BY Kinds
  <2>2. <<L, L, C>> \o Rep(Y, 6) \o Rep(I, 5) \o <<Y, Y, Y, L>> \o Rep(Y, 4)
        \o <<I, I, I, L, L, L, I, I, I, L, I, L>> \o Rep(I, 10) \o <<L, B, L,
        I>> \o Rep(Y, 16) \o <<L, L, I>> \in Seq(Kind)
    <3>1. <<L, L, C>> \in Seq(Kind)
      BY Kinds
    <3>2. Rep(Y, 6) \in Seq(Kind)
      BY Kinds, RepKinds
    <3>3. Rep(I, 5) \in Seq(Kind)
      BY Kinds, RepKinds
    <3>4. <<Y, Y, Y, L>> \in Seq(Kind)
      BY Kinds
    <3>5. Rep(Y, 4) \in Seq(Kind)
      BY Kinds, RepKinds
    <3>6. <<I, I, I, L, L, L, I, I, I, L, I, L>> \in Seq(Kind)
      BY Kinds
    <3>7. Rep(I, 10) \in Seq(Kind)
      BY Kinds, RepKinds
    <3>8. <<L, B, L, I>> \in Seq(Kind)
      BY Kinds
    <3>9. Rep(Y, 16) \in Seq(Kind)
      BY Kinds, RepKinds
    <3>10. <<L, L, I>> \in Seq(Kind)
      BY Kinds
    <3>11. QED
      BY <3>1, <3>2, <3>3, <3>4, <3>5, <3>6, <3>7, <3>8, <3>9, <3>10
  <2>3. <<I, I, B, I, I, I, L, L, L>> \in Seq(Kind)
    BY Kinds
  <2>4. QED
    BY <2>1, <2>2, <2>3, NestedRoomy DEF msg_beaconinfo
<1>10. Roomy(msg_channelbandwitdh)
  <2>1. <<L, I, I>> \in Seq(Kind)
    BY Kinds
  <2>2. QED
    BY <2>1, FlatRoomy DEF msg_channelbandwitdh
<1>11. Roomy(msg_txpower)
  <2>1. <<C, C, I, L, B>> \in Seq(Kind)
    BY Kinds
  <2>2. QED
    BY <2>1, FlatRoomy DEF msg_txpower
<1>12. Roomy(msg_snr_threshold)
  <2>1. <<C, C, I, L>> \in Seq(Kind)
    BY Kinds
  <2>2. QED
    BY <2>1, FlatRoomy DEF msg_snr_threshold
<1>13. Roomy(msg_snr_interval)
  <2>1. <<C, C, I, L>> \in Seq(Kind)
    BY Kinds
  <2>2. QED
    BY <2>1, FlatRoomy DEF msg_snr_interval
<1>14. QED
  BY <1>1, <1>2, <1>3, <1>4, <1>5, <1>6, <1>7, <1>8, <1>9, <1>10, <1>11,
     <1>12, <1>13,
     SMTT(90) DEF servlet_radio, Row

LEMMA NetworkRoomy ==
    ASSUME NEW t \in DOMAIN servlet_network, t # "MSG_GET_NOISEINFO"
    PROVE  Roomy(servlet_network[t].layout)
<1>1. Roomy(msg_ap_in_range)
  <2>1. <<C, C, I, I>> \in Seq(Kind)
    BY Kinds
  <2>2. <<C, C, C, I, L, I, F, I, I, I, I, B>> \in Seq(Kind)
    BY Kinds
  <2>3. QED
    BY <2>1, <2>2, ListRoomy DEF msg_ap_in_range
<1>2. Roomy(msg_ip_address)
  <2>1. <<C, I, C, C, C, C, I>> \in Seq(Kind)
    BY Kinds
  <2>2. <<C>> \in Seq(Kind)
    BY Kinds
  <2>3. QED
    BY <2>1, <2>2, ListRoomy DEF msg_ip_address
<1>3. Roomy(msg_retries)
  <2>1. <<L, L>> \in Seq(Kind)
    BY Kinds
  <2>2. QED
    BY <2>1, FlatRoomy DEF msg_retries
<1>4. Roomy(msg_uptime)
  <2>1. <<X, X>> \in Seq(Kind)
    BY Kinds
  <2>2. QED
    BY <2>1, FlatRoomy DEF msg_uptime
<1>5. Roomy(msg_ap_routes)
  <2>1. <<C, I, I>> \in Seq(Kind)
    BY Kinds
  <2>2. <<C, C, C, C, L>> \o Rep(I, 6) \in Seq(Kind)
    <3>1. <<C, C, C, C, L>> \in Seq(Kind)
      BY Kinds
    <3>2. Rep(I, 6) \in Seq(Kind)
      BY Kinds, RepKinds
    <3>3. QED
      BY <3>1, <3>2
  <2>3. QED
    BY <2>1, <2>2, ListRoomy DEF msg_ap_routes
<1>6. Roomy(msg_ap_ssid)
  <2>1. <<C, I, I>> \in Seq(Kind)
    BY Kinds
  <2>2. <<C, C, I, I>> \in Seq(Kind)
    BY Kinds
  <2>3. QED
    BY <2>1, <2>2, ListRoomy DEF msg_ap_ssid
<1>7. Roomy(msg_memory)
  <2>1. <<C, I, L>> \in Seq(Kind)
    BY Kinds
  <2>2. QED
    BY <2>1, FlatRoomy DEF msg_memory
<1>8. Roomy(msg_cpu)
  <2>1. <<C, I, L>> \in Seq(Kind)
    BY Kinds
  <2>2. QED
    BY <2>1, FlatRoomy DEF msg_cpu
<1>9. Roomy(msg_channelinfo)
  <2>1. <<C, I, I>> \in Seq(Kind)
    BY Kinds
  <2>2. <<I, B>> \o Rep(L, 7) \in Seq(Kind)
    <3>1. <<I, B>> \in Seq(Kind)
      BY Kinds
    <3>2. Rep(L, 7) \in Seq(Kind)
      BY Kinds, RepKinds
    <3>3. QED
      BY <3>1, <3>2
  <2>3. QED
    BY <2>1, <2>2, ListRoomy DEF msg_channelinfo
<1>10. Roomy(msg_request_beacon)
  <2>1. <<L>> \in Seq(Kind)
    BY Kinds
  <2>2. QED
    BY <2>1, FlatRoomy DEF msg_request_beacon
<1>11. Roomy(msg_interferencemap)
  <2>1. <<C, I, I>> \in Seq(Kind)
    BY Kinds
  <2>2. <<C, I, L, F>> \in Seq(Kind)
    BY Kinds
  <2>3. QED
    BY <2>1, <2>2, ListRoomy DEF msg_interferencemap
<1>12. Roomy(msg_request_begin_association)
  <2>1. <<C, C>> \in Seq(Kind)
    BY Kinds
  <2>2. QED
    BY <2>1, FlatRoomy DEF msg_request_begin_association
<1>13. Roomy(msg_scan_received)
  BY ScanRoomy
<1>14. Roomy(msg_fragmentationthreshold)
  <2>1. <<L, I>> \in Seq(Kind)
    BY Kinds
  <2>2. QED
    BY <2>1, FlatRoomy DEF msg_fragmentationthreshold
<1>15. QED
  BY <1>1, <1>2, <1>3, <1>4, <1>5, <1>6, <1>7, <1>8, <1>9, <1>10, <1>11,
     <1>12, <1>13, <1>14,
     SMTT(90) DEF servlet_network, Row

LEMMA ExtendedRoomy ==
    ASSUME NEW t \in DOMAIN servlet_extended
    PROVE  Roomy(servlet_extended[t].layout)
<1>1. Roomy(msg_vap)
  <2>1. <<I, C, I, I, I, T, T>> \in Seq(Kind)
    BY Kinds
  <2>2. QED
    BY <2>1, FlatRoomy DEF msg_vap
<1>2. Roomy(msg_tx_bitrates)
  <2>1. <<C, C, I, I>> \in Seq(Kind)
    BY Kinds
  <2>2. <<C, I, I>> \in Seq(Kind)
    BY Kinds
  <2>3. <<F, T>> \in Seq(Kind)
    BY Kinds
  <2>4. QED
    BY <2>1, <2>2, <2>3, NestedRoomy DEF msg_tx_bitrates
<1>3. Roomy(msg_tx_bitrate)
  <2>1. <<C, C, I, C, F>> \in Seq(Kind)
    BY Kinds
  <2>2. QED
    BY <2>1, FlatRoomy DEF msg_tx_bitrate
<1>4. Roomy(msg_set_tx_bitrates)
  <2>1. <<C, C, I, I, I>> \in Seq(Kind)
    BY Kinds
  <2>2. <<I>> \in Seq(Kind)
    BY Kinds
  <2>3. QED
    BY <2>1, <2>2, ListRoomy DEF msg_set_tx_bitrates
<1>5. Roomy(msg_sta_link_information)
  <2>1. <<C, C, I, C, C, I>> \in Seq(Kind)
    BY Kinds
  <2>2. QED
    BY <2>1, FlatRoomy DEF msg_sta_link_information
<1>6. Roomy(msg_supportedinterface)
  <2>1. <<L, I>> \in Seq(Kind)
    BY Kinds
  <2>2. QED
    BY <2>1, FlatRoomy DEF msg_supportedinterface
<1>7. Roomy(msg_location)
  <2>1. <<C, S, L, I, S, L, I, S, S, S, L>> \in Seq(Kind)
    BY Kinds
  <2>2. QED
    BY <2>1, FlatRoomy DEF msg_location
<1>8. Roomy(msg_conf_ssid_radio)
  <2>1. <<L, C, I, I, I, T, T, T>> \in Seq(Kind)
    BY Kinds
  <2>2. QED
    BY <2>1, FlatRoomy DEF msg_conf_ssid_radio
<1>9. Roomy(msg_statistics)
  <2>1. <<C, C, I>> \o Rep(L, 8) \o <<C>> \in Seq(Kind)
    <3>1. <<C, C, I>> \in Seq(Kind)
      BY Kinds
    <3>2. Rep(L, 8) \in Seq(Kind)
      BY Kinds, RepKinds
    <3>3. <<C>> \in Seq(Kind)
      BY Kinds
    <3>4. QED
      BY <3>1, <3>2, <3>3
  <2>2. QED
    BY <2>1, FlatRoomy DEF msg_statistics
<1>10. Roomy(msg_acs)
  <2>1. <<C, C, I, I, I>> \in Seq(Kind)
    BY Kinds
  <2>2. <<I, L>> \in Seq(Kind)
    BY Kinds
  <2>3. QED
    BY <2>1, <2>2, ListRoomy DEF msg_acs
<1>11. Roomy(msg_sta_statistics)
  <2>1. <<C, C, I, L, C>> \in Seq(Kind)
    BY Kinds
  <2>2. <<C, C>> \o Rep(L, 11) \o <<I, I, I, L, L>> \in Seq(Kind)
    <3>1. <<C, C>> \in Seq(Kind)
      BY Kinds
    <3>2. Rep(L, 11) \in Seq(Kind)
      BY Kinds, RepKinds
    <3>3. <<I, I, I, L, L>> \in Seq(Kind)
      BY Kinds
    <3>4. QED
      BY <3>1, <3>2, <3>3
  <2>3. QED
    BY <2>1, <2>2, ListRoomy DEF msg_sta_statistics
<1>12. Roomy(msg_snr_threshold_reached)
  <2>1. <<C, I, C, C, C, L>> \in Seq(Kind)
    BY Kinds
  <2>2. QED
    BY <2>1, FlatRoomy DEF msg_snr_threshold_reached
<1>13. Roomy(msg_changed_ap)
  <2>1. <<C, C, I>> \in Seq(Kind)
    BY Kinds
  <2>2. QED
    BY <2>1, FlatRoomy DEF msg_changed_ap
<1>14. Roomy(msg_mean_sta_statistics)
  <2>1. <<C, I, I>> \in Seq(Kind)
    BY Kinds
  <2>2. <<C>> \o Rep(X, 23) \in Seq(Kind)
    <3>1. <<C>> \in Seq(Kind)
      BY Kinds
    <3>2. Rep(X, 23) \in Seq(Kind)
      BY Kinds, RepKinds
    <3>3. QED
      BY <3>1, <3>2
  <2>3. QED
    BY <2>1, <2>2, ListRoomy DEF msg_mean_sta_statistics
<1>15. Roomy(msg_mean_sta_statistics_interface)
  <2>1. <<C, I, C>> \in Seq(Kind)
    BY Kinds
  <2>2. QED
    BY <2>1, FlatRoomy DEF msg_mean_sta_statistics_interface
<1>16. Roomy(msg_mean_sta_statistics_alpha)
  <2>1. <<C, I, X>> \in Seq(Kind)
    BY Kinds
  <2>2. QED
    BY <2>1, FlatRoomy DEF msg_mean_sta_statistics_alpha
<1>17. Roomy(msg_mean_sta_statistics_time)
  <2>1. <<C, I, I>> \in Seq(Kind)
    BY Kinds
  <2>2. QED
    BY <2>1, FlatRoomy DEF msg_mean_sta_statistics_time
<1>18. Roomy(msg_station_trigger_transition)
  <2>1. <<C, I, C, C, C>> \in Seq(Kind)
    BY Kinds
  <2>2. QED
    BY <2>1, FlatRoomy DEF msg_station_trigger_transition
<1>19. Roomy(msg_tos_cleanall)
  <2>1. <<>> \in Seq(Kind)
    BY Kinds
  <2>2. QED
    BY <2>1, FlatRoomy DEF msg_tos_cleanall
<1>20. Roomy(msg_send_tos)
  <2>1. <<I>> \o Rep(C, 6) \o <<I>> \in Seq(Kind)
    <3>1. <<I>> \in Seq(Kind)
      BY Kinds
    <3>2. Rep(C, 6) \in Seq(Kind)
      BY Kinds, RepKinds
    <3>3. QED
      BY <3>1, <3>2
  <2>2. QED
    BY <2>1, FlatRoomy DEF msg_send_tos
<1>21. Roomy(msg_set_mtu)
  <2>1. <<C, I, C, I>> \in Seq(Kind)
    BY Kinds
  <2>2. QED
    BY <2>1, FlatRoomy DEF msg_set_mtu
<1>22. Roomy(msg_set_txqueuelen)
  <2>1. <<C, I, C, I>> \in Seq(Kind)
    BY Kinds
  <2>2. QED
    BY <2>1, FlatRoomy DEF msg_set_txqueuelen
<1>23. Roomy(msg_preamble)
  <2>1. <<C, I>> \in Seq(Kind)
    BY Kinds
  <2>2. QED
    BY <2>1, FlatRoomy DEF msg_preamble
<1>24. QED
  BY <1>1, <1>2, <1>3, <1>4, <1>5, <1>6, <1>7, <1>8, <1>9, <1>10, <1>11,
     <1>12, <1>13, <1>14, <1>15, <1>16, <1>17, <1>18, <1>19, <1>20, <1>21,
     <1>22, <1>23,
     SMTT(90) DEF servlet_extended, Row

-----------------------------------------------------------------------------
(* The buffers of the messages *)

LEMMA NoiseRow ==
    LET t == "MSG_GET_NOISEINFO"
    IN  /\ t \in MsgType /\ MessageTable[t].layout = msg_noiseinfo
        /\ ReplyLayout(t) = msg_noiseinfo
<1> DEFINE t == "MSG_GET_NOISEINFO"
<1>1. /\ t \in DOMAIN servlet_network /\ t \notin DOMAIN servlet_general
      /\ t \notin DOMAIN servlet_counters /\ t \notin DOMAIN servlet_radio
  BY DEF servlet_network, servlet_general, servlet_counters, servlet_radio
<1>2. t \notin DOMAIN servlet_extended
  BY DEF servlet_extended
<1>3. /\ servlet_network[t].layout = msg_noiseinfo
      /\ servlet_network[t].process.local = "here"
  <2>1. servlet_network[t] = Row(msg_noiseinfo, process_msg_noiseinfo,
                                  send_msg_get_noiseinfo)
    BY DEF servlet_network
  <2>2. process_msg_noiseinfo.local = "here"
    BY DEF process_msg_noiseinfo, Wild, Answers, Handler
  <2>3. QED
    BY <2>1, <2>2 DEF Row
<1>4. t \in MsgType /\ MessageTable[t] = servlet_network[t]
  BY <1>1, <1>2 DEF MsgType, MessageTable
<1>5. ReplyType(t) = t
  BY <1>3, <1>4 DEF ReplyType
<1>6. QED
  BY <1>3, <1>4, <1>5 DEF ReplyLayout

\* Every other message fits into its buffer, and so does its answer.
LEMMA RowsRoomy ==
    ASSUME NEW t \in MsgType, t # "MSG_GET_NOISEINFO"
    PROVE  Roomy(MessageTable[t].layout) /\ Roomy(ReplyLayout(t))
<1>1. Roomy(MessageTable[t].layout)
  BY GeneralRoomy, CountersRoomy, RadioRoomy, NetworkRoomy, ExtendedRoomy
     DEF MsgType, MessageTable
<1>2. Roomy(msg_pong) /\ Roomy(msg_error)
  <2>1. <<F, B>> \in Seq(Kind) /\ <<I>> \in Seq(Kind)
    BY Kinds
  <2>2. QED
    BY <2>1, FlatRoomy DEF msg_pong, msg_error
<1>3. QED
  BY <1>1, <1>2 DEF ReplyLayout

\* A message and its answer fit into their buffers exactly when size_ counts
\* them right.
LEMMA FitsWhenCounted ==
    ASSUME TypeInv, ask # None
    PROVE  LET Counts == ask.type = "MSG_GET_NOISEINFO" => ask.shape.n = 0
           IN  /\ Fits(MessageTable[ask.type].layout) <=> Counts
               /\ Fits(ReplyLayout(ask.type)) <=> Counts
<1>1. ask \in Ask /\ ask.type \in MsgType
  BY AskFacts
<1>2. ask.shape \in Shape
  BY <1>1, ExchangeConstants DEF Ask, Shapes, Shape
<1>3. CASE ask.type = "MSG_GET_NOISEINFO"
  <2>1. /\ MessageTable[ask.type].layout = msg_noiseinfo
        /\ ReplyLayout(ask.type) = msg_noiseinfo
    BY <1>3, NoiseRow
  <2>2. Written(msg_noiseinfo, ask.shape) <= Announced(msg_noiseinfo, ask.shape)
          <=> ask.shape.n = 0
    BY <1>2, NoiseFits
  <2>3. QED
    BY <1>3, <2>1, <2>2 DEF Fits
<1>4. CASE ask.type # "MSG_GET_NOISEINFO"
  <2>1. /\ Roomy(MessageTable[ask.type].layout)
        /\ Roomy(ReplyLayout(ask.type))
    BY <1>1, <1>4, RowsRoomy
  <2>2. QED
    BY <1>2, <1>4, <2>1 DEF Roomy, Fits
<1>5. QED
  BY <1>3, <1>4

\* size_, strlen_ethanol and encode_ of every message: whatever the lengths of
\* its strings and lists, a message that is written fits into the buffer that
\* encode_ allocates for it, except the noise message, which overruns it as
\* soon as it has an entry.
THEOREM WithinAnnouncedEver == Spec => []WithinAnnounced
<1>1. TypeInv => WithinAnnounced
  <2>1. SUFFICES ASSUME TypeInv, NEW h \in Hop
                 PROVE  LET Counts == ask.type = "MSG_GET_NOISEINFO"
                                        => ask.shape.n = 0
                        IN  /\ call[h].pc = "write" =>
                                 (Fits(MessageTable[ask.type].layout) <=> Counts)
                            /\ srv[h].pc = "write" =>
                                 (Fits(ReplyLayout(ask.type)) <=> Counts)
    BY DEF WithinAnnounced
  <2>2. CASE ask = None
    <3>1. call[h].pc # "write" /\ srv[h].pc # "write"
      BY <2>1, <2>2 DEF TypeInv, Resting, IdleCall, IdleSrv
    <3>2. QED
      BY <3>1
  <2>3. CASE ask # None
    BY <2>1, <2>3, FitsWhenCounted, Zenon
  <2>4. QED
    BY <2>2, <2>3
<1>2. QED
  BY <1>1, TypesHold, PTL

=============================================================================
