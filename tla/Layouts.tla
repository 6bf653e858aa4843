------------------------------- MODULE Layouts --------------------------------
(***************************************************************************)
(* The layouts of the messages of Ethanol: the lengths of the fields,      *)
(* hostapd-2.6/src/messaging/buffer_handler_fun.c, and the size_, encode_  *)
(* and decode_ functions of every hostapd-2.6/src/messaging/msg_*.c.       *)
(*                                                                         *)
(* A layout is the sequence of the kinds of its fields after the header;   *)
(* the values of the fields are abstracted to where they come from.        *)
(* encode_ and decode_ go through the same fields in the same order in     *)
(* every message, so that one sequence stands for both.                    *)
(***************************************************************************)
EXTENDS Integers, Sequences

-----------------------------------------------------------------------------
(* buffer_handler_fun.c: the kinds of fields and their lengths in bytes *)

C == "char"
I == "int"
L == "long"
B == "bool"
T == "flag"   \* a bool whose size_ function says sizeof(bool)
F == "float"
D == "double"
X == "longdouble"
S == "short"
Y == "byte"

Width == [int |-> 4, long |-> 8, flag |-> 1, float |-> 4, double |-> 8,
          longdouble |-> 16, short |-> 2, byte |-> 1]

\* Mutant: the terminator of a string is not counted.
strlen_ethanol_NoTerminator(len) == 4 + len

strlen_ethanol(len) == 4 + (len + 1)

bool_len_ethanol == 4

encode_char(len) == 4 + (IF len > 0 THEN len + 1 ELSE 0)

encode_bool == 1

\* What size_ adds and what encode_ writes for a field; a string has len
\* characters and is null when len is 0.
Counted(kind, len) ==
    CASE kind = C -> strlen_ethanol(len)
      [] kind = B -> bool_len_ethanol
      [] OTHER    -> Width[kind]

Encoded(kind, len) ==
    CASE kind = C -> encode_char(len)
      [] kind = B -> encode_bool
      [] OTHER    -> Width[kind]

\* encode_header: type, number, version "1.0.3" and size.
encode_header == 4 + 4 + encode_char(5) + 4

-----------------------------------------------------------------------------
(* Layouts: fields of the message, of every entry of its list and of every
   entry of the lists in the entry.  surplus is what size_ counts beyond, or
   short of, the fields that encode_ writes. *)

Rep(kind, n) == [k \in 1..n |-> kind]

Nested(fixed, item, sub) ==
    [fixed |-> fixed, item |-> item, sub |-> sub,
     surplus |-> [fixed |-> 0, item |-> 0, sub |-> 0]]

List(fixed, item) == Nested(fixed, item, <<>>)

Flat(fixed) == List(fixed, <<>>)

Miscounted(layout, part, bytes) == [layout EXCEPT !.surplus[part] = bytes]

\* A message with strings of length len, n entries, and m entries in each.
Shape == [len : Nat, n : Nat, m : Nat]

Bytes(Of(_, _), fields, len) ==
    LET sum[i \in 0..Len(fields)] ==
            IF i = 0 THEN 0 ELSE sum[i - 1] + Of(fields[i], len)
    IN  sum[Len(fields)]

\* The length of the buffer that encode_ allocates and the sender writes ...
Announced(layout, s) ==
    encode_header
    + Bytes(Counted, layout.fixed, s.len) + layout.surplus.fixed
    + s.n * (Bytes(Counted, layout.item, s.len) + layout.surplus.item
             + s.m * (Bytes(Counted, layout.sub, s.len) + layout.surplus.sub))

\* ... and the bytes that encode_ puts into it.
Written(layout, s) ==
    encode_header
    + Bytes(Encoded, layout.fixed, s.len)
    + s.n * (Bytes(Encoded, layout.item, s.len)
             + s.m * Bytes(Encoded, layout.sub, s.len))

msg_hello == Flat(<<I, I, F>>)
msg_bye == Flat(<<I>>)
msg_ping == Flat(<<C>>)
msg_pong == Flat(<<F, B>>)
msg_error == Flat(<<I>>)
msg_802_11e_enabled == Flat(<<C, C, I, B>>)
msg_ap_ctsprotection_enabled == Flat(<<C, B>>)
msg_ap_broadcastssid == Flat(<<B, C>>)
msg_ap_frameburstenabled == Flat(<<C, B>>)
msg_ap_guardinterval == Flat(<<C, L>>)
msg_ap_dtiminterval == Flat(<<C, L>>)
msg_ap_rtsthreshold == Flat(<<C, I>>)
msg_beacon_interval == Flat(<<C, L>>)
msg_bytesreceived == Flat(<<C, C, I, L>>)
msg_bytessent == Flat(<<C, C, I, L>>)
msg_packetsreceived == Flat(<<C, C, I, L>>)
msg_packetslost == Flat(<<C, C, I, L>>)
msg_packetssent == Flat(<<C, C, I, L>>)
msg_deauthenticate_user == Flat(<<C>>)
msg_disconnect_user == Flat(<<C>>)
msg_powersavemode == Flat(<<C, C, I, B>>)
msg_delay == Flat(<<C, C, I, F, F>>)
msg_failed == Flat(<<C, L>>)
msg_jitter == Flat(<<C, F, F>>)
msg_fastbsstransition_compatible == Flat(<<C, C, I, B>>)
msg_frequency == Flat(<<C, C, C, I, I>>)
msg_association_process == Flat(<<C, C, B, I>>)
msg_snr == Flat(<<C, C, I, L>>)
msg_mac == List(<<I>>, <<L, C, C>>)
msg_radio_wlans == List(<<C, I, I>>, <<C, C, I>>)
msg_channels == List(<<C, I>>, <<D, I>>)
msg_intf ==
    Miscounted(List(<<C, I, I>>, <<L, C, I, C, B>>),
        "fixed", 4)
msg_radio_linkstatistics ==
    List(<<C>> \o Rep(L, 13) \o <<I, L>> \o Rep(I, 7), Rep(L, 13))
msg_currentchannel == Flat(<<C, C, I, I, I, B>>)
msg_wlan_info == List(<<C, I, I>>, <<I, C, I, I, L, C, C>> \o Rep(I, 6))
msg_beaconinfo ==
    Nested(<<I>>, <<L, L, C>> \o Rep(Y, 6) \o Rep(I, 5) \o <<Y, Y, Y, L>> \o
        Rep(Y, 4) \o <<I, I, I, L, L, L, I, I, I, L, I, L>> \o Rep(I, 10) \o
        <<L, B, L, I>> \o Rep(Y, 16) \o <<L, L, I>>,
        <<I, I, B, I, I, I, L, L, L>>)
msg_channelbandwitdh == Flat(<<L, I, I>>)
msg_txpower == Flat(<<C, C, I, L, B>>)
msg_snr_threshold == Flat(<<C, C, I, L>>)
msg_snr_interval == Flat(<<C, C, I, L>>)
msg_ap_in_range ==
    List(<<C, C, I, I>>, <<C, C, C, I, L, I, F, I, I, I, I, B>>)
msg_ip_address == List(<<C, I, C, C, C, C, I>>, <<C>>)
msg_retries == Flat(<<L, L>>)
msg_uptime == Flat(<<X, X>>)
msg_ap_routes == List(<<C, I, I>>, <<C, C, C, C, L>> \o Rep(I, 6))
msg_ap_ssid == List(<<C, I, I>>, <<C, C, I, I>>)
msg_memory == Flat(<<C, I, L>>)
msg_cpu == Flat(<<C, I, L>>)
msg_channelinfo == List(<<C, I, I>>, <<I, B>> \o Rep(L, 7))
msg_request_beacon == Flat(<<L>>)
msg_interferencemap == List(<<C, I, I>>, <<C, I, L, F>>)
msg_request_begin_association == Flat(<<C, C>>)
msg_scan_received ==
    Miscounted(Miscounted(Nested(<<C, C, I, I>>,
        <<I, I, C, C, C, I, L, L, I, L, I, B, F, I, I,
          I, L, I, B, B, B, I, I, B>> \o Rep(Y, 4)
         \o <<I, B, I, Y, Y, Y>> \o Rep(I, 4)
        \o Rep(B, 5) \o <<I, I, I, B, I>>,
        <<F, I, I, I>> \o Rep(Y, 8)),
        "item", -4), "sub", 12)
msg_fragmentationthreshold == Flat(<<L, I>>)
msg_noiseinfo ==
    Miscounted(List(<<C, C, I, I>>, <<I, I, S>> \o Rep(L, 4)),
        "item", -8)
msg_vap == Flat(<<I, C, I, I, I, T, T>>)
msg_tx_bitrates == Nested(<<C, C, I, I>>, <<C, I, I>>, <<F, T>>)
msg_tx_bitrate == Flat(<<C, C, I, C, F>>)
msg_set_tx_bitrates == List(<<C, C, I, I, I>>, <<I>>)
msg_sta_link_information == Flat(<<C, C, I, C, C, I>>)
msg_supportedinterface == Flat(<<L, I>>)
msg_location == Flat(<<C, S, L, I, S, L, I, S, S, S, L>>)
msg_conf_ssid_radio == Flat(<<L, C, I, I, I, T, T, T>>)
msg_statistics == Flat(<<C, C, I>> \o Rep(L, 8) \o <<C>>)
msg_acs == List(<<C, C, I, I, I>>, <<I, L>>)
msg_sta_statistics ==
    List(<<C, C, I, L, C>>, <<C, C>> \o Rep(L, 11) \o <<I, I, I, L, L>>)
msg_snr_threshold_reached == Flat(<<C, I, C, C, C, L>>)
msg_changed_ap == Flat(<<C, C, I>>)
msg_mean_sta_statistics == List(<<C, I, I>>, <<C>> \o Rep(X, 23))
msg_mean_sta_statistics_interface == Flat(<<C, I, C>>)
msg_mean_sta_statistics_alpha == Flat(<<C, I, X>>)
msg_mean_sta_statistics_time == Flat(<<C, I, I>>)
msg_station_trigger_transition == Flat(<<C, I, C, C, C>>)
msg_tos_cleanall == Flat(<<>>)
msg_send_tos == Flat(<<I>> \o Rep(C, 6) \o <<I>>)
msg_set_mtu == Flat(<<C, I, C, I>>)
msg_set_txqueuelen == Flat(<<C, I, C, I>>)
msg_preamble == Flat(<<C, I>>)

=============================================================================
