------------------------------- MODULE ApList -------------------------------
(***************************************************************************)
(* The neighbour table of hostapd-2.6/src/ap/ap_list.c: the access points  *)
(* whose beacons this AP has heard, in a least-recently-heard list that is *)
(* also indexed by a hash table, and the two protection flags (OLBC and    *)
(* OLBC HT) that the table drives.  Beacons, the 10 s clean-up timer,      *)
(* channel switches and interface resets interleave in the event loop.     *)
(***************************************************************************)
EXTENDS Integers, Sequences, FiniteSets

CONSTANTS Addr,              \* BSSIDs that can be heard
          ap_table_max_size, \* conf->ap_table_max_size
          ap_table_expiration_time,
          Channel,           \* channel numbers; 0 = "not in the beacon"
          Secondary,         \* values of conf->secondary_channel
          hw_mode_g,         \* current_mode->mode = HOSTAPD_MODE_IEEE80211G
          forward_beacon,    \* config.forward_beacon of ethanol.ini
          MaxClock           \* bound: the clock stops here

ASSUME ConstantsOK ==
    /\ ap_table_max_size \in Nat
    /\ ap_table_expiration_time \in Nat
    /\ Channel \subseteq Nat \ {0}
    /\ Secondary \subseteq {-1, 0, 1}
    /\ hw_mode_g \in BOOLEAN
    /\ forward_beacon \in Int
    /\ MaxClock \in Nat

VARIABLES ap_list,    \* sequence of BSSIDs, head first
          ap_hash,    \* entries for each BSSID in the chain of its slot
          num_ap,
          info,       \* the struct ap_info of each BSSID in the list
          olbc, olbc_ht,
          conf,       \* [channel, secondary_channel]
          clock,      \* os_get_reltime()
          forwarded,  \* ghost: a beacon report went to the controller
          heard       \* ghost: BSSIDs heard since conf last changed

vars == <<ap_list, ap_hash, num_ap, info, olbc, olbc_ht, conf, clock,
          forwarded, heard>>

Conf == [channel : Channel, secondary_channel : Secondary]

(* What a beacon says, reduced to what the table tells apart: whether it   *)
(* describes a BSS that needs ERP protection (NonERP_Present, or no OFDM   *)
(* rate), the channel it names, and whether it carries HT capabilities.    *)
Beacon == [bssid : Addr, legacy : BOOLEAN, channel : Channel \cup {0},
           ht_support : BOOLEAN]

ApInfo == [legacy : BOOLEAN, channel : Channel \cup {0},
           ht_support : BOOLEAN, last_beacon : 0..MaxClock]

\* A zeroed entry (os_zalloc); also what a freed entry is reset to.
NoInfo == [legacy |-> FALSE, channel |-> 0, ht_support |-> FALSE,
           last_beacon |-> 0]

Listed == {a \in Addr : \E i \in 1..Len(ap_list) : ap_list[i] = a}

-----------------------------------------------------------------------------
(* List and hash primitives. *)

ap_ap_list_add(list, a) == <<a>> \o list

Without(s, i) == [j \in 1..(Len(s) - 1) |-> IF j < i THEN s[j] ELSE s[j + 1]]

IndexOf(s, a) == CHOOSE i \in DOMAIN s : s[i] = a

ap_ap_list_del(list, a) == Without(list, IndexOf(list, a))

\* The order of a hash chain is not observable: a chain is the bag of its
\* entries, and deletion unlinks one matching entry if there is one.
ap_ap_hash_add(hash, a) == [hash EXCEPT ![a] = @ + 1]

ap_ap_hash_del(hash, a) == [hash EXCEPT ![a] = IF @ > 0 THEN @ - 1 ELSE 0]

\* The look-up walks the hash chain, never the list.
ap_get_ap(a) == ap_hash[a] > 0

\* os_free of the entries that are no longer in the list.
Keep(f, list) ==
    [a \in Addr |-> IF \E i \in DOMAIN list : list[i] = a
                     THEN f[a] ELSE NoInfo]

TableFull == num_ap + 1 > ap_table_max_size

\* Mutant: eviction takes the head's successor instead of head->prev.
LeastRecent_Next(list) == list[2]

\* head->prev is the end of the list.
LeastRecent(list) == list[Len(list)]

\* Mutant: eviction unlinks the entry from the list only.
FreeFromHash_Forgotten(hash, a) == hash

FreeFromHash(hash, a) == ap_ap_hash_del(hash, a)

\* ap_ap_add, its eviction of the tail entry included.
ap_ap_add(a) ==
    LET list == ap_ap_list_add(ap_list, a)
        hash == ap_ap_hash_add(ap_hash, a)
        tail == LeastRecent(list)
    IN  IF TableFull /\ tail # a
        THEN /\ ap_list' = ap_ap_list_del(list, tail)
             /\ ap_hash' = FreeFromHash(hash, tail)
             /\ num_ap' = num_ap
        ELSE /\ ap_list' = list
             /\ ap_hash' = hash
             /\ num_ap' = num_ap + 1

\* Mutant: a known entry is refreshed where it is.
MoveToHead_Stay(a) == UNCHANGED <<ap_list, ap_hash, num_ap>>

MoveToHead(a) ==
    /\ ap_list' = IF ap_list[1] # a
                  THEN ap_ap_list_add(ap_ap_list_del(ap_list, a), a)
                  ELSE ap_list
    /\ UNCHANGED <<ap_hash, num_ap>>

ap_list_beacon_olbc(e) ==
    hw_mode_g /\ conf.channel = e.channel /\ e.legacy

\* The channels on which an AP without HT makes this BSS protect HT frames.
HtRelevant(e) ==
    /\ ~e.ht_support
    /\ e.channel \in {0, conf.channel,
                      conf.channel + conf.secondary_channel * 4}

-----------------------------------------------------------------------------
Init ==
    /\ ap_list = <<>>
    /\ ap_hash = [a \in Addr |-> 0]
    /\ num_ap = 0
    /\ info = [a \in Addr |-> NoInfo]
    /\ olbc = FALSE
    /\ olbc_ht = FALSE
    /\ conf \in Conf
    /\ clock = 0
    /\ forwarded = FALSE
    /\ heard = {}

\* hostapd_mgmt_rx gives every beacon a frame info with the channel 0: one that
\* does not name its channel sets it to 0.
ap_list_process_beacon(b) ==
    LET a == b.bssid
        e == [legacy |-> b.legacy, channel |-> b.channel,
              ht_support |-> b.ht_support, last_beacon |-> clock]
    IN  /\ ap_table_max_size >= 1
        /\ IF ap_get_ap(a) THEN MoveToHead(a) ELSE ap_ap_add(a)
        /\ info' = Keep([info EXCEPT ![a] = e], ap_list')
        /\ olbc' = (olbc \/ ap_list_beacon_olbc(e))
        /\ olbc_ht' = (olbc_ht \/ HtRelevant(e))
        /\ forwarded' = (forwarded \/ forward_beacon # 1)
        /\ heard' = (heard \cup {a}) \cap Listed'
        /\ UNCHANGED <<conf, clock>>

os_reltime_expired(a) ==
    clock - info[a].last_beacon > ap_table_expiration_time

\* Mutant: one entry too many is subtracted from num_ap.
FreedCount_OffByOne(n) == Len(ap_list) - n + 1

\* Entries the timer frees when n are left.
FreedCount(n) == Len(ap_list) - n

\* Mutant: only the head of the list is looked at.
OlbcLeft_HeadOnly(n) == n > 0 /\ ap_list_beacon_olbc(info[ap_list[1]])

\* Mutant: any legacy AP keeps the flag, on whatever channel it is.
OlbcLeft_AnyChannel(n) == \E i \in 1..n : info[ap_list[i]].legacy

OlbcLeft(n) == \E i \in 1..n : ap_list_beacon_olbc(info[ap_list[i]])

\* The loop of ap_list_timer frees from the tail and stops at the first
\* entry that has not expired: n entries are left.
ap_list_timer ==
    /\ ap_list # <<>>
    /\ \E n \in 0..Len(ap_list) :
        /\ n > 0 => ~os_reltime_expired(ap_list[n])
        /\ \A i \in (n + 1)..Len(ap_list) : os_reltime_expired(ap_list[i])
        /\ ap_list' = SubSeq(ap_list, 1, n)
        /\ num_ap' = num_ap - FreedCount(n)
        /\ ap_hash' = [a \in Addr |->
                         IF \E i \in (n + 1)..Len(ap_list) : ap_list[i] = a
                         THEN ap_ap_hash_del(ap_hash, a)[a]
                         ELSE ap_hash[a]]
        /\ olbc' = (olbc /\ OlbcLeft(n))
        /\ olbc_ht' = (olbc_ht /\ \E i \in 1..n :
                                    ~info[ap_list[i]].ht_support)
    /\ info' = Keep(info, ap_list')
    /\ heard' = heard \cap Listed'
    /\ UNCHANGED <<conf, clock, forwarded>>

\* ap_list_deinit, on the way of hostapd_disable_iface: the flags stay.
ap_list_deinit ==
    /\ ap_list' = <<>>
    /\ ap_hash' = [a \in Addr |-> IF a \in Listed
                                   THEN ap_ap_hash_del(ap_hash, a)[a]
                                   ELSE ap_hash[a]]
    /\ num_ap' = num_ap - Len(ap_list)
    /\ info' = [a \in Addr |-> NoInfo]
    /\ heard' = {}
    /\ UNCHANGED <<olbc, olbc_ht, conf, clock, forwarded>>

\* The driver reports a channel switch (one the Ethanol controller may have
\* asked for): the configuration changes, the table and the flags do not.
hostapd_event_ch_switch(c) ==
    /\ conf' = c
    /\ heard' = {}
    /\ UNCHANGED <<ap_list, ap_hash, num_ap, info, olbc, olbc_ht, clock,
                   forwarded>>

Tick ==
    /\ clock < MaxClock
    /\ clock' = clock + 1
    /\ UNCHANGED <<ap_list, ap_hash, num_ap, info, olbc, olbc_ht, conf,
                   forwarded, heard>>

Next ==
    \/ \E b \in Beacon : ap_list_process_beacon(b)
    \/ ap_list_timer
    \/ ap_list_deinit
    \/ \E c \in Conf \ {conf} : hostapd_event_ch_switch(c)
    \/ Tick

Spec == Init /\ [][Next]_vars

\* hostapd_periodic re-arms itself every HOSTAPD_CLEANUP_INTERVAL seconds.
FairSpec == Spec /\ WF_vars(ap_list_timer)

-----------------------------------------------------------------------------
(* Properties. *)

\* Every variable keeps the type of its C field.
TypeOK ==
    /\ ap_list \in Seq(Addr)
    /\ ap_hash \in [Addr -> Nat]
    /\ num_ap \in Nat
    /\ info \in [Addr -> ApInfo]
    /\ olbc \in BOOLEAN
    /\ olbc_ht \in BOOLEAN
    /\ conf \in Conf
    /\ clock \in 0..MaxClock
    /\ forwarded \in BOOLEAN
    /\ heard \subseteq Addr

\* The list holds each AP once and the hash chains hold exactly the APs of
\* the list, whatever mix of look-ups, evictions, expiries and resets ran.
HashIndexesList ==
    /\ \A i, j \in DOMAIN ap_list : ap_list[i] = ap_list[j] => i = j
    /\ \A a \in Addr : ap_hash[a] = IF a \in Listed THEN 1 ELSE 0

\* num_ap counts the list, and eviction keeps it within ap_table_max_size.
TableBounded ==
    /\ num_ap = Len(ap_list)
    /\ num_ap <= ap_table_max_size

\* "The tail entry in this link will thus be the least recently used entry":
\* along the list, last_beacon never increases.
LeastRecentlyUsedLast ==
    \A i, j \in DOMAIN ap_list :
        i < j => info[ap_list[i]].last_beacon >= info[ap_list[j]].last_beacon

\* An AP that was heard on the present channel configuration, is still in
\* the table and needs ERP (HT) protection has the protection switched on.
ProtectionCovers ==
    \A a \in Listed \cap heard :
        /\ ap_list_beacon_olbc(info[a]) => olbc
        /\ HtRelevant(info[a]) => olbc_ht

\* The timer stops at the first entry that is not expired, yet leaves no
\* expired entry anywhere in the table.
TimerLeavesNoneExpired ==
    [][ap_list_timer =>
         \A i \in DOMAIN ap_list' : ~os_reltime_expired(ap_list'[i])]_vars

\* An entry is only dropped (evicted or expired) when every entry that is
\* kept was heard at least as recently.
DropsOldest ==
    [][\A i, j \in DOMAIN ap_list :
         (/\ \A k \in DOMAIN ap_list' : ap_list'[k] # ap_list[i]
          /\ \E k \in DOMAIN ap_list' : ap_list'[k] = ap_list[j])
         => info[ap_list[j]].last_beacon >= info[ap_list[i]].last_beacon]_vars

\* If from some point on the table is never empty and holds no AP that needs
\* ERP (HT) protection, the timer switches the protection off for good.  The
\* table must not be empty: ap_list_timer returns early on an empty list.
ProtectionEnds ==
    /\ <>[](/\ ap_list # <<>>
            /\ \A a \in Listed : ~ap_list_beacon_olbc(info[a]))
         => <>[]~olbc
    /\ <>[](ap_list # <<>> /\ \A a \in Listed : info[a].ht_support)
         => <>[]~olbc_ht
=============================================================================
