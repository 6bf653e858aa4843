----------------------------- MODULE StationMgmt -----------------------------
(***************************************************************************)
(* Station management of one BSS: the authentication and association      *)
(* handlers of hostapd-2.6/src/ap/ieee802_11.c with the Ethanol admission  *)
(* questions, their TX status callbacks, and the life of a station entry   *)
(* in hostapd-2.6/src/ap/sta_info.c (timers, disconnection, removal).      *)
(*                                                                         *)
(* Frames, TX status reports, timers and administrative commands reach the *)
(* event loop in any order.  The handlers call the controller over SSL and *)
(* wait for its answer, so the loop can stall for seconds; after a stall   *)
(* it runs the expired timers first and only then the pending TX reports,  *)
(* which is why no timer waits for a report here.  The network is open (no *)
(* WPA, no IEEE 802.1X), open-system authentication, one BSS.  The driver  *)
(* removes a station when asked to and leaves inactivity to hostapd.       *)
(***************************************************************************)
EXTENDS Integers, Sequences, FiniteSets

CONSTANTS Addr,                       \* station addresses
          max_num_sta,                \* hapd->conf->max_num_sta
          MaxAid,                     \* 2007 in hostapd_get_aid
          SeqCtrl,                    \* values of seq_ctrl
          full_ap_client_state,       \* FULL_AP_CLIENT_STATE_SUPP(drv_flags)
          skip_inactivity_poll,
          radius_session,             \* the ACL may give a Session-Timeout
          enabled_msg_authorization,
          enabled_msg_association,
          enabled_msg_reassociation,
          Command,                    \* disconnections the AP's side may ask
          MaxTx                       \* bound: outstanding TX reports of a STA

ASSUME StationConstants ==
    /\ max_num_sta \in Nat
    /\ MaxAid \in Nat
    /\ SeqCtrl \subseteq Nat \ {0}
    /\ full_ap_client_state \in BOOLEAN
    /\ skip_inactivity_poll \in BOOLEAN
    /\ radius_session \in BOOLEAN
    /\ enabled_msg_authorization \in BOOLEAN
    /\ enabled_msg_association \in BOOLEAN
    /\ enabled_msg_reassociation \in BOOLEAN
    /\ Command \subseteq {"deauthenticate", "disassociate"}
    /\ MaxTx \in Nat

VARIABLES known,           \* addresses with an entry in sta_list and sta_hash
          sta,             \* their struct sta_info
          drv,             \* the driver's entry: "none", "unassoc", "assoc"
          timer,           \* registered event-loop timeouts of each station
          tx,              \* frames whose TX status is still to be reported
          sta_aid,         \* the AID bitmap: AIDs in use
          num_sta, num_sta_non_erp,
          admitted,        \* ghost: stations some authentication of which
                           \* the controller did not deny
          granted          \* ghost: the same for associations

vars == <<known, sta, drv, timer, tx, sta_aid, num_sta, num_sta_non_erp,
          admitted, granted>>

ghosts == <<admitted, granted>>

Flag == {"AUTH", "ASSOC", "AUTHORIZED", "ASSOC_REQ_OK", "PENDING_POLL",
         "PENDING_DISASSOC_CB", "PENDING_DEAUTH_CB"}

TimeoutNext == {"NULLFUNC", "DISASSOC", "DEAUTH", "REMOVE"}

Subtype == {"ASSOC_REQ", "REASSOC_REQ", "AUTH"}

\* last_seq_ctrl = 0 is WLAN_INVALID_MGMT_SEQ, aid = 0 is "none yet".
Sta == [flags : SUBSET Flag, aid : 0..MaxAid, timeout_next : TimeoutNext,
        last_seq_ctrl : SeqCtrl \cup {0}, last_subtype : Subtype,
        added_unassoc : BOOLEAN, nonerp_set : BOOLEAN]

\* os_zalloc'ed by ap_sta_add; also what a freed entry is reset to.
NewSta == [flags |-> {}, aid |-> 0, timeout_next |-> "NULLFUNC",
           last_seq_ctrl |-> 0, last_subtype |-> "ASSOC_REQ",
           added_unassoc |-> FALSE, nonerp_set |-> FALSE]

Timer == {"ap_handle_timer", "ap_handle_session_timer",
          "ap_sta_deauth_cb_timeout", "ap_sta_disassoc_cb_timeout"}

NoTimers == [t \in Timer |-> 0]

\* eloop_register_timeout does not replace an earlier registration.
Register(timers, t) == [timers EXCEPT ![t] = @ + 1]

Cancel(timers, t) == [timers EXCEPT ![t] = 0]

Reschedule(timers, t) == Register(Cancel(timers, t), t)

\* Management frames the AP sends; ok is status_code = SUCCESS.
TxFrame == [stype : {"auth", "assoc_resp", "deauth", "disassoc"}, ok : BOOLEAN]

\* The queues that sending f may leave: the report will come, or never.
Sent(q, f) == {q} \cup (IF Len(q) < MaxTx THEN {Append(q, f)} ELSE {})

AuthReply(ok) == [stype |-> "auth", ok |-> ok]
AssocResp(ok) == [stype |-> "assoc_resp", ok |-> ok]
Deauth == [stype |-> "deauth", ok |-> TRUE]
Disassoc == [stype |-> "disassoc", ok |-> TRUE]

\* Values of denied_by_controller: FALSE unless the question is enabled and
\* the controller answers it with allowed = false.  Without an answer (no
\* connection, another message) the handlers go on as if it had agreed.
Denied(enabled) == IF enabled THEN BOOLEAN ELSE {FALSE}

-----------------------------------------------------------------------------
(* Helpers that change one station. *)

Put(a, s, d, t) ==
    /\ sta' = [sta EXCEPT ![a] = s]
    /\ drv' = [drv EXCEPT ![a] = d]
    /\ timer' = [timer EXCEPT ![a] = t]

\* Mutant: the entry is removed from hostapd only.
DriverWithout_Forgotten(a) == drv

DriverWithout(a) == [drv EXCEPT ![a] = "none"]

\* Mutant: the disconnect timeouts are left registered.
TimersWithout_Callbacks(a) ==
    [timer EXCEPT ![a] = [NoTimers EXCEPT !["ap_sta_deauth_cb_timeout"] =
                            timer[a]["ap_sta_deauth_cb_timeout"]]]

TimersWithout(a) == [timer EXCEPT ![a] = NoTimers]

\* Mutant: the AID bit is not cleared.
AidsWithout_Leak(a) == sta_aid

AidsWithout(a) == sta_aid \ {sta[a].aid}

ap_free_sta(a) ==
    /\ known' = known \ {a}
    /\ sta' = [sta EXCEPT ![a] = NewSta]
    /\ drv' = DriverWithout(a)
    /\ timer' = TimersWithout(a)
    /\ sta_aid' = AidsWithout(a)
    /\ num_sta' = num_sta - 1
    /\ num_sta_non_erp' = IF sta[a].nonerp_set THEN num_sta_non_erp - 1
                                                ELSE num_sta_non_erp

SameTable == UNCHANGED <<known, sta_aid, num_sta, num_sta_non_erp>>

FreeAids == (1..MaxAid) \ sta_aid

\* The old AID, or the lowest free one, or 0 when there is none.
hostapd_get_aid(s) ==
    CASE s.aid > 0      -> s.aid
      [] s.aid = 0 /\ FreeAids = {} -> 0
      [] s.aid = 0 /\ FreeAids # {} ->
            CHOOSE i \in FreeAids : \A j \in FreeAids : i <= j

-----------------------------------------------------------------------------
(* Authentication. *)

NoRoom == num_sta >= max_num_sta

\* A refusal before the entry is looked up (by the controller, for the
\* algorithm, by the ACL), or no room for a new entry: sta stays NULL, so
\* whatever entry the station has is left alone and only a reply is sent.
handle_auth_refused(a) ==
    /\ \E q \in Sent(tx[a], AuthReply(FALSE)) : tx' = [tx EXCEPT ![a] = q]
    /\ UNCHANGED <<known, sta, drv, timer, sta_aid, num_sta,
                   num_sta_non_erp, ghosts>>

\* Dropped without an answer.
RepeatedAuth(s, f) ==
    /\ f.retry
    /\ s.last_seq_ctrl # 0
    /\ s.last_seq_ctrl = f.seq
    /\ s.last_subtype = "AUTH"

ReauthClears == {"ASSOC", "AUTH", "AUTHORIZED"}

\* handle_auth once a station entry is found or added.  vlan: the VLAN can
\* be set; added: the driver takes the new station; sent: the reply is
\* handed to the driver; session: the ACL gives a Session-Timeout.
handle_auth(a, f, dont_auth, vlan, added, sent, session) ==
    LET s0   == IF a \in known THEN sta[a] ELSE NewSta
        s1   == [s0 EXCEPT !.last_seq_ctrl = f.seq, !.last_subtype = "AUTH"]
        t0   == IF a \in known THEN timer[a]
                ELSE Register(NoTimers, "ap_handle_timer")
        t1   == IF vlan
                THEN IF session THEN Reschedule(t0, "ap_handle_session_timer")
                                ELSE Cancel(t0, "ap_handle_session_timer")
                ELSE t0
        fresh == vlan /\ full_ap_client_state /\ ~s1.added_unassoc
        resp  == vlan /\ (fresh => added)
        s2    == IF fresh THEN [s1 EXCEPT !.flags = @ \ ReauthClears,
                                          !.added_unassoc = added]
                          ELSE s1
        d2    == IF fresh THEN IF added THEN "unassoc" ELSE "none"
                          ELSE drv[a]
        s3    == IF resp THEN [s2 EXCEPT !.flags = @ \cup {"AUTH"}] ELSE s2
        undo  == s3.added_unassoc /\ ~(resp /\ sent)
    IN  /\ ~dont_auth
        /\ a \in known \/ ~NoRoom
        /\ ~RepeatedAuth(s0, f)
        /\ session => radius_session
        /\ known' = known \cup {a}
        /\ num_sta' = IF a \in known THEN num_sta ELSE num_sta + 1
        /\ Put(a, [s3 EXCEPT !.added_unassoc = @ /\ ~undo],
               IF undo THEN "none" ELSE d2, t1)
        /\ \E q \in IF sent THEN Sent(tx[a], AuthReply(resp)) ELSE {tx[a]} :
               tx' = [tx EXCEPT ![a] = q]
        /\ admitted' = admitted \cup {a}
        /\ UNCHANGED <<sta_aid, num_sta_non_erp, granted>>

-----------------------------------------------------------------------------
(* Association. *)

\* "Station tried to associate before authentication".
handle_assoc_class2(a) ==
    /\ a \notin known \/ "AUTH" \notin sta[a].flags
    /\ \E q \in Sent(tx[a], Deauth) : tx' = [tx EXCEPT ![a] = q]
    /\ UNCHANGED <<known, sta, drv, timer, sta_aid, num_sta,
                   num_sta_non_erp, ghosts>>

\* The condition reads "... && sta->last_subtype == reassoc ? REASSOC_REQ :
\* ASSOC_REQ"; && binds tighter than ?:, so last_subtype is compared with
\* the number reassoc: 0 is ASSOC_REQ, 1 is no request at all.
RepeatedAssoc(s, f, reassoc) ==
    /\ f.retry
    /\ s.last_seq_ctrl # 0
    /\ s.last_seq_ctrl = f.seq
    /\ ~reassoc /\ s.last_subtype = "ASSOC_REQ"

AssocFlagOf(reassoc) == IF reassoc THEN enabled_msg_reassociation
                                    ELSE enabled_msg_association

\* Mutant: the controller is asked, its answer is not looked at.
Refused_NotByController(dont_auth, checks) == ~checks

\* checks: the listen interval and the elements of the request are accepted.
Refused(dont_auth, checks) == dont_auth \/ ~checks

\* Mutant: a station is counted at each of its associations.
CountsNonErp_Again(s, nonerp) == nonerp

\* Mutant: only a station that has been counted already is counted.
CountsNonErp_Inverted(s, nonerp) == nonerp /\ s.nonerp_set

\* A station without ERP rates is counted once in num_sta_non_erp (as it is
\* in the counters for slot time, preamble and HT).
CountsNonErp(s, nonerp) == nonerp /\ ~s.nonerp_set

HandledRequest(s, f, reassoc) ==
    [s EXCEPT !.last_seq_ctrl = f.seq,
              !.last_subtype = IF reassoc THEN "REASSOC_REQ" ELSE "ASSOC_REQ"]

\* handle_assoc for an authenticated station that is refused: an entry the
\* driver holds for the authentication goes, an associated one stays.
handle_assoc_refused(a, f, reassoc, dont_auth, checks, sent) ==
    LET s0 == sta[a]
    IN  /\ a \in known /\ "AUTH" \in s0.flags
        /\ ~RepeatedAssoc(s0, f, reassoc)
        /\ Refused(dont_auth, checks) \/ hostapd_get_aid(s0) = 0
        /\ Put(a, [HandledRequest(s0, f, reassoc) EXCEPT
                      !.added_unassoc = FALSE],
               IF s0.added_unassoc THEN "none" ELSE drv[a], timer[a])
        /\ \E q \in IF sent THEN Sent(tx[a], AssocResp(FALSE)) ELSE {tx[a]} :
               tx' = [tx EXCEPT ![a] = q]
        /\ SameTable
        /\ UNCHANGED ghosts

\* handle_assoc for one that is accepted.  nonerp: it has no ERP rate;
\* added: the driver takes the associated station (it cannot set one it does
\* not have); sent: the response is handed to the driver.
handle_assoc(a, f, reassoc, dont_auth, nonerp, added, sent) ==
    LET s0  == sta[a]
        aid == hostapd_get_aid(s0)
    IN  /\ a \in known /\ "AUTH" \in s0.flags
        /\ ~RepeatedAssoc(s0, f, reassoc)
        /\ ~Refused(dont_auth, TRUE) /\ aid > 0
        /\ (s0.added_unassoc /\ drv[a] = "none") => ~added
        /\ Put(a, [HandledRequest(s0, f, reassoc) EXCEPT
                      !.aid = aid,
                      !.nonerp_set = @ \/ nonerp,
                      !.flags = @ \cup {"ASSOC_REQ_OK"},
                      !.timeout_next = "NULLFUNC",
                      !.added_unassoc = FALSE],
               IF added /\ sent THEN "assoc" ELSE "none", timer[a])
        /\ sta_aid' = sta_aid \cup {aid}
        /\ num_sta_non_erp' = IF CountsNonErp(s0, nonerp)
                              THEN num_sta_non_erp + 1 ELSE num_sta_non_erp
        /\ \E q \in IF sent THEN Sent(tx[a], AssocResp(added)) ELSE {tx[a]} :
               tx' = [tx EXCEPT ![a] = q]
        /\ granted' = IF dont_auth THEN granted ELSE granted \cup {a}
        /\ UNCHANGED <<known, num_sta, admitted>>

-----------------------------------------------------------------------------
(* Frames by which the station leaves. *)

\* Mutant: the port stays authorized.
DisassocClears_Authorized == {"ASSOC", "ASSOC_REQ_OK"}

DisassocClears == {"AUTHORIZED", "ASSOC", "ASSOC_REQ_OK"}

AfterDisassoc(timers) == Reschedule(timers, "ap_handle_timer")

\* The report to the controller, which the DISASSOC case makes when
\* enabled_msg_reassociation is set, has no answer and changes no state.
handle_disassoc(a) ==
    LET s    == sta[a]
        soon == s.timeout_next \in {"NULLFUNC", "DISASSOC"}
    IN  /\ a \in known
        /\ Put(a, [s EXCEPT !.flags = @ \ DisassocClears,
                            !.last_seq_ctrl = 0,
                            !.added_unassoc = FALSE,
                            !.timeout_next = IF soon THEN "DEAUTH" ELSE @],
               "none",
               IF soon THEN AfterDisassoc(timer[a]) ELSE timer[a])
        /\ SameTable
        /\ UNCHANGED <<tx, ghosts>>

\* Also hostapd_notif_disassoc, the driver's own report.
handle_deauth(a) ==
    /\ a \in known
    /\ ap_free_sta(a)
    /\ UNCHANGED <<tx, ghosts>>

-----------------------------------------------------------------------------
(* TX status of the frames the AP sent: ieee802_11_mgmt_cb. *)

Reported(a, stype) == tx[a] # <<>> /\ Head(tx[a]).stype = stype

Consume(a) == tx' = [tx EXCEPT ![a] = Tail(@)]

\* The callbacks look the station up again: it may be gone by now.
mgmt_cb_not_found(a) ==
    /\ tx[a] # <<>> /\ a \notin known
    /\ Consume(a)
    /\ UNCHANGED <<known, sta, drv, timer, sta_aid, num_sta,
                   num_sta_non_erp, ghosts>>

handle_auth_cb(a, ok) ==
    LET s   == sta[a]
        status == Head(tx[a]).ok
        undo == ~status /\ s.added_unassoc
    IN  /\ a \in known /\ Reported(a, "auth")
        /\ Consume(a)
        /\ Put(a, [s EXCEPT !.flags = IF ok /\ status THEN @ \cup {"AUTH"}
                                                      ELSE @,
                            !.added_unassoc = @ /\ ~undo],
               IF undo THEN "none" ELSE drv[a], timer[a])
        /\ SameTable
        /\ UNCHANGED ghosts

\* The response was not acknowledged, or it was a refusal.
handle_assoc_cb_failed(a, ok) ==
    LET s == sta[a]
        status == Head(tx[a]).ok
    IN  /\ a \in known /\ Reported(a, "assoc_resp")
        /\ ~(ok /\ status)
        /\ Consume(a)
        /\ Put(a, IF ok THEN s ELSE [s EXCEPT !.flags = @ \ {"ASSOC_REQ_OK"}],
               IF ~ok /\ status THEN "none" ELSE drv[a], timer[a])
        /\ SameTable
        /\ UNCHANGED ghosts

Completes(ok, status) == ok /\ status

\* hostapd_new_assoc_sta: the disconnect timeouts are cancelled, their
\* PENDING flags stay.
hostapd_new_assoc_sta(timers) ==
    Reschedule(Cancel(Cancel(timers, "ap_sta_deauth_cb_timeout"),
                      "ap_sta_disassoc_cb_timeout"), "ap_handle_timer")

\* The acknowledged success.  bound: ap_sta_bind_vlan works, which it cannot
\* for a station the driver has lost; when it fails the handler stops there.
handle_assoc_cb(a, ok, bound) ==
    /\ a \in known /\ Reported(a, "assoc_resp")
    /\ Completes(ok, Head(tx[a]).ok)
    /\ drv[a] = "none" => ~bound
    /\ Consume(a)
    /\ Put(a, [sta[a] EXCEPT !.flags = @ \cup {"ASSOC", "AUTHORIZED"}],
           drv[a],
           IF bound THEN hostapd_new_assoc_sta(timer[a]) ELSE timer[a])
    /\ SameTable
    /\ UNCHANGED ghosts

\* ap_sta_remove on behalf of a disconnect callback c with its flag and
\* registered timeouts t; the TX report also clears the flag.
ap_sta_remove(a, flags, timers) ==
    Put(a, [sta[a] EXCEPT !.flags = flags, !.added_unassoc = FALSE],
        "none", timers)

\* "Ignore deauth cb for test frame" unless the flag is set.
handle_disconnect_cb(a, stype, flag, t) ==
    /\ a \in known /\ Reported(a, stype)
    /\ Consume(a)
    /\ IF flag \in sta[a].flags
       THEN ap_sta_remove(a, sta[a].flags \ {flag}, Cancel(timer[a], t))
       ELSE UNCHANGED <<sta, drv, timer>>
    /\ SameTable
    /\ UNCHANGED ghosts

handle_deauth_cb(a) ==
    handle_disconnect_cb(a, "deauth", "PENDING_DEAUTH_CB",
                         "ap_sta_deauth_cb_timeout")

handle_disassoc_cb(a) ==
    handle_disconnect_cb(a, "disassoc", "PENDING_DISASSOC_CB",
                         "ap_sta_disassoc_cb_timeout")

\* The poll that ap_handle_timer sent was acknowledged.
hostapd_client_poll_ok(a) ==
    /\ a \in known /\ "PENDING_POLL" \in sta[a].flags
    /\ Put(a, [sta[a] EXCEPT !.flags = @ \ {"PENDING_POLL"}], drv[a],
           timer[a])
    /\ SameTable
    /\ UNCHANGED <<tx, ghosts>>

-----------------------------------------------------------------------------
(* Disconnection by the AP: control interface, RADIUS DAS, low ACK rate. *)

DeauthClears == {"AUTH", "ASSOC", "ASSOC_REQ_OK", "AUTHORIZED"}

\* Common to ap_sta_deauthenticate and ap_sta_disassociate.  With "tx=0" on
\* the command line the driver entry goes at once and no frame is sent.
Disconnect(a, silently, frame, clears, flag, next, cb) ==
    /\ a \in known
    /\ Put(a, [sta[a] EXCEPT !.flags = (@ \ clears) \cup {flag},
                             !.last_seq_ctrl = 0,
                             !.timeout_next = next],
           IF silently THEN "none" ELSE drv[a],
           Reschedule(Reschedule(timer[a], "ap_handle_timer"), cb))
    /\ \E q \in IF silently THEN {tx[a]} ELSE Sent(tx[a], frame) :
           tx' = [tx EXCEPT ![a] = q]
    /\ SameTable
    /\ UNCHANGED ghosts

ap_sta_deauthenticate(a, silently) ==
    Disconnect(a, silently, Deauth, DeauthClears, "PENDING_DEAUTH_CB",
               "REMOVE", "ap_sta_deauth_cb_timeout")

ap_sta_disassociate(a, silently) ==
    Disconnect(a, silently, Disassoc, {"ASSOC", "ASSOC_REQ_OK", "AUTHORIZED"},
               "PENDING_DISASSOC_CB", "DEAUTH", "ap_sta_disassoc_cb_timeout")

\* A deauthentication to the broadcast address frees every station.
hostapd_free_stas ==
    /\ known # {}
    /\ known' = {}
    /\ sta' = [a \in Addr |-> NewSta]
    /\ drv' = [a \in Addr |-> "none"]
    /\ timer' = [a \in Addr |-> NoTimers]
    /\ sta_aid' = sta_aid \ {sta[a].aid : a \in known}
    /\ num_sta' = num_sta - Cardinality(known)
    /\ num_sta_non_erp' = num_sta_non_erp
                          - Cardinality({a \in known : sta[a].nonerp_set})
    /\ UNCHANGED <<tx, ghosts>>

\* The two callbacks when no TX report came: the flag stays set.
CbTimeout(a, t) ==
    /\ timer[a][t] > 0
    /\ ap_sta_remove(a, sta[a].flags, [timer[a] EXCEPT ![t] = @ - 1])
    /\ SameTable
    /\ UNCHANGED <<tx, ghosts>>

ap_sta_deauth_cb_timeout(a) == CbTimeout(a, "ap_sta_deauth_cb_timeout")

ap_sta_disassoc_cb_timeout(a) == CbTimeout(a, "ap_sta_disassoc_cb_timeout")

-----------------------------------------------------------------------------
(* The per-station timers. *)

\* What hostapd_drv_get_inact_sec can answer: an error, no such station, or
\* how long the station has been silent.
Inactivity(a) ==
    CASE ~(/\ "ASSOC" \in sta[a].flags
           /\ sta[a].timeout_next \in {"NULLFUNC", "DISASSOC"}) -> {"not_asked"}
      [] OTHER -> IF drv[a] = "none" THEN {"ENOENT"}
                  ELSE {"unknown", "active", "inactive"}

\* timeout_next when the timer has looked at the inactivity answer.
AfterQuery(next, inact) ==
    CASE inact = "ENOENT" -> "DISASSOC"
      [] inact = "active" -> "NULLFUNC"
      [] inact = "inactive" /\ skip_inactivity_poll -> "DISASSOC"
      [] OTHER -> next

\* "Station has ACKed data poll".
PollAcked(s, next, inact) ==
    /\ inact \notin {"ENOENT", "not_asked"}
    /\ next = "DISASSOC"
    /\ "PENDING_POLL" \notin s.flags
    /\ ~skip_inactivity_poll

\* Mutant: a station that lost its driver entry is only looked at again.
TriesAgain_LostEntry(acked, inact) ==
    acked \/ inact \in {"unknown", "active", "ENOENT"}

TriesAgain(acked, inact) == acked \/ inact \in {"unknown", "active"}

\* Mutant: after a poll the timer is left in its first phase.
AfterPoll_Same == "NULLFUNC"

AfterPoll == "DISASSOC"

ap_handle_timer(a, inact) ==
    LET s     == sta[a]
        next1 == AfterQuery(s.timeout_next, inact)
        acked == PollAcked(s, next1, inact)
        next  == IF acked THEN "NULLFUNC" ELSE next1
        again == TriesAgain(acked, inact)
        polls == next = "NULLFUNC" /\ "ASSOC" \in s.flags
        fired == [timer[a] EXCEPT !["ap_handle_timer"] = @ - 1]
        Keep(s1) == /\ Put(a, s1, drv[a], Register(fired, "ap_handle_timer"))
                    /\ SameTable
        Send(f)  == \E q \in Sent(tx[a], f) : tx' = [tx EXCEPT ![a] = q]
    IN  /\ timer[a]["ap_handle_timer"] > 0
        /\ inact \in Inactivity(a)
        /\ UNCHANGED ghosts
        /\ \/ /\ s.timeout_next = "REMOVE"
              /\ ap_free_sta(a)
              /\ UNCHANGED tx
           \/ /\ s.timeout_next # "REMOVE" /\ again
              /\ Keep([s EXCEPT !.timeout_next = next])
              /\ UNCHANGED tx
           \/ /\ next = "NULLFUNC" /\ ~again /\ polls
              /\ Keep([s EXCEPT !.timeout_next = AfterPoll,
                                !.flags = @ \cup {"PENDING_POLL"}])
              /\ UNCHANGED tx
           \/ /\ next = "NULLFUNC" /\ ~again /\ ~polls
              /\ Keep([s EXCEPT !.timeout_next = "DISASSOC"])
              /\ Send(Disassoc)
           \/ /\ next = "DISASSOC" /\ ~again
              /\ Keep([s EXCEPT !.timeout_next = "DEAUTH",
                                !.flags = @ \ {"AUTHORIZED", "ASSOC"}])
              /\ Send(Disassoc)
           \/ /\ next = "DEAUTH" /\ ~again
              /\ ap_free_sta(a)
              /\ Send(Deauth)

\* The session ends only for an authenticated station; otherwise the timer
\* has fired for nothing.
ap_handle_session_timer(a) ==
    /\ timer[a]["ap_handle_session_timer"] > 0
    /\ IF "AUTH" \in sta[a].flags
       THEN /\ ap_free_sta(a)
            /\ \E q \in Sent(tx[a], Deauth) : tx' = [tx EXCEPT ![a] = q]
       ELSE /\ Put(a, sta[a], drv[a],
                   [timer[a] EXCEPT !["ap_handle_session_timer"] = @ - 1])
            /\ SameTable
            /\ UNCHANGED tx
    /\ UNCHANGED ghosts

-----------------------------------------------------------------------------
Init ==
    /\ known = {}
    /\ sta = [a \in Addr |-> NewSta]
    /\ drv = [a \in Addr |-> "none"]
    /\ timer = [a \in Addr |-> NoTimers]
    /\ tx = [a \in Addr |-> <<>>]
    /\ sta_aid = {}
    /\ num_sta = 0
    /\ num_sta_non_erp = 0
    /\ admitted = {}
    /\ granted = {}

Frame == [seq : SeqCtrl, retry : BOOLEAN]

\* Frames from the station: ieee802_11_mgmt, Ethanol branch.
Receive(a) ==
    \/ handle_auth_refused(a)
    \/ \E dont_auth \in Denied(enabled_msg_authorization), f \in Frame,
          vlan, added, sent, session \in BOOLEAN :
           handle_auth(a, f, dont_auth, vlan, added, sent, session)
    \/ handle_assoc_class2(a)
    \/ \E reassoc \in BOOLEAN :
       \E dont_auth \in Denied(AssocFlagOf(reassoc)), f \in Frame,
          sent \in BOOLEAN :
          \/ \E checks \in BOOLEAN :
                handle_assoc_refused(a, f, reassoc, dont_auth, checks, sent)
          \/ \E nonerp, added \in BOOLEAN :
                handle_assoc(a, f, reassoc, dont_auth, nonerp, added, sent)
    \/ handle_disassoc(a)
    \/ handle_deauth(a)

TxStatus(a, ok) ==
    \/ handle_auth_cb(a, ok)
    \/ handle_assoc_cb_failed(a, ok)
    \/ \E bound \in BOOLEAN : handle_assoc_cb(a, ok, bound)

TxStatusOfDisconnect(a) ==
    \/ mgmt_cb_not_found(a)
    \/ handle_deauth_cb(a)
    \/ handle_disassoc_cb(a)

Administer(a) ==
    \E silently \in BOOLEAN :
        \/ "deauthenticate" \in Command /\ ap_sta_deauthenticate(a, silently)
        \/ "disassociate" \in Command /\ ap_sta_disassociate(a, silently)

Answer == {"not_asked", "ENOENT", "unknown", "active", "inactive"}

Timeout(a) ==
    \/ \E inact \in Answer : ap_handle_timer(a, inact)
    \/ ap_handle_session_timer(a)
    \/ ap_sta_deauth_cb_timeout(a)
    \/ ap_sta_disassoc_cb_timeout(a)

Next ==
    \/ \E a \in Addr : \/ Receive(a)
                       \/ \E ok \in BOOLEAN : TxStatus(a, ok)
                       \/ TxStatusOfDisconnect(a)
                       \/ hostapd_client_poll_ok(a)
                       \/ Administer(a)
                       \/ Timeout(a)
    \/ hostapd_free_stas

Spec == Init /\ [][Next]_vars

\* The event loop runs every timeout that has expired.
FairSpec ==
    Spec /\ \A a \in Addr :
              WF_vars(\E inact \in Answer : ap_handle_timer(a, inact))

-----------------------------------------------------------------------------
(* Properties. *)

\* Every variable keeps the type of its C field; counters do not wrap.
TypeOK ==
    /\ known \subseteq Addr
    /\ sta \in [Addr -> Sta]
    /\ drv \in [Addr -> {"none", "unassoc", "assoc"}]
    /\ timer \in [Addr -> [Timer -> Nat]]
    /\ tx \in [Addr -> Seq(TxFrame)]
    /\ sta_aid \subseteq 1..MaxAid
    /\ num_sta \in Nat
    /\ num_sta_non_erp \in Nat
    /\ admitted \subseteq Addr
    /\ granted \subseteq Addr

\* "get a unique AID": no two stations share one, and the bitmap holds
\* exactly the AIDs of the stations in the table.
AidsUnique ==
    /\ \A i \in 1..MaxAid :
          i \in sta_aid <=> \E a \in known : sta[a].aid = i
    /\ \A a, b \in known : sta[a].aid = sta[b].aid /\ sta[a].aid # 0 => a = b

\* The counters that decide admission and the protection bits of the beacon
\* agree with the table after any sequence of associations and removals.
StationsCounted ==
    /\ num_sta = Cardinality(known)
    /\ num_sta <= max_num_sta
    /\ num_sta_non_erp = Cardinality({a \in known : sta[a].nonerp_set})

\* No timeout of a freed station is left in the event loop, every station
\* has exactly one inactivity timer (so it is neither leaked nor aged twice)
\* and a disconnect callback is only pending while its TX report is awaited.
TimersFollowStation ==
    /\ \A a \in Addr \ known : timer[a] = NoTimers
    /\ \A a \in known :
          /\ timer[a]["ap_handle_timer"] = 1
          /\ timer[a]["ap_sta_deauth_cb_timeout"] > 0
                => "PENDING_DEAUTH_CB" \in sta[a].flags
          /\ timer[a]["ap_sta_disassoc_cb_timeout"] > 0
                => "PENDING_DISASSOC_CB" \in sta[a].flags

\* The driver never keeps a station that hostapd has forgotten.
DriverEntriesKnown == \A a \in Addr : drv[a] # "none" => a \in known

\* The port of a station is only open while it is associated, although the
\* two flags are cleared in seven different places.
AuthorizedIsAssociated ==
    \A a \in known :
        "AUTHORIZED" \in sta[a].flags => "ASSOC" \in sta[a].flags

\* A station whose authentications the controller all denied never gets an
\* entry, one whose associations it all denied is never associated: not
\* through a late or a mistaken TX report either.
ControllerDecides ==
    /\ known \subseteq admitted
    /\ \A a \in known : "ASSOC" \in sta[a].flags => a \in granted

\* An entry must not be "associated and not authenticated".
AssociatedIsAuthenticated ==
    \A a \in known : "ASSOC" \in sta[a].flags => "AUTH" \in sta[a].flags

\* A station that is associated without a driver entry (a disconnect timeout
\* or an unacknowledged response removed it) does not stay so.
LostEntryResolved ==
    \A a \in Addr :
        ("ASSOC" \in sta[a].flags /\ drv[a] = "none")
            ~> ("ASSOC" \notin sta[a].flags \/ drv[a] # "none")

\* What happens to a station that sends nothing, acknowledges nothing and is
\* not the subject of a command, apart from the steps of other stations.
Quiet(a) ==
    \/ UNCHANGED <<sta[a], drv[a], tx[a], timer[a]>>
    \/ \E inact \in Answer \ {"active", "unknown"} : ap_handle_timer(a, inact)
    \/ ap_handle_session_timer(a)
    \/ ap_sta_deauth_cb_timeout(a)
    \/ ap_sta_disassoc_cb_timeout(a)
    \/ TxStatus(a, FALSE)
    \/ TxStatusOfDisconnect(a)
    \/ hostapd_free_stas

\* A station that goes silent for good is removed, from whatever state the
\* frames, reports and timers before have left it in.
SilentStationRemoved ==
    \A a \in Addr : <>[][Quiet(a)]_vars => <>[](a \notin known)
=============================================================================
