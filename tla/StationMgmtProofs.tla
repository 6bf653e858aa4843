-------------------------- MODULE StationMgmtProofs --------------------------
(* Theorems about station management, for every set of addresses, limit of  *)
(* stations, AID space and configuration.                                   *)
EXTENDS StationMgmt, FiniteSetTheorems, WellFoundedInduction, TLAPS

\* An address without an entry is in the initial state of an entry.
FreedIsNew == \A a \in Addr \ known : sta[a] = NewSta

\* A success on its way to the station is one the controller did not deny:
\* the TX report will complete the association without asking again.
GrantsInFlight ==
    \A a \in Addr : \A i \in 1..Len(tx[a]) :
        tx[a][i].stype = "assoc_resp" /\ tx[a][i].ok => a \in granted

\* The inductive invariant.
IInv ==
    /\ TypeOK
    /\ IsFiniteSet(known)
    /\ StationsCounted
    /\ AidsUnique
    /\ TimersFollowStation
    /\ DriverEntriesKnown
    /\ AuthorizedIsAssociated
    /\ ControllerDecides
    /\ FreedIsNew
    /\ GrantsInFlight

-----------------------------------------------------------------------------
(* Helpers. *)

\* What an entry in use satisfies by itself.
GoodEntry(a, s, d, t) ==
    /\ s \in Sta
    /\ d \in {"none", "unassoc", "assoc"}
    /\ t \in [Timer -> Nat]
    /\ t["ap_handle_timer"] = 1
    /\ t["ap_sta_deauth_cb_timeout"] > 0 => "PENDING_DEAUTH_CB" \in s.flags
    /\ t["ap_sta_disassoc_cb_timeout"] > 0 => "PENDING_DISASSOC_CB" \in s.flags
    /\ "AUTHORIZED" \in s.flags => "ASSOC" \in s.flags
    /\ "ASSOC" \in s.flags => a \in granted

\* What every handler may do to the queue of frames of one station.
GoodQueue(a, q, grants) ==
    /\ q \in Seq(TxFrame)
    /\ \A i \in 1..Len(q) :
          q[i].stype = "assoc_resp" /\ q[i].ok => a \in grants

\* The entries of stations that are in the table are good.
LEMMA EntryOf ==
    ASSUME IInv, NEW a \in known
    PROVE  /\ a \in Addr
           /\ GoodEntry(a, sta[a], drv[a], timer[a])
  BY DEF IInv, TypeOK, GoodEntry, TimersFollowStation, AuthorizedIsAssociated,
         ControllerDecides

\* The queues of TX reports are good.
LEMMA QueueOf ==
    ASSUME IInv, NEW a \in Addr
    PROVE  GoodQueue(a, tx[a], granted)
  BY DEF IInv, TypeOK, GoodQueue, GrantsInFlight

\* Sending appends at most the frame.
LEMMA SentGood ==
    ASSUME NEW a, NEW grants, NEW q, GoodQueue(a, q, grants),
           NEW f \in TxFrame, f.stype = "assoc_resp" /\ f.ok => a \in grants,
           NEW p \in Sent(q, f)
    PROVE  GoodQueue(a, p, grants)
<1>1. q \in Seq(TxFrame)
  BY DEF GoodQueue
<1>2. CASE p = q
  BY <1>2
<1>3. CASE p = Append(q, f)
  <2>1. p \in Seq(TxFrame) /\ Len(p) = Len(q) + 1
    BY <1>1, <1>3
  <2>2. \A i \in 1..Len(p) : p[i] = IF i <= Len(q) THEN q[i] ELSE f
    BY <1>1, <1>3
  <2> QED
    BY <1>1, <2>1, <2>2 DEF GoodQueue
<1> QED
  BY <1>2, <1>3 DEF Sent

\* A TX report takes the first frame off the queue.
LEMMA TailGood ==
    ASSUME NEW a, NEW grants, NEW q, GoodQueue(a, q, grants), q # <<>>
    PROVE  /\ GoodQueue(a, Tail(q), grants)
           /\ Head(q) \in TxFrame
           /\ Head(q).stype = "assoc_resp" /\ Head(q).ok => a \in grants
<1>1. q \in Seq(TxFrame) /\ Len(q) >= 1
  BY DEF GoodQueue
<1>2. Tail(q) \in Seq(TxFrame) /\ Len(Tail(q)) = Len(q) - 1
  BY <1>1
<1>3. \A i \in 1..Len(Tail(q)) : i + 1 \in 1..Len(q) /\ Tail(q)[i] = q[i + 1]
  BY <1>1, <1>2
<1>4. Head(q) = q[1] /\ 1 \in 1..Len(q)
  BY <1>1
<1>5. q[1] \in TxFrame
  BY <1>1
<1> QED
  BY <1>2, <1>3, <1>4, <1>5 DEF GoodQueue

\* Replacing one queue by a good one keeps the queues good.
LEMMA QueuesKept ==
    ASSUME IInv, NEW a \in Addr, NEW q, NEW grants,
           granted \subseteq grants, GoodQueue(a, q, grants),
           tx' = [tx EXCEPT ![a] = q], granted' = grants
    PROVE  /\ (tx \in [Addr -> Seq(TxFrame)])'
           /\ GrantsInFlight'
<1>1. \A b \in Addr : tx'[b] = IF b = a THEN q ELSE tx[b]
  BY DEF IInv, TypeOK
<1>2. tx' \in [Addr -> Seq(TxFrame)]
  BY <1>1 DEF IInv, TypeOK, GoodQueue
<1>3. ASSUME NEW b \in Addr, NEW i \in 1..Len(tx'[b]),
             tx'[b][i].stype = "assoc_resp" /\ tx'[b][i].ok
      PROVE  b \in grants
  BY <1>1, <1>3 DEF IInv, GoodQueue, GrantsInFlight
<1> QED
  BY <1>2, <1>3 DEF GrantsInFlight

-----------------------------------------------------------------------------
(* The kinds of step. *)

\* A step that changes one entry of the table in place.
LEMMA PutKeeps ==
    ASSUME IInv, NEW a \in known, NEW s, NEW d, NEW t,
           GoodEntry(a, s, d, t),
           s.aid = sta[a].aid, s.nonerp_set = sta[a].nonerp_set,
           Put(a, s, d, t), SameTable, UNCHANGED ghosts,
           (tx \in [Addr -> Seq(TxFrame)])', GrantsInFlight'
    PROVE  IInv'
<1>1. a \in Addr /\ known \subseteq Addr
  BY DEF IInv, TypeOK
<1>2. \A b \in Addr : /\ sta'[b] = IF b = a THEN s ELSE sta[b]
                      /\ drv'[b] = IF b = a THEN d ELSE drv[b]
                      /\ timer'[b] = IF b = a THEN t ELSE timer[b]
  BY <1>1 DEF Put, IInv, TypeOK
<1>3. UNCHANGED <<known, sta_aid, num_sta, num_sta_non_erp, admitted, granted>>
  BY DEF SameTable, ghosts
<1>4. TypeOK'
  BY <1>1, <1>3 DEF IInv, TypeOK, Put, GoodEntry
<1>5. \A b \in known : sta'[b].aid = sta[b].aid
                       /\ sta'[b].nonerp_set = sta[b].nonerp_set
  BY <1>1, <1>2
<1>6. IsFiniteSet(known)'
  BY <1>3 DEF IInv
<1>7. StationsCounted'
  <2>1. {b \in known' : sta'[b].nonerp_set} = {b \in known : sta[b].nonerp_set}
    BY <1>3, <1>5
  <2> QED
    BY <1>3, <2>1 DEF IInv, StationsCounted
<1>8. AidsUnique'
  BY <1>3, <1>5 DEF IInv, AidsUnique
<1>9. TimersFollowStation'
  BY <1>1, <1>2, <1>3 DEF IInv, TimersFollowStation, GoodEntry
<1>10. DriverEntriesKnown'
  BY <1>1, <1>2, <1>3 DEF IInv, DriverEntriesKnown
<1>11. AuthorizedIsAssociated'
  BY <1>1, <1>2, <1>3 DEF IInv, AuthorizedIsAssociated, GoodEntry
<1>12. ControllerDecides'
  BY <1>1, <1>2, <1>3 DEF IInv, ControllerDecides, GoodEntry
<1>13. FreedIsNew'
  BY <1>1, <1>2, <1>3 DEF IInv, FreedIsNew
<1> QED
  BY <1>4, <1>6, <1>7, <1>8, <1>9, <1>10, <1>11, <1>12, <1>13 DEF IInv

\* A step that frees one entry.
LEMMA FreeKeeps ==
    ASSUME IInv, NEW a \in known, ap_free_sta(a), UNCHANGED ghosts,
           (tx \in [Addr -> Seq(TxFrame)])', GrantsInFlight'
    PROVE  IInv'
<1>1. a \in Addr /\ known \subseteq Addr
  BY DEF IInv, TypeOK
<1>2. \A b \in Addr :
          /\ sta'[b] = IF b = a THEN NewSta ELSE sta[b]
          /\ drv'[b] = IF b = a THEN "none" ELSE drv[b]
          /\ timer'[b] = IF b = a THEN NoTimers ELSE timer[b]
  BY <1>1 DEF ap_free_sta, DriverWithout, TimersWithout, IInv, TypeOK
<1>3. /\ known' = known \ {a}
      /\ sta_aid' = sta_aid \ {sta[a].aid}
      /\ num_sta' = num_sta - 1
      /\ UNCHANGED <<admitted, granted>>
  BY DEF ap_free_sta, AidsWithout, ghosts
<1>4. IsFiniteSet(known) /\ Cardinality(known) \in Nat
  BY FS_CardinalityType DEF IInv
<1>5. IsFiniteSet(known')
  BY <1>3, <1>4, FS_RemoveElement
<1>6. Cardinality(known') = Cardinality(known) - 1
  BY <1>3, <1>4, FS_RemoveElement
<1>7. Cardinality(known') \in Nat
  BY <1>5, FS_CardinalityType
<1> DEFINE N == {b \in known : sta[b].nonerp_set}
           M == {b \in known' : sta'[b].nonerp_set}
<1>8. IsFiniteSet(N) /\ Cardinality(N) \in Nat
  BY <1>4, FS_Subset, FS_CardinalityType
<1>9. IsFiniteSet(M) /\ Cardinality(M) \in Nat
  BY <1>5, FS_Subset, FS_CardinalityType
<1>10. M = N \ {a}
  BY <1>1, <1>2, <1>3
<1>11. Cardinality(M) = IF a \in N THEN Cardinality(N) - 1 ELSE Cardinality(N)
  BY <1>8, <1>10, FS_RemoveElement
<1>12. num_sta_non_erp' = Cardinality(M)
  BY <1>11 DEF ap_free_sta, IInv, StationsCounted
<1> HIDE DEF N, M
<1>13. StationsCounted'
  <2>1. num_sta' = Cardinality(known')
    BY <1>3, <1>6 DEF IInv, StationsCounted
  <2>2. num_sta' <= max_num_sta
    BY <1>3, <2>1, <1>7, StationConstants DEF IInv, StationsCounted, TypeOK
  <2> QED
    BY <2>1, <2>2, <1>12 DEF StationsCounted, M
<1>14. TypeOK'
  <2>1. NewSta \in Sta /\ NoTimers \in [Timer -> Nat]
    BY StationConstants DEF NewSta, Sta, Flag, TimeoutNext, Subtype, NoTimers
  <2>2. sta' \in [Addr -> Sta] /\ drv' \in [Addr -> {"none", "unassoc", "assoc"}]
        /\ timer' \in [Addr -> [Timer -> Nat]]
    BY <1>1, <2>1 DEF ap_free_sta, DriverWithout, TimersWithout, IInv, TypeOK
  <2>3. num_sta' \in Nat /\ num_sta_non_erp' \in Nat
    BY <1>7, <1>9, <1>12, <1>13 DEF StationsCounted
  <2> QED
    BY <1>3, <2>2, <2>3 DEF IInv, TypeOK
<1>15. AidsUnique'
  <2>1. \A b \in known' : b \in known /\ b # a /\ sta'[b] = sta[b]
    BY <1>1, <1>2, <1>3
  <2>2. ASSUME NEW i \in 1..MaxAid
        PROVE  i \in sta_aid' <=> \E b \in known' : sta'[b].aid = i
    <3>1. i \in sta_aid <=> \E b \in known : sta[b].aid = i
      BY DEF IInv, AidsUnique
    <3>2. ASSUME i \in sta_aid' PROVE \E b \in known' : sta'[b].aid = i
      <4>1. i # sta[a].aid /\ \E b \in known : sta[b].aid = i
        BY <1>3, <3>1, <3>2
      <4>2. PICK b \in known : sta[b].aid = i
        BY <4>1
      <4>3. b \in known'
        BY <1>3, <4>1, <4>2
      <4> QED
        BY <4>2, <4>3, <2>1
    <3>3. ASSUME NEW b \in known', sta'[b].aid = i PROVE i \in sta_aid'
      <4>1. b \in known /\ b # a /\ sta[b].aid = i
        BY <2>1, <3>3
      <4>2. sta[a].aid # i
        BY <4>1 DEF IInv, AidsUnique
      <4> QED
        BY <1>3, <3>1, <4>1, <4>2
    <3> QED
      BY <3>2, <3>3
  <2>3. \A b, c \in known' : sta'[b].aid = sta'[c].aid /\ sta'[b].aid # 0
                              => b = c
    BY <2>1 DEF IInv, AidsUnique
  <2> QED
    BY <2>2, <2>3 DEF AidsUnique
<1>16. TimersFollowStation'
  BY <1>1, <1>2, <1>3 DEF IInv, TimersFollowStation
<1>17. DriverEntriesKnown'
  BY <1>1, <1>2, <1>3 DEF IInv, DriverEntriesKnown
<1>18. AuthorizedIsAssociated'
  BY <1>1, <1>2, <1>3 DEF IInv, AuthorizedIsAssociated
<1>19. ControllerDecides'
  BY <1>1, <1>2, <1>3 DEF IInv, ControllerDecides
<1>20. FreedIsNew'
  BY <1>1, <1>2, <1>3 DEF IInv, FreedIsNew
<1> QED
  BY <1>5, <1>13, <1>14, <1>15, <1>16, <1>17, <1>18, <1>19, <1>20 DEF IInv

-----------------------------------------------------------------------------
(* What the actions do to the queue of TX reports and to the timers. *)

\* Queues that do not change stay good.
LEMMA TxSame ==
    ASSUME IInv, UNCHANGED <<tx, granted>>
    PROVE  (tx \in [Addr -> Seq(TxFrame)])' /\ GrantsInFlight'
  BY DEF IInv, TypeOK, GrantsInFlight

\* Sending a frame keeps the queues good, if a successful association
\* response is only sent to a station that the controller has let pass.
LEMMA TxSent ==
    ASSUME IInv, NEW a \in Addr, NEW f \in TxFrame,
           f.stype = "assoc_resp" /\ f.ok => a \in granted',
           granted \subseteq granted',
           \E q \in Sent(tx[a], f) : tx' = [tx EXCEPT ![a] = q]
    PROVE  (tx \in [Addr -> Seq(TxFrame)])' /\ GrantsInFlight'
<1>1. PICK q \in Sent(tx[a], f) : tx' = [tx EXCEPT ![a] = q]
  OBVIOUS
<1>2. GoodQueue(a, tx[a], granted')
  BY QueueOf DEF GoodQueue
<1>3. GoodQueue(a, q, granted')
  BY <1>2, SentGood
<1> QED
  BY <1>1, <1>3, QueuesKept

\* A TX report keeps the queues good, and is about a granted station when it
\* completes an association.
LEMMA TxConsumed ==
    ASSUME IInv, NEW a \in Addr, tx[a] # <<>>, Consume(a), granted' = granted
    PROVE  /\ (tx \in [Addr -> Seq(TxFrame)])' /\ GrantsInFlight'
           /\ Head(tx[a]) \in TxFrame
           /\ Head(tx[a]).stype = "assoc_resp" /\ Head(tx[a]).ok => a \in granted
<1>1. /\ GoodQueue(a, Tail(tx[a]), granted)
      /\ Head(tx[a]) \in TxFrame
      /\ Head(tx[a]).stype = "assoc_resp" /\ Head(tx[a]).ok => a \in granted
  BY QueueOf, TailGood
<1>2. tx' = [tx EXCEPT ![a] = Tail(tx[a])]
  BY DEF Consume
<1> QED
  BY <1>1, <1>2, QueuesKept

\* Cancelling and registering change one timeout.
LEMMA TimerOps ==
    ASSUME NEW t \in [Timer -> Nat], NEW x \in Timer
    PROVE  /\ Cancel(t, x) \in [Timer -> Nat]
           /\ Register(t, x) \in [Timer -> Nat]
           /\ Reschedule(t, x) \in [Timer -> Nat]
           /\ \A y \in Timer :
                /\ Cancel(t, x)[y] = IF y = x THEN 0 ELSE t[y]
                /\ Register(t, x)[y] = IF y = x THEN t[y] + 1 ELSE t[y]
                /\ Reschedule(t, x)[y] = IF y = x THEN 1 ELSE t[y]
  BY DEF Cancel, Register, Reschedule

\* The timeouts of a station.
LEMMA TimerNames ==
    /\ "ap_handle_timer" \in Timer
    /\ "ap_handle_session_timer" \in Timer
    /\ "ap_sta_deauth_cb_timeout" \in Timer
    /\ "ap_sta_disassoc_cb_timeout" \in Timer
  BY DEF Timer

\* The frames of the handlers are frames.
LEMMA FramesTyped ==
    /\ Deauth \in TxFrame /\ Disassoc \in TxFrame
    /\ Deauth.stype # "assoc_resp" /\ Disassoc.stype # "assoc_resp"
    /\ \A ok \in BOOLEAN : /\ AuthReply(ok) \in TxFrame
                           /\ AuthReply(ok).stype # "assoc_resp"
                           /\ AssocResp(ok) \in TxFrame
                           /\ AssocResp(ok).ok = ok
  BY DEF Deauth, Disassoc, AuthReply, AssocResp, TxFrame

-----------------------------------------------------------------------------
(* The actions, one lemma each. *)

\* Only the queue of a station changes.
LEMMA OnlyTx ==
    ASSUME IInv, (tx \in [Addr -> Seq(TxFrame)])', GrantsInFlight',
           UNCHANGED <<known, sta, drv, timer, sta_aid, num_sta,
                       num_sta_non_erp, ghosts>>
    PROVE  IInv'
<1>1. UNCHANGED <<admitted, granted>>
  BY DEF ghosts
<1>2. TypeOK'
  BY <1>1 DEF IInv, TypeOK
<1>3. StationsCounted' /\ AidsUnique' /\ TimersFollowStation' /\ FreedIsNew'
  BY DEF IInv, StationsCounted, AidsUnique, TimersFollowStation, FreedIsNew
<1>4. DriverEntriesKnown' /\ AuthorizedIsAssociated' /\ ControllerDecides'
  BY <1>1 DEF IInv, DriverEntriesKnown, AuthorizedIsAssociated, ControllerDecides
<1> QED
  BY <1>2, <1>3, <1>4 DEF IInv

\* A refused authentication and a request before authentication change
\* nothing but the queue of frames.
LEMMA OnlyReplies ==
    ASSUME IInv, NEW a \in Addr,
           handle_auth_refused(a) \/ handle_assoc_class2(a)
    PROVE  IInv'
<1>1. granted' = granted
  BY DEF handle_auth_refused, handle_assoc_class2, ghosts
<1>2. CASE handle_auth_refused(a)
  <2>1. (tx \in [Addr -> Seq(TxFrame)])' /\ GrantsInFlight'
    BY <1>1, <1>2, FramesTyped, TxSent DEF handle_auth_refused
  <2> QED
    BY <1>2, <2>1, OnlyTx DEF handle_auth_refused
<1>3. CASE handle_assoc_class2(a)
  <2>1. (tx \in [Addr -> Seq(TxFrame)])' /\ GrantsInFlight'
    BY <1>1, <1>3, FramesTyped, TxSent DEF handle_assoc_class2
  <2> QED
    BY <1>3, <2>1, OnlyTx DEF handle_assoc_class2
<1> QED
  BY <1>2, <1>3

\* A TX report for a station that is gone changes nothing else.
LEMMA NotFoundKeeps ==
    ASSUME IInv, NEW a \in Addr, mgmt_cb_not_found(a)
    PROVE  IInv'
<1>1. granted' = granted /\ tx[a] # <<>> /\ Consume(a)
  BY DEF mgmt_cb_not_found, ghosts
<1>2. (tx \in [Addr -> Seq(TxFrame)])' /\ GrantsInFlight'
  BY <1>1, TxConsumed
<1> QED
  BY <1>2, OnlyTx DEF mgmt_cb_not_found

\* handle_deauth frees the entry.
LEMMA DeauthFrameKeeps ==
    ASSUME IInv, NEW a \in Addr, handle_deauth(a)
    PROVE  IInv'
<1>1. (tx \in [Addr -> Seq(TxFrame)])' /\ GrantsInFlight'
  BY TxSame DEF handle_deauth, ghosts
<1> QED
  BY <1>1, FreeKeeps DEF handle_deauth

\* handle_disassoc closes the port with the association and reschedules the
\* one inactivity timer.
LEMMA DisassocFrameKeeps ==
    ASSUME IInv, NEW a \in Addr, handle_disassoc(a)
    PROVE  IInv'
<1> DEFINE soon == sta[a].timeout_next \in {"NULLFUNC", "DISASSOC"}
           s == [sta[a] EXCEPT !.flags = @ \ DisassocClears,
                               !.last_seq_ctrl = 0,
                               !.added_unassoc = FALSE,
                               !.timeout_next = IF soon THEN "DEAUTH" ELSE @]
           t == IF soon THEN AfterDisassoc(timer[a]) ELSE timer[a]
<1>1. a \in known /\ Put(a, s, "none", t) /\ SameTable /\ UNCHANGED <<tx, ghosts>>
  BY DEF handle_disassoc
<1>2. (tx \in [Addr -> Seq(TxFrame)])' /\ GrantsInFlight'
  BY <1>1, TxSame DEF ghosts
<1>3. GoodEntry(a, sta[a], drv[a], timer[a])
  BY <1>1, EntryOf
<1>4. t \in [Timer -> Nat] /\ \A y \in Timer : t[y] = timer[a][y]
  BY <1>3, TimerOps, TimerNames DEF GoodEntry, AfterDisassoc
<1>5. /\ s \in Sta /\ s.aid = sta[a].aid /\ s.nonerp_set = sta[a].nonerp_set
      /\ s.flags = sta[a].flags \ DisassocClears
  BY <1>3 DEF GoodEntry, Sta, TimeoutNext
<1> HIDE DEF s, t
<1>6. GoodEntry(a, s, "none", t)
  BY <1>3, <1>4, <1>5, TimerNames DEF GoodEntry, DisassocClears
<1> QED
  BY <1>1, <1>2, <1>5, <1>6, PutKeeps

\* handle_auth_cb only adds AUTH or undoes the driver's entry.
LEMMA AuthCbKeeps ==
    ASSUME IInv, NEW a \in Addr, NEW ok \in BOOLEAN, handle_auth_cb(a, ok)
    PROVE  IInv'
<1> DEFINE status == Head(tx[a]).ok
           undo == ~status /\ sta[a].added_unassoc
           s == [sta[a] EXCEPT !.flags = IF ok /\ status THEN @ \cup {"AUTH"}
                                                         ELSE @,
                               !.added_unassoc = @ /\ ~undo]
           d == IF undo THEN "none" ELSE drv[a]
<1>1. /\ a \in known /\ tx[a] # <<>> /\ Consume(a) /\ Put(a, s, d, timer[a])
      /\ SameTable /\ UNCHANGED ghosts /\ granted' = granted
  BY DEF handle_auth_cb, Reported, ghosts
<1>2. (tx \in [Addr -> Seq(TxFrame)])' /\ GrantsInFlight'
  BY <1>1, TxConsumed
<1>3. GoodEntry(a, sta[a], drv[a], timer[a])
  BY <1>1, EntryOf
<1>4. /\ s \in Sta /\ s.aid = sta[a].aid /\ s.nonerp_set = sta[a].nonerp_set
      /\ s.flags = sta[a].flags \/ s.flags = sta[a].flags \cup {"AUTH"}
      /\ d \in {"none", "unassoc", "assoc"}
  BY <1>3 DEF GoodEntry, Sta, Flag
<1> HIDE DEF s, d
<1>5. GoodEntry(a, s, d, timer[a])
  BY <1>3, <1>4 DEF GoodEntry
<1> QED
  BY <1>1, <1>2, <1>4, <1>5, PutKeeps

\* handle_assoc_cb for a response that was lost or a refusal.
LEMMA AssocCbFailedKeeps ==
    ASSUME IInv, NEW a \in Addr, NEW ok \in BOOLEAN,
           handle_assoc_cb_failed(a, ok)
    PROVE  IInv'
<1> DEFINE status == Head(tx[a]).ok
           s == IF ok THEN sta[a]
                ELSE [sta[a] EXCEPT !.flags = @ \ {"ASSOC_REQ_OK"}]
           d == IF ~ok /\ status THEN "none" ELSE drv[a]
<1>1. /\ a \in known /\ tx[a] # <<>> /\ Consume(a) /\ Put(a, s, d, timer[a])
      /\ SameTable /\ UNCHANGED ghosts /\ granted' = granted
  BY DEF handle_assoc_cb_failed, Reported, ghosts
<1>2. (tx \in [Addr -> Seq(TxFrame)])' /\ GrantsInFlight'
  BY <1>1, TxConsumed
<1>3. GoodEntry(a, sta[a], drv[a], timer[a])
  BY <1>1, EntryOf
<1>4. /\ s \in Sta /\ s.aid = sta[a].aid /\ s.nonerp_set = sta[a].nonerp_set
      /\ s.flags = sta[a].flags \/ s.flags = sta[a].flags \ {"ASSOC_REQ_OK"}
      /\ d \in {"none", "unassoc", "assoc"}
  BY <1>3 DEF GoodEntry, Sta
<1> HIDE DEF s, d
<1>5. GoodEntry(a, s, d, timer[a])
  BY <1>3, <1>4 DEF GoodEntry
<1> QED
  BY <1>1, <1>2, <1>4, <1>5, PutKeeps

\* This is where the grant in flight is needed: the report makes the station
\* an associated one.
LEMMA AssocCbKeeps ==
    ASSUME IInv, NEW a \in Addr, NEW ok \in BOOLEAN, NEW bound \in BOOLEAN,
           handle_assoc_cb(a, ok, bound)
    PROVE  IInv'
<1> DEFINE s == [sta[a] EXCEPT !.flags = @ \cup {"ASSOC", "AUTHORIZED"}]
           t == IF bound THEN hostapd_new_assoc_sta(timer[a]) ELSE timer[a]
<1>1. /\ a \in known /\ tx[a] # <<>> /\ Consume(a) /\ Put(a, s, drv[a], t)
      /\ SameTable /\ UNCHANGED ghosts /\ granted' = granted
      /\ Head(tx[a]).stype = "assoc_resp" /\ Head(tx[a]).ok
  BY DEF handle_assoc_cb, Reported, Completes, ghosts
<1>2. (tx \in [Addr -> Seq(TxFrame)])' /\ GrantsInFlight' /\ a \in granted
  BY <1>1, TxConsumed
<1>3. GoodEntry(a, sta[a], drv[a], timer[a])
  BY <1>1, EntryOf
<1>4. /\ s \in Sta /\ s.aid = sta[a].aid /\ s.nonerp_set = sta[a].nonerp_set
      /\ s.flags = sta[a].flags \cup {"ASSOC", "AUTHORIZED"}
  BY <1>3 DEF GoodEntry, Sta, Flag
<1>5. /\ t \in [Timer -> Nat] /\ t["ap_handle_timer"] = 1
      /\ \A y \in Timer : t[y] > 0 => timer[a][y] > 0
  <2> DEFINE c1 == Cancel(timer[a], "ap_sta_deauth_cb_timeout")
             c2 == Cancel(c1, "ap_sta_disassoc_cb_timeout")
             c3 == Reschedule(c2, "ap_handle_timer")
  <2>1. timer[a] \in [Timer -> Nat] /\ timer[a]["ap_handle_timer"] = 1
    BY <1>3 DEF GoodEntry
  <2>2. c1 \in [Timer -> Nat] /\ \A y \in Timer : c1[y] = 0 \/ c1[y] = timer[a][y]
    BY <2>1, TimerOps, TimerNames
  <2> HIDE DEF c1
  <2>3. c2 \in [Timer -> Nat] /\ \A y \in Timer : c2[y] = 0 \/ c2[y] = timer[a][y]
    BY <2>2, TimerOps, TimerNames
  <2> HIDE DEF c2
  <2>4. /\ c3 \in [Timer -> Nat]
        /\ \A y \in Timer : c3[y] = IF y = "ap_handle_timer" THEN 1 ELSE c2[y]
    BY <2>3, TimerOps, TimerNames
  <2> HIDE DEF c3
  <2>5. t = timer[a] \/ t = c3
    BY DEF hostapd_new_assoc_sta, c1, c2, c3
  <2> HIDE DEF t
  <2> QED
    BY <2>1, <2>3, <2>4, <2>5, TimerNames
<1> HIDE DEF s, t
<1>6. GoodEntry(a, s, drv[a], t)
  BY <1>2, <1>3, <1>4, <1>5, TimerNames DEF GoodEntry
<1> QED
  BY <1>1, <1>2, <1>4, <1>6, PutKeeps

\* The TX report of a disconnection clears its flag and its timeout together.
LEMMA DisconnectCbKeeps ==
    ASSUME IInv, NEW a \in Addr, handle_deauth_cb(a) \/ handle_disassoc_cb(a)
    PROVE  IInv'
<1>1. ASSUME NEW stype, NEW flag, NEW x \in Timer,
             handle_disconnect_cb(a, stype, flag, x),
             \/ /\ flag = "PENDING_DEAUTH_CB"
                /\ x = "ap_sta_deauth_cb_timeout"
             \/ /\ flag = "PENDING_DISASSOC_CB"
                /\ x = "ap_sta_disassoc_cb_timeout"
      PROVE  IInv'
  <2>1. /\ a \in known /\ tx[a] # <<>> /\ Consume(a) /\ granted' = granted
        /\ SameTable /\ UNCHANGED ghosts
    BY <1>1 DEF handle_disconnect_cb, Reported, ghosts
  <2>2. (tx \in [Addr -> Seq(TxFrame)])' /\ GrantsInFlight'
    BY <2>1, TxConsumed
  <2>3. GoodEntry(a, sta[a], drv[a], timer[a])
    BY <2>1, EntryOf
  <2>4. CASE flag \in sta[a].flags
    <3> DEFINE s == [sta[a] EXCEPT !.flags = sta[a].flags \ {flag},
                                   !.added_unassoc = FALSE]
               t == Cancel(timer[a], x)
    <3>1. Put(a, s, "none", t)
      BY <1>1, <2>4 DEF handle_disconnect_cb, ap_sta_remove
    <3>2. /\ s \in Sta /\ s.aid = sta[a].aid
          /\ s.nonerp_set = sta[a].nonerp_set
          /\ s.flags = sta[a].flags \ {flag}
      BY <2>3 DEF GoodEntry, Sta
    <3>3. /\ t \in [Timer -> Nat]
          /\ \A y \in Timer : t[y] = IF y = x THEN 0 ELSE timer[a][y]
      BY <2>3, TimerOps DEF GoodEntry
    <3> HIDE DEF s, t
    <3>4. GoodEntry(a, s, "none", t)
      BY <1>1, <2>3, <3>2, <3>3, TimerNames DEF GoodEntry
    <3> QED
      BY <2>1, <2>2, <3>1, <3>2, <3>4, PutKeeps
  <2>5. CASE flag \notin sta[a].flags
    <3>1. UNCHANGED <<sta, drv, timer>>
      BY <1>1, <2>5 DEF handle_disconnect_cb
    <3> QED
      BY <2>1, <2>2, <3>1, OnlyTx DEF SameTable
  <2> QED
    BY <2>4, <2>5
<1> QED
  BY <1>1, TimerNames DEF handle_deauth_cb, handle_disassoc_cb

\* An acknowledged poll changes one flag.
LEMMA PollOkKeeps ==
    ASSUME IInv, NEW a \in Addr, hostapd_client_poll_ok(a)
    PROVE  IInv'
<1> DEFINE s == [sta[a] EXCEPT !.flags = @ \ {"PENDING_POLL"}]
<1>1. /\ a \in known /\ Put(a, s, drv[a], timer[a]) /\ SameTable
      /\ UNCHANGED ghosts /\ UNCHANGED <<tx, granted>>
  BY DEF hostapd_client_poll_ok, ghosts
<1>2. (tx \in [Addr -> Seq(TxFrame)])' /\ GrantsInFlight'
  BY <1>1, TxSame
<1>3. GoodEntry(a, sta[a], drv[a], timer[a])
  BY <1>1, EntryOf
<1>4. /\ s \in Sta /\ s.aid = sta[a].aid /\ s.nonerp_set = sta[a].nonerp_set
      /\ s.flags = sta[a].flags \ {"PENDING_POLL"}
  BY <1>3 DEF GoodEntry, Sta
<1> HIDE DEF s
<1>5. GoodEntry(a, s, drv[a], timer[a])
  BY <1>3, <1>4 DEF GoodEntry
<1> QED
  BY <1>1, <1>2, <1>4, <1>5, PutKeeps

\* A command of the AP's side sets the flag and registers the timeout
\* together, and closes the port with the association.
LEMMA CommandKeeps ==
    ASSUME IInv, NEW a \in Addr, NEW silently \in BOOLEAN,
           \/ ap_sta_deauthenticate(a, silently)
           \/ ap_sta_disassociate(a, silently)
    PROVE  IInv'
<1>1. ASSUME NEW frame \in TxFrame, frame.stype # "assoc_resp",
             NEW clears, {"ASSOC", "AUTHORIZED"} \subseteq clears,
             clears \cap {"PENDING_DEAUTH_CB", "PENDING_DISASSOC_CB"} = {},
             NEW flag, NEW next \in TimeoutNext, NEW cb \in Timer,
             \/ /\ flag = "PENDING_DEAUTH_CB"
                /\ cb = "ap_sta_deauth_cb_timeout"
             \/ /\ flag = "PENDING_DISASSOC_CB"
                /\ cb = "ap_sta_disassoc_cb_timeout",
             Disconnect(a, silently, frame, clears, flag, next, cb)
      PROVE  IInv'
  <2> DEFINE s == [sta[a] EXCEPT !.flags = (@ \ clears) \cup {flag},
                                 !.last_seq_ctrl = 0, !.timeout_next = next]
             d == IF silently THEN "none" ELSE drv[a]
             t1 == Reschedule(timer[a], "ap_handle_timer")
             t2 == Reschedule(t1, cb)
  <2>1. /\ a \in known /\ Put(a, s, d, t2) /\ SameTable /\ UNCHANGED ghosts
        /\ granted' = granted
    BY <1>1 DEF Disconnect, ghosts
  <2>2. (tx \in [Addr -> Seq(TxFrame)])' /\ GrantsInFlight'
    <3>1. CASE silently
      <4>1. tx' = [tx EXCEPT ![a] = tx[a]]
        BY <1>1, <3>1 DEF Disconnect
      <4> QED
        BY <2>1, <4>1, QueueOf, QueuesKept
    <3>2. CASE ~silently
      BY <1>1, <2>1, <3>2, TxSent DEF Disconnect
    <3> QED
      BY <3>1, <3>2
  <2>3. GoodEntry(a, sta[a], drv[a], timer[a])
    BY <2>1, EntryOf
  <2>4. /\ s \in Sta /\ s.aid = sta[a].aid /\ s.nonerp_set = sta[a].nonerp_set
        /\ s.flags = (sta[a].flags \ clears) \cup {flag}
        /\ d \in {"none", "unassoc", "assoc"}
    BY <1>1, <2>3 DEF GoodEntry, Sta, Flag
  <2>5. /\ t1 \in [Timer -> Nat]
        /\ \A y \in Timer : t1[y] = timer[a][y]
    BY <2>3, TimerOps, TimerNames DEF GoodEntry
  <2> HIDE DEF t1
  <2>6. /\ t2 \in [Timer -> Nat]
        /\ \A y \in Timer : t2[y] = IF y = cb THEN 1 ELSE timer[a][y]
    BY <1>1, <2>5, TimerOps
  <2> HIDE DEF s, d, t2
  <2>7. GoodEntry(a, s, d, t2)
    <3>1. s.flags = (sta[a].flags \ clears) \cup {flag}
      BY <2>4
    <3>2. t2["ap_handle_timer"] = 1
      BY <1>1, <2>3, <2>6, TimerNames DEF GoodEntry
    <3>3. t2["ap_sta_deauth_cb_timeout"] > 0 => "PENDING_DEAUTH_CB" \in s.flags
      BY <1>1, <2>3, <2>6, <3>1, TimerNames DEF GoodEntry
    <3>4. t2["ap_sta_disassoc_cb_timeout"] > 0
             => "PENDING_DISASSOC_CB" \in s.flags
      BY <1>1, <2>3, <2>6, <3>1, TimerNames DEF GoodEntry
    <3>5. "AUTHORIZED" \notin s.flags /\ "ASSOC" \notin s.flags
      BY <1>1, <3>1
    <3> QED
      BY <2>4, <2>6, <3>2, <3>3, <3>4, <3>5 DEF GoodEntry
  <2> QED
    BY <2>1, <2>2, <2>4, <2>7, PutKeeps
<1>2. CASE ap_sta_deauthenticate(a, silently)
  <2>1. /\ {"ASSOC", "AUTHORIZED"} \subseteq DeauthClears
        /\ DeauthClears \cap {"PENDING_DEAUTH_CB", "PENDING_DISASSOC_CB"} = {}
        /\ "REMOVE" \in TimeoutNext
    BY DEF DeauthClears, TimeoutNext
  <2> QED
    BY <1>1, <1>2, <2>1, FramesTyped, TimerNames DEF ap_sta_deauthenticate
<1>3. CASE ap_sta_disassociate(a, silently)
  <2> DEFINE clears == {"ASSOC", "ASSOC_REQ_OK", "AUTHORIZED"}
  <2>1. /\ {"ASSOC", "AUTHORIZED"} \subseteq clears
        /\ clears \cap {"PENDING_DEAUTH_CB", "PENDING_DISASSOC_CB"} = {}
        /\ "DEAUTH" \in TimeoutNext
    BY DEF TimeoutNext
  <2>2. Disconnect(a, silently, Disassoc, clears, "PENDING_DISASSOC_CB",
                   "DEAUTH", "ap_sta_disassoc_cb_timeout")
    BY <1>3 DEF ap_sta_disassociate
  <2> HIDE DEF clears
  <2> QED
    BY <1>1, <2>1, <2>2, FramesTyped, TimerNames
<1> QED
  BY <1>2, <1>3

\* Timeouts fire only for stations in the table.
LEMMA FiredIsKnown ==
    ASSUME IInv, NEW a \in Addr, NEW x \in Timer, timer[a][x] > 0
    PROVE  a \in known
  BY DEF IInv, TimersFollowStation, NoTimers

\* A timeout that fires loses one registration.
LEMMA FiredTimers ==
    ASSUME NEW t \in [Timer -> Nat], NEW x \in Timer, t[x] > 0
    PROVE  /\ [t EXCEPT ![x] = @ - 1] \in [Timer -> Nat]
           /\ \A y \in Timer : [t EXCEPT ![x] = @ - 1][y]
                                 = IF y = x THEN t[y] - 1 ELSE t[y]
  OBVIOUS

\* A disconnect timeout removes the driver's entry and stays unregistered.
LEMMA CbTimeoutKeeps ==
    ASSUME IInv, NEW a \in Addr, NEW x \in Timer, CbTimeout(a, x),
           x # "ap_handle_timer"
    PROVE  IInv'
<1> DEFINE s == [sta[a] EXCEPT !.flags = sta[a].flags, !.added_unassoc = FALSE]
           t == [timer[a] EXCEPT ![x] = @ - 1]
<1>1. /\ a \in known /\ timer[a][x] > 0 /\ Put(a, s, "none", t) /\ SameTable
      /\ UNCHANGED ghosts /\ UNCHANGED <<tx, granted>>
  BY FiredIsKnown DEF CbTimeout, ap_sta_remove, ghosts
<1>2. (tx \in [Addr -> Seq(TxFrame)])' /\ GrantsInFlight'
  BY <1>1, TxSame
<1>3. GoodEntry(a, sta[a], drv[a], timer[a])
  BY <1>1, EntryOf
<1>4. /\ s \in Sta /\ s.aid = sta[a].aid /\ s.nonerp_set = sta[a].nonerp_set
      /\ s.flags = sta[a].flags
  BY <1>3 DEF GoodEntry, Sta
<1>5. /\ t \in [Timer -> Nat]
      /\ \A y \in Timer : t[y] = IF y = x THEN timer[a][y] - 1 ELSE timer[a][y]
  BY <1>1, <1>3, FiredTimers DEF GoodEntry
<1> HIDE DEF s, t
<1>6. GoodEntry(a, s, "none", t)
  BY <1>3, <1>4, <1>5, TimerNames DEF GoodEntry
<1> QED
  BY <1>1, <1>2, <1>4, <1>6, PutKeeps

\* The session timer frees the entry, or fires for nothing.
LEMMA SessionTimerKeeps ==
    ASSUME IInv, NEW a \in Addr, ap_handle_session_timer(a)
    PROVE  IInv'
<1> DEFINE x == "ap_handle_session_timer"
<1>1. /\ a \in known /\ timer[a][x] > 0 /\ UNCHANGED ghosts
      /\ granted' = granted
  BY FiredIsKnown, TimerNames DEF ap_handle_session_timer, ghosts
<1>2. CASE "AUTH" \in sta[a].flags
  <2>1. (tx \in [Addr -> Seq(TxFrame)])' /\ GrantsInFlight'
    BY <1>1, <1>2, FramesTyped, TxSent DEF ap_handle_session_timer
  <2> QED
    BY <1>1, <1>2, <2>1, FreeKeeps DEF ap_handle_session_timer
<1>3. CASE "AUTH" \notin sta[a].flags
  <2> DEFINE t == [timer[a] EXCEPT ![x] = @ - 1]
  <2>1. Put(a, sta[a], drv[a], t) /\ SameTable /\ UNCHANGED tx
    BY <1>3 DEF ap_handle_session_timer
  <2>2. (tx \in [Addr -> Seq(TxFrame)])' /\ GrantsInFlight'
    BY <1>1, <2>1, TxSame
  <2>3. GoodEntry(a, sta[a], drv[a], timer[a])
    BY <1>1, EntryOf
  <2>4. /\ t \in [Timer -> Nat]
        /\ \A y \in Timer : t[y] = IF y = x THEN timer[a][y] - 1
                                            ELSE timer[a][y]
    BY <1>1, <2>3, FiredTimers, TimerNames DEF GoodEntry
  <2> HIDE DEF t
  <2>5. GoodEntry(a, sta[a], drv[a], t)
    BY <2>3, <2>4, TimerNames DEF GoodEntry
  <2> QED
    BY <1>1, <2>1, <2>2, <2>5, PutKeeps
<1> QED
  BY <1>2, <1>3

\* Every branch of ap_handle_timer registers itself again or frees the entry.
LEMMA HandleTimerKeeps ==
    ASSUME IInv, NEW a \in Addr, NEW inact \in Answer, ap_handle_timer(a, inact)
    PROVE  IInv'
<1> DEFINE x == "ap_handle_timer"
           next1 == AfterQuery(sta[a].timeout_next, inact)
           acked == PollAcked(sta[a], next1, inact)
           next == IF acked THEN "NULLFUNC" ELSE next1
           fired == [timer[a] EXCEPT ![x] = @ - 1]
           t == Register(fired, x)
<1>1. /\ a \in known /\ timer[a][x] > 0 /\ UNCHANGED ghosts
      /\ granted' = granted
  BY FiredIsKnown, TimerNames DEF ap_handle_timer, ghosts
<1>2. GoodEntry(a, sta[a], drv[a], timer[a])
  BY <1>1, EntryOf
<1>3. /\ fired \in [Timer -> Nat]
      /\ \A y \in Timer : fired[y] = IF y = x THEN timer[a][y] - 1
                                              ELSE timer[a][y]
  BY <1>1, <1>2, FiredTimers, TimerNames DEF GoodEntry
<1>4. next \in TimeoutNext
  <2>1. sta[a].timeout_next \in TimeoutNext
    BY <1>2 DEF GoodEntry, Sta
  <2> QED
    BY <2>1 DEF AfterQuery, TimeoutNext
<1> HIDE DEF fired
<1>5. t \in [Timer -> Nat] /\ \A y \in Timer : t[y] = timer[a][y]
  <2>1. timer[a] \in [Timer -> Nat]
    BY <1>2 DEF GoodEntry
  <2>2. /\ t \in [Timer -> Nat]
        /\ \A y \in Timer : t[y] = IF y = x THEN fired[y] + 1 ELSE fired[y]
    BY <1>3, TimerOps, TimerNames
  <2> HIDE DEF t
  <2> QED
    BY <1>3, <2>1, <2>2
<1> HIDE DEF t
<1>6. ASSUME NEW s, Put(a, s, drv[a], t), SameTable, s \in Sta,
             s.aid = sta[a].aid, s.nonerp_set = sta[a].nonerp_set,
             \/ s.flags = sta[a].flags
             \/ s.flags = sta[a].flags \cup {"PENDING_POLL"}
             \/ s.flags = sta[a].flags \ {"AUTHORIZED", "ASSOC"},
             (tx \in [Addr -> Seq(TxFrame)])', GrantsInFlight'
      PROVE  IInv'
  <2>1. GoodEntry(a, s, drv[a], t)
    BY <1>2, <1>5, <1>6, TimerNames DEF GoodEntry
  <2> QED
    BY <1>1, <1>6, <2>1, PutKeeps
<1>7. (tx \in [Addr -> Seq(TxFrame)])' /\ GrantsInFlight'
  <2>1. CASE UNCHANGED tx
    BY <1>1, <2>1, TxSame
  <2>2. CASE \E q \in Sent(tx[a], Disassoc) : tx' = [tx EXCEPT ![a] = q]
    BY <1>1, <2>2, FramesTyped, TxSent
  <2>3. CASE \E q \in Sent(tx[a], Deauth) : tx' = [tx EXCEPT ![a] = q]
    BY <1>1, <2>3, FramesTyped, TxSent
  <2> QED
    BY <2>1, <2>2, <2>3 DEF ap_handle_timer
<1>8. \/ ap_free_sta(a)
      \/ Put(a, [sta[a] EXCEPT !.timeout_next = next], drv[a], t) /\ SameTable
      \/ /\ Put(a, [sta[a] EXCEPT !.timeout_next = AfterPoll,
                               !.flags = @ \cup {"PENDING_POLL"}], drv[a], t)
         /\ SameTable
      \/ /\ Put(a, [sta[a] EXCEPT !.timeout_next = "DISASSOC"], drv[a], t)
         /\ SameTable
      \/ /\ Put(a, [sta[a] EXCEPT !.timeout_next = "DEAUTH",
                               !.flags = @ \ {"AUTHORIZED", "ASSOC"}],
                drv[a], t)
         /\ SameTable
  BY DEF ap_handle_timer, t, fired
<1>9. CASE ap_free_sta(a)
  BY <1>1, <1>7, <1>9, FreeKeeps
<1> HIDE DEF next
<1>10. ASSUME NEW n \in TimeoutNext, NEW fl \in SUBSET Flag
       PROVE  LET s == [sta[a] EXCEPT !.timeout_next = n, !.flags = fl]
              IN  /\ s \in Sta /\ s.aid = sta[a].aid /\ s.flags = fl
                  /\ s.nonerp_set = sta[a].nonerp_set
  BY <1>2 DEF GoodEntry, Sta
<1>11. /\ sta[a].flags \in SUBSET Flag
       /\ sta[a].flags \cup {"PENDING_POLL"} \in SUBSET Flag
       /\ sta[a].flags \ {"AUTHORIZED", "ASSOC"} \in SUBSET Flag
       /\ {"DISASSOC", "DEAUTH", AfterPoll} \subseteq TimeoutNext
  BY <1>2 DEF GoodEntry, Sta, Flag, AfterPoll, TimeoutNext
<1>12. ASSUME NEW n \in TimeoutNext
       PROVE  LET s == [sta[a] EXCEPT !.timeout_next = n]
              IN  /\ s \in Sta /\ s.aid = sta[a].aid
                  /\ s.flags = sta[a].flags
                  /\ s.nonerp_set = sta[a].nonerp_set
  BY <1>2 DEF GoodEntry, Sta
<1>13. CASE Put(a, [sta[a] EXCEPT !.timeout_next = next], drv[a], t) /\ SameTable
  BY <1>4, <1>6, <1>7, <1>12, <1>13
<1>14. CASE /\ Put(a, [sta[a] EXCEPT !.timeout_next = AfterPoll,
                          !.flags = @ \cup {"PENDING_POLL"}], drv[a], t)
            /\ SameTable
  BY <1>6, <1>7, <1>10, <1>11, <1>14
<1>15. CASE /\ Put(a, [sta[a] EXCEPT !.timeout_next = "DISASSOC"], drv[a], t)
            /\ SameTable
  BY <1>6, <1>7, <1>11, <1>12, <1>15
<1>16. CASE /\ Put(a, [sta[a] EXCEPT !.timeout_next = "DEAUTH",
                          !.flags = @ \ {"AUTHORIZED", "ASSOC"}], drv[a], t)
            /\ SameTable
  BY <1>6, <1>7, <1>10, <1>11, <1>16
<1> QED
  BY <1>8, <1>9, <1>13, <1>14, <1>15, <1>16

\* hostapd_free_stas empties the table, the bitmap and the counters.
LEMMA FreeStasKeeps ==
    ASSUME IInv, hostapd_free_stas
    PROVE  IInv'
<1>1. /\ known' = {} /\ sta' = [a \in Addr |-> NewSta]
      /\ drv' = [a \in Addr |-> "none"] /\ timer' = [a \in Addr |-> NoTimers]
      /\ sta_aid' = sta_aid \ {sta[a].aid : a \in known}
      /\ UNCHANGED <<tx, admitted, granted>>
  BY DEF hostapd_free_stas, ghosts
<1>2. (tx \in [Addr -> Seq(TxFrame)])' /\ GrantsInFlight'
  BY <1>1, TxSame
<1> DEFINE N == {a \in known : sta[a].nonerp_set}
<1>3. num_sta' = 0 /\ num_sta_non_erp' = 0
  <2>1. num_sta \in Nat /\ num_sta_non_erp \in Nat
    BY DEF IInv, TypeOK
  <2>2. num_sta = Cardinality(known) /\ num_sta_non_erp = Cardinality(N)
    BY DEF IInv, StationsCounted
  <2>3. /\ num_sta' = num_sta - Cardinality(known)
        /\ num_sta_non_erp' = num_sta_non_erp - Cardinality(N)
    BY DEF hostapd_free_stas
  <2> QED
    BY <2>1, <2>2, <2>3
<1>4. NewSta \in Sta /\ NoTimers \in [Timer -> Nat]
  BY StationConstants DEF NewSta, Sta, Flag, TimeoutNext, Subtype, NoTimers
<1>5. TypeOK'
  BY <1>1, <1>2, <1>3, <1>4 DEF IInv, TypeOK
<1>6. IsFiniteSet(known') /\ Cardinality(known') = 0
  BY <1>1, FS_EmptySet
<1>7. StationsCounted'
  <2>1. {a \in known' : sta'[a].nonerp_set} = {}
    BY <1>1
  <2>2. Cardinality({a \in known' : sta'[a].nonerp_set}) = 0
    BY <2>1, FS_EmptySet
  <2> QED
    BY <1>3, <1>6, <2>2, StationConstants DEF StationsCounted
<1>8. AidsUnique'
  BY <1>1 DEF IInv, AidsUnique
<1>9. TimersFollowStation' /\ DriverEntriesKnown' /\ FreedIsNew'
  BY <1>1 DEF TimersFollowStation, DriverEntriesKnown, FreedIsNew
<1>10. AuthorizedIsAssociated' /\ ControllerDecides'
  BY <1>1 DEF AuthorizedIsAssociated, ControllerDecides
<1> QED
  BY <1>2, <1>5, <1>6, <1>7, <1>8, <1>9, <1>10 DEF IInv

\* hostapd_get_aid keeps an AID, finds one that nobody has, or gives up.
LEMMA GetAid ==
    ASSUME NEW s \in Sta
    PROVE  /\ hostapd_get_aid(s) \in 0..MaxAid
           /\ s.aid > 0 => hostapd_get_aid(s) = s.aid
           /\ s.aid = 0 /\ hostapd_get_aid(s) > 0
                => hostapd_get_aid(s) \in FreeAids
<1>1. s.aid \in 0..MaxAid /\ MaxAid \in Nat
  BY StationConstants DEF Sta
<1>2. CASE s.aid > 0
  <2>1. hostapd_get_aid(s) = s.aid
    BY <1>1, <1>2 DEF hostapd_get_aid
  <2> QED
    BY <1>1, <1>2, <2>1
<1>3. CASE s.aid = 0 /\ FreeAids = {}
  <2>1. hostapd_get_aid(s) = 0
    BY <1>3 DEF hostapd_get_aid
  <2> QED
    BY <1>1, <1>3, <2>1
<1>4. CASE s.aid = 0 /\ FreeAids # {}
  <2>1. FreeAids \subseteq Nat
    BY <1>1 DEF FreeAids
  <2>2. \E i \in FreeAids : \A j \in FreeAids : ~(<<j, i>> \in OpToRel(<, Nat))
    BY <1>4, <2>1, NatLessThanWellFounded, WFMin
  <2>3. \E i \in FreeAids : \A j \in FreeAids : i <= j
    <3>1. PICK i \in FreeAids :
              \A j \in FreeAids : ~(<<j, i>> \in OpToRel(<, Nat))
      BY <2>2
    <3>2. ASSUME NEW j \in FreeAids PROVE i <= j
      <4>1. i \in Nat /\ j \in Nat
        BY <2>1, <3>1
      <4>2. ~(j < i)
        BY <3>1, <4>1 DEF OpToRel
      <4> QED
        BY <4>1, <4>2
    <3> QED
      BY <3>2
  <2>4. hostapd_get_aid(s)
          = CHOOSE i \in FreeAids : \A j \in FreeAids : i <= j
    BY <1>4 DEF hostapd_get_aid
  <2>5. hostapd_get_aid(s) \in FreeAids
    BY <2>3, <2>4
  <2> QED
    BY <1>1, <1>4, <2>5 DEF FreeAids
<1> QED
  BY <1>1, <1>2, <1>3, <1>4

\* A refused request leaves AID, counters and association as they are.
LEMMA AssocRefusedKeeps ==
    ASSUME IInv, NEW a \in Addr, NEW f \in Frame, NEW reassoc \in BOOLEAN,
           NEW dont_auth, NEW checks \in BOOLEAN, NEW sent \in BOOLEAN,
           handle_assoc_refused(a, f, reassoc, dont_auth, checks, sent)
    PROVE  IInv'
<1> DEFINE s == [HandledRequest(sta[a], f, reassoc) EXCEPT
                    !.added_unassoc = FALSE]
           d == IF sta[a].added_unassoc THEN "none" ELSE drv[a]
<1>1. /\ a \in known /\ Put(a, s, d, timer[a]) /\ SameTable
      /\ UNCHANGED ghosts /\ granted' = granted
  BY DEF handle_assoc_refused, ghosts
<1>2. (tx \in [Addr -> Seq(TxFrame)])' /\ GrantsInFlight'
  <2>1. CASE sent
    BY <1>1, <2>1, FramesTyped, TxSent DEF handle_assoc_refused
  <2>2. CASE ~sent
    <3>1. tx' = [tx EXCEPT ![a] = tx[a]]
      BY <2>2 DEF handle_assoc_refused
    <3> QED
      BY <1>1, <3>1, QueueOf, QueuesKept
  <2> QED
    BY <2>1, <2>2
<1>3. GoodEntry(a, sta[a], drv[a], timer[a])
  BY <1>1, EntryOf
<1>4. /\ s \in Sta /\ s.aid = sta[a].aid /\ s.nonerp_set = sta[a].nonerp_set
      /\ s.flags = sta[a].flags /\ d \in {"none", "unassoc", "assoc"}
  BY <1>3 DEF GoodEntry, Sta, Subtype, HandledRequest, Frame
<1> HIDE DEF s, d
<1>5. GoodEntry(a, s, d, timer[a])
  BY <1>3, <1>4 DEF GoodEntry
<1> QED
  BY <1>1, <1>2, <1>4, <1>5, PutKeeps

\* The association that succeeds: the entry gets its AID, is counted, and the
\* response that will complete it is on its way.
LEMMA AssocKeeps ==
    ASSUME IInv, NEW a \in Addr, NEW f \in Frame, NEW reassoc \in BOOLEAN,
           NEW dont_auth, NEW nonerp \in BOOLEAN, NEW added \in BOOLEAN,
           NEW sent \in BOOLEAN,
           handle_assoc(a, f, reassoc, dont_auth, nonerp, added, sent)
    PROVE  IInv'
<1> DEFINE aid == hostapd_get_aid(sta[a])
           s == [HandledRequest(sta[a], f, reassoc) EXCEPT
                    !.aid = aid,
                    !.nonerp_set = @ \/ nonerp,
                    !.flags = @ \cup {"ASSOC_REQ_OK"},
                    !.timeout_next = "NULLFUNC",
                    !.added_unassoc = FALSE]
           d == IF added /\ sent THEN "assoc" ELSE "none"
<1>1. /\ a \in known /\ Put(a, s, d, timer[a]) /\ aid > 0
      /\ sta_aid' = sta_aid \cup {aid}
      /\ num_sta_non_erp' = IF nonerp /\ ~sta[a].nonerp_set
                            THEN num_sta_non_erp + 1 ELSE num_sta_non_erp
      /\ granted' = granted \cup {a}
      /\ UNCHANGED <<known, num_sta, admitted>>
  BY DEF handle_assoc, Refused, CountsNonErp
<1>2. known \subseteq Addr /\ IsFiniteSet(known)
  BY DEF IInv, TypeOK
<1>3. GoodEntry(a, sta[a], drv[a], timer[a])
  BY <1>1, EntryOf
<1>4. sta[a] \in Sta
  BY <1>3 DEF GoodEntry
<1>5. /\ aid \in 1..MaxAid
      /\ sta[a].aid > 0 => aid = sta[a].aid
      /\ sta[a].aid = 0 => aid \in FreeAids
  BY <1>1, <1>4, GetAid, StationConstants
<1> HIDE DEF aid
<1>6. /\ s \in Sta /\ s.aid = aid
      /\ s.nonerp_set = (sta[a].nonerp_set \/ nonerp)
      /\ s.flags = sta[a].flags \cup {"ASSOC_REQ_OK"}
      /\ d \in {"none", "unassoc", "assoc"}
  <2> DEFINE h == HandledRequest(sta[a], f, reassoc)
  <2>1. /\ h \in Sta /\ h.flags = sta[a].flags
        /\ h.nonerp_set = sta[a].nonerp_set
    BY <1>4 DEF Sta, Subtype, HandledRequest, Frame
  <2>2. aid \in 0..MaxAid
    BY <1>5, StationConstants
  <2> DEFINE e == h.nonerp_set \/ nonerp
             fl == h.flags \cup {"ASSOC_REQ_OK"}
  <2>3. e \in BOOLEAN
    BY Zenon
  <2>4. fl \in SUBSET Flag /\ "NULLFUNC" \in TimeoutNext
    BY <2>1 DEF Sta, Flag, TimeoutNext
  <2>5. s = [h EXCEPT !.aid = aid, !.nonerp_set = e, !.flags = fl,
                      !.timeout_next = "NULLFUNC", !.added_unassoc = FALSE]
    BY Zenon
  <2>6. e = (sta[a].nonerp_set \/ nonerp)
    BY <2>1, Zenon
  <2> HIDE DEF h, s, e
  <2>7. s \in Sta /\ s.aid = aid /\ s.nonerp_set = e /\ s.flags = fl
    BY <2>1, <2>2, <2>3, <2>4, <2>5 DEF Sta
  <2>8. s.nonerp_set = (sta[a].nonerp_set \/ nonerp)
    BY <2>6, <2>7, Zenon
  <2> QED
    BY <2>1, <2>7, <2>8, Zenon
<1> HIDE DEF s, d
<1>7. GoodEntry(a, s, d, timer[a])
  BY <1>3, <1>6 DEF GoodEntry
<1>8. \A b \in Addr : /\ sta'[b] = IF b = a THEN s ELSE sta[b]
                      /\ drv'[b] = IF b = a THEN d ELSE drv[b]
                      /\ timer'[b] = timer[b]
  BY <1>1 DEF Put, IInv, TypeOK
<1>9. (tx \in [Addr -> Seq(TxFrame)])' /\ GrantsInFlight'
  <2>1. a \in granted' /\ granted \subseteq granted'
    BY <1>1
  <2>2. CASE sent
    BY <2>1, <2>2, FramesTyped, TxSent DEF handle_assoc
  <2>3. CASE ~sent
    <3>1. tx' = [tx EXCEPT ![a] = tx[a]]
      BY <2>3 DEF handle_assoc
    <3>2. GoodQueue(a, tx[a], granted')
      BY <2>1, QueueOf DEF GoodQueue
    <3> QED
      BY <2>1, <3>1, <3>2, QueuesKept
  <2> QED
    BY <2>2, <2>3
<1> DEFINE N == {b \in known : sta[b].nonerp_set}
           M == {b \in known' : sta'[b].nonerp_set}
<1>10. M = IF nonerp THEN N \cup {a} ELSE N
  BY <1>1, <1>2, <1>6, <1>8
<1>11. IsFiniteSet(N) /\ Cardinality(N) \in Nat
  BY <1>2, FS_Subset, FS_CardinalityType
<1>12. a \in N <=> sta[a].nonerp_set
  BY <1>1
<1>13. num_sta_non_erp = Cardinality(N)
  BY DEF IInv, StationsCounted
<1> HIDE DEF N
<1>14. Cardinality(M) = num_sta_non_erp' /\ num_sta_non_erp' \in Nat
  <2>1. Cardinality(N \cup {a}) = IF a \in N THEN Cardinality(N)
                                             ELSE Cardinality(N) + 1
    BY <1>11, FS_AddElement
  <2> HIDE DEF M
  <2> QED
    BY <1>1, <1>10, <1>11, <1>12, <1>13, <2>1
<1>15. StationsCounted'
  BY <1>1, <1>14 DEF IInv, StationsCounted
<1>16. TypeOK'
  <2>1. /\ sta' \in [Addr -> Sta]
        /\ drv' \in [Addr -> {"none", "unassoc", "assoc"}]
        /\ timer' \in [Addr -> [Timer -> Nat]]
    BY <1>1, <1>3, <1>6 DEF Put, IInv, TypeOK, GoodEntry
  <2> QED
    BY <1>1, <1>5, <1>9, <1>14, <2>1 DEF IInv, TypeOK
<1>17. AidsUnique'
  <2>1. \A b \in known : sta'[b].aid = IF b = a THEN aid ELSE sta[b].aid
    BY <1>2, <1>6, <1>8
  <2>2. ASSUME NEW b \in known, b # a PROVE sta[b].aid # aid
    <3>1. CASE sta[a].aid > 0
      BY <1>1, <1>5, <2>2, <3>1 DEF IInv, AidsUnique
    <3>2. CASE sta[a].aid = 0
      BY <1>5, <3>2 DEF IInv, AidsUnique, FreeAids
    <3> QED
      BY <1>4, <3>1, <3>2, StationConstants DEF Sta
  <2>3. sta[a].aid = aid \/ sta[a].aid = 0
    BY <1>4, <1>5, StationConstants DEF Sta
  <2>4. ASSUME NEW i \in 1..MaxAid
        PROVE  i \in sta_aid' <=> \E b \in known' : sta'[b].aid = i
    <3>1. i \in sta_aid <=> \E b \in known : sta[b].aid = i
      BY DEF IInv, AidsUnique
    <3>2. CASE i = aid
      BY <1>1, <2>1, <3>2
    <3>3. CASE i # aid
      <4>1. i # 0 /\ i # sta[a].aid
        BY <2>3, <3>3
      <4>2. i \in sta_aid' <=> i \in sta_aid
        BY <1>1, <3>3
      <4>3. (\E b \in known : sta[b].aid = i)
              <=> (\E b \in known' : sta'[b].aid = i)
        BY <1>1, <2>1, <3>3, <4>1
      <4> QED
        BY <3>1, <4>2, <4>3
    <3> QED
      BY <3>2, <3>3
  <2>5. ASSUME NEW b \in known', NEW c \in known',
               sta'[b].aid = sta'[c].aid, sta'[b].aid # 0
        PROVE  b = c
    BY <1>1, <2>1, <2>2, <2>5 DEF IInv, AidsUnique
  <2> QED
    BY <2>4, <2>5 DEF AidsUnique
<1>18. TimersFollowStation'
  BY <1>1, <1>2, <1>7, <1>8 DEF IInv, TimersFollowStation, GoodEntry
<1>19. DriverEntriesKnown'
  BY <1>1, <1>8 DEF IInv, DriverEntriesKnown
<1>20. AuthorizedIsAssociated'
  BY <1>1, <1>2, <1>7, <1>8 DEF IInv, AuthorizedIsAssociated, GoodEntry
<1>21. ControllerDecides'
  BY <1>1, <1>2, <1>8 DEF IInv, ControllerDecides
<1>22. FreedIsNew' /\ IsFiniteSet(known')
  BY <1>1, <1>2, <1>8 DEF IInv, FreedIsNew
<1> QED
  BY <1>9, <1>15, <1>16, <1>17, <1>18, <1>19, <1>20, <1>21, <1>22 DEF IInv

-----------------------------------------------------------------------------
\* A step that adds an entry to the table, which has room for it.
LEMMA AddKeeps ==
    ASSUME IInv, NEW a \in Addr \ known, NEW s, NEW d, NEW t,
           GoodEntry(a, s, d, t), s.aid = 0, s.nonerp_set = FALSE, ~NoRoom,
           Put(a, s, d, t), known' = known \cup {a}, num_sta' = num_sta + 1,
           admitted' = admitted \cup {a},
           UNCHANGED <<sta_aid, num_sta_non_erp, granted>>,
           (tx \in [Addr -> Seq(TxFrame)])', GrantsInFlight'
    PROVE  IInv'
<1>1. known \subseteq Addr /\ IsFiniteSet(known) /\ a \notin known /\ a \in Addr
  BY DEF IInv, TypeOK
<1>2. \A b \in Addr : /\ sta'[b] = IF b = a THEN s ELSE sta[b]
                      /\ drv'[b] = IF b = a THEN d ELSE drv[b]
                      /\ timer'[b] = IF b = a THEN t ELSE timer[b]
  BY DEF Put, IInv, TypeOK
<1>3. TypeOK'
  <2>1. /\ sta' \in [Addr -> Sta]
        /\ drv' \in [Addr -> {"none", "unassoc", "assoc"}]
        /\ timer' \in [Addr -> [Timer -> Nat]]
    BY DEF Put, IInv, TypeOK, GoodEntry
  <2> QED
    BY <1>1, <2>1 DEF IInv, TypeOK
<1>4. IsFiniteSet(known') /\ Cardinality(known') = Cardinality(known) + 1
  BY <1>1, FS_AddElement
<1>5. StationsCounted'
  <2>1. {b \in known' : sta'[b].nonerp_set} = {b \in known : sta[b].nonerp_set}
    BY <1>1, <1>2
  <2>2. num_sta' <= max_num_sta
    BY StationConstants DEF IInv, TypeOK, NoRoom
  <2> QED
    BY <1>4, <2>1, <2>2 DEF IInv, StationsCounted
<1>6. AidsUnique'
  <2>1. \A b \in known : b # a /\ sta'[b].aid = sta[b].aid
    BY <1>1, <1>2
  <2>2. sta'[a].aid = 0
    BY <1>2
  <2>3. ASSUME NEW i \in 1..MaxAid
        PROVE  i \in sta_aid' <=> \E b \in known' : sta'[b].aid = i
    <3>1. i \in sta_aid <=> \E b \in known : sta[b].aid = i
      BY DEF IInv, AidsUnique
    <3>2. i # 0
      OBVIOUS
    <3> QED
      BY <2>1, <2>2, <3>1, <3>2
  <2>4. ASSUME NEW b \in known', NEW c \in known',
               sta'[b].aid = sta'[c].aid, sta'[b].aid # 0
        PROVE  b = c
    BY <2>1, <2>2, <2>4 DEF IInv, AidsUnique
  <2> QED
    BY <2>3, <2>4 DEF AidsUnique
<1>7. TimersFollowStation'
  BY <1>1, <1>2 DEF IInv, TimersFollowStation, GoodEntry
<1>8. DriverEntriesKnown' /\ FreedIsNew'
  BY <1>1, <1>2 DEF IInv, DriverEntriesKnown, FreedIsNew
<1>9. AuthorizedIsAssociated'
  BY <1>1, <1>2 DEF IInv, AuthorizedIsAssociated, GoodEntry
<1>10. ControllerDecides'
  BY <1>1, <1>2 DEF IInv, ControllerDecides, GoodEntry
<1> QED
  BY <1>3, <1>4, <1>5, <1>6, <1>7, <1>8, <1>9, <1>10 DEF IInv

\* handle_auth, for an entry that is found and for one that is added.
LEMMA AuthKeeps ==
    ASSUME IInv, NEW a \in Addr, NEW f \in Frame, NEW dont_auth,
           NEW vlan \in BOOLEAN, NEW added \in BOOLEAN, NEW sent \in BOOLEAN,
           NEW session \in BOOLEAN,
           handle_auth(a, f, dont_auth, vlan, added, sent, session)
    PROVE  IInv'
<1> DEFINE s0   == IF a \in known THEN sta[a] ELSE NewSta
           s1   == [s0 EXCEPT !.last_seq_ctrl = f.seq, !.last_subtype = "AUTH"]
           t0   == IF a \in known THEN timer[a]
                   ELSE Register(NoTimers, "ap_handle_timer")
           t1   == IF vlan
                   THEN IF session
                        THEN Reschedule(t0, "ap_handle_session_timer")
                        ELSE Cancel(t0, "ap_handle_session_timer")
                   ELSE t0
           fresh == vlan /\ full_ap_client_state /\ ~s1.added_unassoc
           resp  == vlan /\ (fresh => added)
           s2    == IF fresh THEN [s1 EXCEPT !.flags = @ \ ReauthClears,
                                             !.added_unassoc = added]
                             ELSE s1
           d2    == IF fresh THEN IF added THEN "unassoc" ELSE "none"
                             ELSE drv[a]
           s3    == IF resp THEN [s2 EXCEPT !.flags = @ \cup {"AUTH"}] ELSE s2
           undo  == s3.added_unassoc /\ ~(resp /\ sent)
           s     == [s3 EXCEPT !.added_unassoc = @ /\ ~undo]
           d     == IF undo THEN "none" ELSE d2
<1>1. /\ a \in known \/ ~NoRoom
      /\ known' = known \cup {a}
      /\ num_sta' = IF a \in known THEN num_sta ELSE num_sta + 1
      /\ Put(a, s, d, t1)
      /\ admitted' = admitted \cup {a}
      /\ UNCHANGED <<sta_aid, num_sta_non_erp, granted>>
  BY DEF handle_auth
<1>2. (tx \in [Addr -> Seq(TxFrame)])' /\ GrantsInFlight'
  <2>1. CASE sent
    <3>1. \E q \in Sent(tx[a], AuthReply(resp)) : tx' = [tx EXCEPT ![a] = q]
      BY <2>1 DEF handle_auth
    <3>2. resp \in BOOLEAN
      BY Zenon
    <3> HIDE DEF resp
    <3> QED
      BY <1>1, <3>1, <3>2, FramesTyped, TxSent
  <2>2. CASE ~sent
    <3>1. tx' = [tx EXCEPT ![a] = tx[a]]
      BY <2>2 DEF handle_auth
    <3> QED
      BY <1>1, <3>1, QueueOf, QueuesKept
  <2> QED
    BY <2>1, <2>2
<1>3. GoodEntry(a, s0, drv[a], t0)
  <2>1. CASE a \in known
    BY <2>1, EntryOf
  <2>2. CASE a \notin known
    <3>1. NewSta \in Sta /\ NoTimers \in [Timer -> Nat] /\ NewSta.flags = {}
      BY StationConstants DEF NewSta, Sta, Flag, TimeoutNext, Subtype, NoTimers
    <3>2. \A y \in Timer : NoTimers[y] = 0
      BY DEF NoTimers
    <3>3. /\ t0 \in [Timer -> Nat]
          /\ \A y \in Timer : t0[y] = IF y = "ap_handle_timer" THEN 1 ELSE 0
      BY <2>2, <3>1, <3>2, TimerOps, TimerNames
    <3>4. drv[a] \in {"none", "unassoc", "assoc"}
      BY DEF IInv, TypeOK
    <3>5. s0 = NewSta
      BY <2>2
    <3> HIDE DEF t0, s0
    <3> QED
      BY <3>1, <3>3, <3>4, <3>5, TimerNames DEF GoodEntry
  <2> QED
    BY <2>1, <2>2
<1>4. a \notin known => s0.aid = 0 /\ s0.nonerp_set = FALSE
  BY DEF NewSta
<1>5. /\ t1 \in [Timer -> Nat]
      /\ \A y \in Timer : y # "ap_handle_session_timer" => t1[y] = t0[y]
  BY <1>3, TimerOps, TimerNames DEF GoodEntry
<1>6. /\ s1 \in Sta /\ s1.aid = s0.aid /\ s1.nonerp_set = s0.nonerp_set
      /\ s1.flags = s0.flags
  BY <1>3 DEF GoodEntry, Sta, Subtype, Frame
<1>7. a \in known => s0 = sta[a]
  OBVIOUS
<1> HIDE DEF s0, s1, t0, t1
<1>8. /\ s2 \in Sta /\ s2.aid = s1.aid /\ s2.nonerp_set = s1.nonerp_set
      /\ s2.flags = s1.flags \/ s2.flags = s1.flags \ ReauthClears
      /\ d2 \in {"none", "unassoc", "assoc"}
  BY <1>3, <1>6 DEF GoodEntry, Sta
<1> HIDE DEF fresh, s2, d2
<1>9. /\ s3 \in Sta /\ s3.aid = s2.aid /\ s3.nonerp_set = s2.nonerp_set
      /\ s3.flags = s2.flags \/ s3.flags = s2.flags \cup {"AUTH"}
  BY <1>8 DEF Sta, Flag
<1> HIDE DEF resp, s3
<1>10. /\ s \in Sta /\ s.aid = s3.aid /\ s.nonerp_set = s3.nonerp_set
       /\ s.flags = s3.flags
       /\ d \in {"none", "unassoc", "assoc"}
  BY <1>8, <1>9 DEF Sta
<1> HIDE DEF undo, s, d
<1>11. GoodEntry(a, s, d, t1)
  <2>1. \/ s.flags \subseteq s0.flags \cup {"AUTH"} /\ s0.flags \subseteq s.flags
        \/ s.flags \subseteq (s0.flags \ ReauthClears) \cup {"AUTH"}
           /\ s0.flags \ ReauthClears \subseteq s.flags
    BY <1>6, <1>8, <1>9, <1>10
  <2>2. /\ "PENDING_DEAUTH_CB" \in s0.flags => "PENDING_DEAUTH_CB" \in s.flags
        /\ "PENDING_DISASSOC_CB" \in s0.flags
              => "PENDING_DISASSOC_CB" \in s.flags
        /\ "ASSOC" \in s.flags => "ASSOC" \in s0.flags
        /\ "AUTHORIZED" \in s.flags
              => "AUTHORIZED" \in s0.flags
                 /\ ("ASSOC" \in s0.flags => "ASSOC" \in s.flags)
    BY <2>1 DEF ReauthClears
  <2> QED
    BY <1>3, <1>5, <1>10, <2>2, TimerNames DEF GoodEntry
<1>12. s.aid = s0.aid /\ s.nonerp_set = s0.nonerp_set
  BY <1>6, <1>8, <1>9, <1>10
<1>13. CASE a \in known
  <2>1. admitted' = admitted /\ known' = known
    BY <1>1, <1>13 DEF IInv, ControllerDecides
  <2>2. SameTable /\ UNCHANGED ghosts
    BY <1>1, <1>13, <2>1 DEF SameTable, ghosts
  <2> QED
    BY <1>1, <1>2, <1>7, <1>11, <1>12, <1>13, <2>2, PutKeeps
<1>14. CASE a \notin known
  BY <1>1, <1>2, <1>4, <1>11, <1>12, <1>14, AddKeeps
<1> QED
  BY <1>13, <1>14

-----------------------------------------------------------------------------
\* The empty table satisfies the invariant.
LEMMA InitHolds == Init => IInv
<1> SUFFICES ASSUME Init PROVE IInv
  OBVIOUS
<1>1. NewSta \in Sta /\ NoTimers \in [Timer -> Nat]
  BY StationConstants DEF NewSta, Sta, Flag, TimeoutNext, Subtype, NoTimers
<1>2. TypeOK
  BY <1>1 DEF Init, TypeOK
<1>3. IsFiniteSet(known) /\ StationsCounted
  <2>1. {a \in known : sta[a].nonerp_set} = {}
    BY DEF Init
  <2> QED
    BY <2>1, FS_EmptySet, StationConstants DEF Init, StationsCounted
<1>4. AidsUnique /\ TimersFollowStation /\ DriverEntriesKnown /\ FreedIsNew
  BY DEF Init, AidsUnique, TimersFollowStation, DriverEntriesKnown, FreedIsNew
<1>5. AuthorizedIsAssociated /\ ControllerDecides /\ GrantsInFlight
  BY DEF Init, AuthorizedIsAssociated, ControllerDecides, GrantsInFlight
<1> QED
  BY <1>2, <1>3, <1>4, <1>5 DEF IInv

\* Every step keeps the invariant.
LEMMA StepKeeps == IInv /\ [Next]_vars => IInv'
<1> SUFFICES ASSUME IInv, [Next]_vars PROVE IInv'
  OBVIOUS
<1>1. ASSUME NEW a \in Addr, Receive(a) PROVE IInv'
  <2>1. CASE handle_auth_refused(a) \/ handle_assoc_class2(a)
    BY <2>1, OnlyReplies
  <2>2. CASE \E dont_auth \in Denied(enabled_msg_authorization), f \in Frame,
                vlan, added, sent, session \in BOOLEAN :
                handle_auth(a, f, dont_auth, vlan, added, sent, session)
    BY <2>2, AuthKeeps
  <2>3. ASSUME NEW reassoc \in BOOLEAN, NEW dont_auth, NEW f \in Frame,
               NEW sent \in BOOLEAN,
               \/ \E checks \in BOOLEAN :
                     handle_assoc_refused(a, f, reassoc, dont_auth, checks, sent)
               \/ \E nonerp, added \in BOOLEAN :
                     handle_assoc(a, f, reassoc, dont_auth, nonerp, added, sent)
        PROVE  IInv'
    BY <2>3, AssocRefusedKeeps, AssocKeeps
  <2>4. CASE handle_disassoc(a)
    BY <2>4, DisassocFrameKeeps
  <2>5. CASE handle_deauth(a)
    BY <2>5, DeauthFrameKeeps
  <2>6. CASE \E reassoc \in BOOLEAN :
             \E dont_auth \in Denied(AssocFlagOf(reassoc)), f \in Frame,
                sent \in BOOLEAN :
                \/ \E checks \in BOOLEAN :
                      handle_assoc_refused(a, f, reassoc, dont_auth, checks, sent)
                \/ \E nonerp, added \in BOOLEAN :
                      handle_assoc(a, f, reassoc, dont_auth, nonerp, added, sent)
    <3>1. PICK reassoc \in BOOLEAN :
             \E dont_auth \in Denied(AssocFlagOf(reassoc)), f \in Frame,
                sent \in BOOLEAN :
                \/ \E checks \in BOOLEAN :
                      handle_assoc_refused(a, f, reassoc, dont_auth, checks, sent)
                \/ \E nonerp, added \in BOOLEAN :
                      handle_assoc(a, f, reassoc, dont_auth, nonerp, added, sent)
      BY <2>6
    <3>2. PICK dont_auth \in Denied(AssocFlagOf(reassoc)), f \in Frame,
               sent \in BOOLEAN :
             \/ \E checks \in BOOLEAN :
                   handle_assoc_refused(a, f, reassoc, dont_auth, checks, sent)
             \/ \E nonerp, added \in BOOLEAN :
                   handle_assoc(a, f, reassoc, dont_auth, nonerp, added, sent)
      BY <3>1
    <3> QED
      BY <2>3, <3>2
  <2> QED
    BY <1>1, <2>1, <2>2, <2>4, <2>5, <2>6, Zenon DEF Receive
<1>2. ASSUME NEW a \in Addr, NEW ok \in BOOLEAN, TxStatus(a, ok) PROVE IInv'
  BY <1>2, AuthCbKeeps, AssocCbFailedKeeps, AssocCbKeeps DEF TxStatus
<1>3. ASSUME NEW a \in Addr, TxStatusOfDisconnect(a) PROVE IInv'
  BY <1>3, NotFoundKeeps, DisconnectCbKeeps DEF TxStatusOfDisconnect
<1>4. ASSUME NEW a \in Addr, hostapd_client_poll_ok(a) PROVE IInv'
  BY <1>4, PollOkKeeps
<1>5. ASSUME NEW a \in Addr, Administer(a) PROVE IInv'
  BY <1>5, CommandKeeps DEF Administer
<1>6. ASSUME NEW a \in Addr, Timeout(a) PROVE IInv'
  <2>1. CASE \E inact \in Answer : ap_handle_timer(a, inact)
    BY <2>1, HandleTimerKeeps
  <2>2. CASE ap_handle_session_timer(a)
    BY <2>2, SessionTimerKeeps
  <2>3. CASE ap_sta_deauth_cb_timeout(a)
    BY <2>3, CbTimeoutKeeps, TimerNames DEF ap_sta_deauth_cb_timeout
  <2>4. CASE ap_sta_disassoc_cb_timeout(a)
    BY <2>4, CbTimeoutKeeps, TimerNames DEF ap_sta_disassoc_cb_timeout
  <2> QED
    BY <1>6, <2>1, <2>2, <2>3, <2>4 DEF Timeout
<1>7. CASE hostapd_free_stas
  BY <1>7, FreeStasKeeps
<1>8. CASE UNCHANGED vars
  <2>1. UNCHANGED <<known, sta, drv, timer, sta_aid, num_sta,
                    num_sta_non_erp, ghosts>> /\ UNCHANGED <<tx, granted>>
    BY <1>8 DEF vars, ghosts
  <2> QED
    BY <2>1, TxSame, OnlyTx
<1> QED
  BY <1>1, <1>2, <1>3, <1>4, <1>5, <1>6, <1>7, <1>8 DEF Next

\* Every reachable state of station management satisfies the invariant.
THEOREM Invariant == Spec => []IInv
  BY InitHolds, StepKeeps, PTL DEF Spec

\* Every field keeps its type; num_sta and num_sta_non_erp never go below 0.
THEOREM TypeCorrect == Spec => []TypeOK
<1>1. IInv => TypeOK
  BY DEF IInv
<1> QED
  BY <1>1, Invariant, PTL

\* The counters that the handlers maintain by increments and decrements are
\* the sizes of the sets they stand for, and the table never exceeds its limit.
THEOREM TableCounted == Spec => []StationsCounted
<1>1. IInv => StationsCounted
  BY DEF IInv
<1> QED
  BY <1>1, Invariant, PTL

\* hostapd_get_aid hands out unique AIDs and ap_free_sta returns exactly the
\* one that was handed out, whatever the size of the AID space.
THEOREM AidCorrect == Spec => []AidsUnique
<1>1. IInv => AidsUnique
  BY DEF IInv
<1> QED
  BY <1>1, Invariant, PTL

\* No timeout outlives its station, no station is without its inactivity
\* timer, and none has two.
THEOREM TimersCorrect == Spec => []TimersFollowStation
<1>1. IInv => TimersFollowStation
  BY DEF IInv
<1> QED
  BY <1>1, Invariant, PTL

\* The driver keeps no station that hostapd has freed.
THEOREM DriverCorrect == Spec => []DriverEntriesKnown
<1>1. IInv => DriverEntriesKnown
  BY DEF IInv
<1> QED
  BY <1>1, Invariant, PTL

\* The port of a station is open only while it is associated.
THEOREM PortCorrect == Spec => []AuthorizedIsAssociated
<1>1. IInv => AuthorizedIsAssociated
  BY DEF IInv
<1> QED
  BY <1>1, Invariant, PTL

\* The controller's answers bind: no entry without an authentication that it
\* let pass, no association without a request that it let pass.
THEOREM AdmissionCorrect == Spec => []ControllerDecides
<1>1. IInv => ControllerDecides
  BY DEF IInv
<1> QED
  BY <1>1, Invariant, PTL
=============================================================================
