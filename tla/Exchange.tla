------------------------------- MODULE Exchange -------------------------------
(***************************************************************************)
(* One exchange of Ethanol: the controller calls a sender of               *)
(* hostapd-2.6/src/messaging/msg_*.c, the servlet of the AP handles the    *)
(* request and, when the request names a station, calls the same sender    *)
(* again to pass it on; the station runs the same servlet.  Hop 1 is the   *)
(* connection from the controller to the AP, hop 2 the one from the AP to  *)
(* the station.                                                            *)
(*                                                                         *)
(* The senders share their steps (connect, write, read, look at the type,  *)
(* close) and differ in what module Messages says of them.  Connections    *)
(* are refused or break, processes fall silent: there are no timeouts, and *)
(* what SSL_connect, SSL_write and SSL_read return is not looked at.  The  *)
(* buffer for the reply is an uninitialised local variable.  A node whose   *)
(* process ends refuses connections until the next call of the controller. *)
(* How the AP accepts connections is the subject of module EthanolServer.  *)
(***************************************************************************)
EXTENDS Messages, FiniteSets

CONSTANTS Type,       \* message types the controller sends
          Lengths,    \* lengths of the strings of a message
          Items,      \* lengths of its lists
          Tries,      \* num_tries of send_msg_ping
          MaxFaults,  \* bound: faults per exchange
          None

ASSUME ExchangeConstants ==
    /\ Type \subseteq MsgType
    /\ Lengths \subseteq Nat /\ Items \subseteq Nat
    /\ Tries \in Nat \ {0} /\ MaxFaults \in Nat

VARIABLES ask,      \* what the controller asked: type, station, shape, try
          call,     \* call[h]: the sender: control state, buffer, result
          slots,    \* the results of the tries (resp->r, or h1)
          conn,     \* conn[h]: "none", "open" or "broken"
          req,      \* req[h]: the request on its way
          rep,      \* rep[h]: the reply on its way
          srv,      \* srv[h]: the servlet: control state and value to reply
          worked,   \* ghost: nodes that carried out the request
          misused,  \* ghost: a handler or a sender used memory it must not
          silent,   \* nodes that hold their connections and do nothing
          faults    \* ghost: number of faults in this exchange

vars == <<ask, call, slots, conn, req, rep, srv, worked, misused, silent,
          faults>>

Hop == {1, 2}

Node == {"ap", "sta"}

\* Who calls and who serves on a hop.
Caller(h) == IF h = 1 THEN "controller" ELSE "ap"

Server(h) == IF h = 1 THEN "ap" ELSE "sta"

\* A field of a message: the value of a node, a constant, what the sender of
\* the request left in it, nothing, or what an earlier call left in memory.
Value == Node \cup {"fixed", "asked", "empty", "error", "stale"}

Result == Value \cup {"null", "unassigned"}

Buffer == [type : MsgType \cup {"MSG_PONG", "MSG_ERR_TYPE", "other"},
           value : Value]

Shapes == {s \in [len : Lengths, n : Items, m : Items] : s.m <= s.n}

Ask == [type : Type, station : BOOLEAN, shape : Shapes, try : 1..Tries]

ASSUME NoneAssumption == None \notin Ask \cup Buffer

-----------------------------------------------------------------------------

sender == MessageTable[ask.type].send

handler == MessageTable[ask.type].process

\* The request of hop 1 names the station if there is one; that of hop 2
\* never does.
NamesStation(h) == h = 1 /\ ask.station

Destination == IF ask.station THEN "sta" ELSE "ap"

Expected(type) == type \in sender.expects \/ "any" \in sender.expects

\* What the stack may hold where the reply will be read.
Uninitialised ==
    {[type |-> "other", value |-> "stale"]}
      \cup {[type |-> ReplyType(ask.type), value |-> "stale"]}

IdleCall == [pc |-> "idle", buf |-> [type |-> "other", value |-> "stale"],
             ret |-> "null"]

IdleSrv == [pc |-> "idle", value |-> "empty"]

\* The process of the node has ended.
EndedSrv == [pc |-> "ended", value |-> "empty"]

CallAt(h, pc) == call[h].pc = pc /\ Caller(h) \notin silent

SrvAt(h, pc) == srv[h].pc = pc /\ Server(h) \notin silent

CallTo(h, pc) == call' = [call EXCEPT ![h].pc = pc]

SrvTo(h, pc) == srv' = [srv EXCEPT ![h].pc = pc]

Fault == faults < MaxFaults /\ faults' = faults + 1

-----------------------------------------------------------------------------
(* The controller *)

Init ==
    /\ ask = None
    /\ call = [h \in Hop |-> IdleCall]
    /\ slots = <<>>
    /\ conn = [h \in Hop |-> "none"]
    /\ req = [h \in Hop |-> FALSE]
    /\ rep = [h \in Hop |-> None]
    /\ srv = [h \in Hop |-> IdleSrv]
    /\ worked = {}
    /\ misused = FALSE
    /\ silent = {}
    /\ faults = 0

\* num_tries and the slots of send_msg_ping, which are allocated and not
\* assigned; every other sender makes one try and starts with h1 = NULL.
TriesOf(type) == IF type = "MSG_PING" THEN Tries ELSE 1

NewSlots(type) ==
    [i \in 1..TriesOf(type) |->
        IF type = "MSG_PING" THEN "unassigned" ELSE "null"]

\* Some senders return at once when the interface has no name.
Unnamed(type, len) == MessageTable[type].send.named /\ len = 0

Begin(type, station, shape) ==
    /\ ask = None
    /\ station => MessageTable[type].send.station
    /\ ask' = [type |-> type, station |-> station, shape |-> shape, try |-> 1]
    /\ slots' = NewSlots(type)
    /\ \E b \in {"other", ReplyType(type)} :
         call' = [call EXCEPT
                    ![1].pc = IF Unnamed(type, shape.len) THEN "done"
                              ELSE "connect",
                    ![1].buf = [type |-> b, value |-> "stale"]]
    /\ UNCHANGED <<conn, req, rep, srv, worked, misused, silent, faults>>

\* The next call is made when the servers have nothing of this one left.
Return ==
    /\ ask # None
    /\ CallAt(1, "done")
    /\ \A h \in Hop : Server(h) \notin silent => srv[h] \in {IdleSrv, EndedSrv}
    /\ ask' = None
    /\ call' = [h \in Hop |-> IdleCall]
    /\ slots' = <<>>
    /\ conn' = [h \in Hop |-> "none"]
    /\ req' = [h \in Hop |-> FALSE]
    /\ rep' = [h \in Hop |-> None]
    /\ srv' = [h \in Hop |-> IdleSrv]
    /\ worked' = {}
    /\ misused' = FALSE
    /\ silent' = {}
    /\ faults' = 0

-----------------------------------------------------------------------------
(* The steps of a sender *)

\* get_ssl_connection: the servlet of the peer starts.
Connect(h) ==
    /\ CallAt(h, "connect")
    /\ Server(h) \notin silent
    /\ srv[h].pc # "ended"
    /\ conn' = [conn EXCEPT ![h] = "open"]
    /\ SrvTo(h, "read")
    /\ CallTo(h, "write")
    /\ UNCHANGED <<ask, slots, req, rep, worked, misused, silent, faults>>

\* No context, unknown host or connection refused: nothing is sent.
ConnectFails(h) ==
    /\ CallAt(h, "connect")
    /\ Fault
    /\ CallTo(h, "close")
    /\ UNCHANGED <<ask, slots, conn, req, rep, srv, worked, misused, silent>>

\* Nobody listens: the process of the peer has ended, or the request did not
\* hold the port of the station.
Refused(h) ==
    /\ CallAt(h, "connect")
    /\ srv[h].pc = "ended" \/ (h = 2 /\ sender.slip = "port")
    /\ misused' = TRUE
    /\ CallTo(h, "close")
    /\ UNCHANGED <<ask, slots, conn, req, rep, srv, worked, silent, faults>>

\* SSL_connect fails, which is only printed.
HandshakeFails(h) ==
    /\ CallAt(h, "connect")
    /\ srv[h].pc # "ended"
    /\ Fault
    /\ conn' = [conn EXCEPT ![h] = "broken"]
    /\ CallTo(h, "write")
    /\ UNCHANGED <<ask, slots, req, rep, srv, worked, misused, silent>>

\* The sender uses a null pointer: the interface has no name.
NoName(where) == sender.slip = where /\ ask.shape.len = 0

\* encode_ and SSL_write.
Write(h) ==
    /\ CallAt(h, "write")
    /\ ~NoName("sent")
    /\ req' = [req EXCEPT ![h] = (conn[h] = "open")]
    /\ CallTo(h, IF sender.waits THEN "read" ELSE "close")
    /\ misused' = (misused \/ sender.slip = "filling")
    /\ UNCHANGED <<ask, slots, conn, rep, srv, worked, silent, faults>>

\* SSL_read returns the reply, or fails and leaves the buffer alone.
Read(h) ==
    /\ CallAt(h, "read")
    /\ \/ /\ rep[h] # None
          /\ call' = [call EXCEPT ![h].pc = "check", ![h].buf = rep[h]]
       \/ /\ rep[h] = None
          /\ conn[h] = "broken" \/ srv[h].pc = "idle"
          /\ CallTo(h, IF sender.tested THEN "close" ELSE "check")
    /\ UNCHANGED <<ask, slots, conn, req, rep, srv, worked, misused, silent,
                   faults>>

\* return_message_type and decode_.
Decoded(h) == IF Expected(call[h].buf.type) THEN call[h].buf.value ELSE "null"

Check(h) ==
    /\ CallAt(h, "check")
    /\ ~NoName("answered")
    /\ call' = [call EXCEPT ![h].pc = "close", ![h].ret = Decoded(h)]
    /\ slots' = IF h = 1 THEN [slots EXCEPT ![ask.try] = Decoded(h)]
                ELSE slots
    /\ UNCHANGED <<ask, conn, req, rep, srv, worked, misused, silent, faults>>

\* close_ssl_connection.  A request that was written may still be read.  The
\* next try of a ping reads into the same buffer.
Close(h) ==
    /\ CallAt(h, "close")
    /\ conn' = [conn EXCEPT ![h] = "none"]
    /\ rep' = [rep EXCEPT ![h] = None]
    /\ IF h = 1 /\ ask.try < TriesOf(ask.type)
       THEN /\ srv[1].pc \in {"idle", "ended"}
            /\ ask' = [ask EXCEPT !.try = @ + 1]
            /\ call' = [call EXCEPT ![1].pc = "connect",
                                    ![1].buf.value = "stale"]
       ELSE /\ CallTo(h, "done")
            /\ UNCHANGED ask
    /\ UNCHANGED <<slots, req, srv, worked, misused, silent, faults>>

\* The process of the caller ends in the sender and its connections with it:
\* on hop 2 that is the AP.
CallerEnds(h) ==
    /\ \/ CallAt(h, "write") /\ sender.slip = "filling" /\ UNCHANGED req
       \/ /\ CallAt(h, "write") /\ NoName("sent")
          /\ req' = [req EXCEPT ![h] = (conn[h] = "open")]
       \/ CallAt(h, "check") /\ NoName("answered") /\ UNCHANGED req
    /\ misused' = TRUE
    /\ CallTo(h, "done")
    /\ conn' = [conn EXCEPT ![1] = IF h = 2 /\ @ # "none" THEN "broken" ELSE @,
                            ![h] = "none"]
    /\ srv' = IF h = 2 THEN [srv EXCEPT ![1] = EndedSrv] ELSE srv
    /\ rep' = [rep EXCEPT ![h] = None]
    /\ UNCHANGED <<ask, slots, worked, silent, faults>>

-----------------------------------------------------------------------------
(* The steps of a servlet *)

\* Mutant: a servlet whose read fails does not release the connection.
AfterRequest_Keep(ok) == IF ok THEN "process" ELSE "kept"

AfterRequest(ok) == IF ok THEN "process" ELSE "free"

servlet_read(h) ==
    /\ SrvAt(h, "read")
    /\ req[h] \/ conn[h] # "open"
    /\ SrvTo(h, AfterRequest(req[h]))
    /\ req' = [req EXCEPT ![h] = FALSE]
    /\ UNCHANGED <<ask, call, slots, conn, rep, worked, misused, silent,
                   faults>>

\* Mutant: a request that names a station is handled on the AP.
Relays_Never(h) == FALSE

\* What the handler leaves out because the interface has no name.
Skips(h) ==
    /\ ask.shape.len = 0
    /\ handler.skips = "all" \/ (handler.skips = "relay" /\ NamesStation(h))

Relays(h) == handler.relays /\ NamesStation(h) /\ ~Skips(h)

\* Does the handler read or set the node it runs on?
WorksOn(h) ==
    /\ ~Skips(h)
    /\ \/ handler.local = "own"
       \/ handler.local = "here" /\ ~NamesStation(h)
       \/ handler.local = "ap" /\ Server(h) = "ap"

LocalValue(h) ==
    IF WorksOn(h) THEN Server(h)
    ELSE CASE handler.local = "ap" \/ handler.skips = "relay" -> "empty"
           [] handler.local \in {"fixed", "error"} -> handler.local
           [] OTHER -> "asked"

AfterProcess == IF handler.replies THEN "write" ELSE "free"

\* Does the handler misuse memory when it does not pass the request on?
Careless(when, h) ==
    \/ "always" \in when
    \/ "empty" \in when /\ ask.shape.len = 0
    \/ "station" \in when /\ NamesStation(h)

\* With memory that is not what it should be the handler may go on, and answer
\* with the right value or with what that memory holds.
ValueOf(value, wild) == {value} \cup (IF wild THEN {"stale"} ELSE {})

Replies(h, value, wild) ==
    /\ misused' = (misused \/ wild)
    /\ \E v \in ValueOf(value, wild) :
         srv' = [srv EXCEPT ![h] = [pc |-> AfterProcess, value |-> v]]

Works(h) == worked' = IF WorksOn(h) THEN worked \cup {Server(h)} ELSE worked

\* The handler works on this node.
process_local(h) ==
    /\ SrvAt(h, "process")
    /\ ~Relays(h) /\ ~Careless(handler.null, h)
    /\ Works(h)
    /\ Replies(h, LocalValue(h), Careless(handler.wild, h))
    /\ UNCHANGED <<ask, call, slots, conn, req, rep, silent, faults>>

\* A query of this node finds nothing.  Where its result is tested the field
\* is emptied.
FindsNothing(h) ==
    /\ SrvAt(h, "process")
    /\ ~Relays(h) /\ WorksOn(h)
    /\ handler.null \cap {"missing", "missing_ap"} # {}
    /\ Fault

Untested(h) ==
    "missing" \in handler.null \/ ("missing_ap" \in handler.null /\ h = 1)

process_missing(h) ==
    /\ FindsNothing(h)
    /\ ~Untested(h)
    /\ Replies(h, "empty", FALSE)
    /\ UNCHANGED <<ask, call, slots, conn, req, rep, worked, silent>>

\* The handler calls the sender of the message towards the station.
process_relay ==
    /\ SrvAt(1, "process")
    /\ Relays(1)
    /\ SrvTo(1, "relaying")
    /\ \E b \in Uninitialised :
         call' = [call EXCEPT
                    ![2] = [pc |-> IF Unnamed(ask.type, ask.shape.len)
                                   THEN "done" ELSE "connect",
                            buf |-> b, ret |-> "null"]]
    /\ UNCHANGED <<ask, slots, conn, req, rep, worked, misused, silent,
                   faults>>

\* Mutant: the value is not taken from the answer of the station.
RelayedValue_Kept == handler.failed

StationAnswered == sender.waits /\ call[2].ret # "null"

\* The station's value, or what is left when there is none.  A setting that
\* was passed on without waiting keeps its value.
RelayedValue == IF StationAnswered THEN call[2].ret ELSE handler.failed

\* Mutant: the result of the relay is used without a test.
CarelessRelay_Untested(when) ==
    IF StationAnswered THEN "relayed" \in when ELSE sender.waits

\* Does it misuse memory after it passed the request on?
CarelessRelay(when) ==
    (IF StationAnswered THEN "relayed" ELSE "failed") \in when

process_relayed ==
    /\ SrvAt(1, "relaying")
    /\ call[2].pc = "done"
    /\ ~CarelessRelay(handler.null)
    /\ Replies(1, RelayedValue, CarelessRelay(handler.wild))
    /\ UNCHANGED <<ask, call, slots, conn, req, rep, worked, silent, faults>>

\* The process of the servlet ends and with it its connections: before it did
\* anything or, with memory that is not what it should be, after it.
Ends(h) ==
    /\ misused' = TRUE
    /\ srv' = [srv EXCEPT ![h] = EndedSrv]
    /\ conn' = [conn EXCEPT ![h] = IF @ = "none" THEN @ ELSE "broken"]
    /\ UNCHANGED <<ask, call, slots, req, rep, silent>>

Crash(h) ==
    /\ \/ /\ SrvAt(h, "process") /\ ~Relays(h)
          /\ \/ Careless(handler.null, h) /\ UNCHANGED worked
             \/ Careless(handler.wild, h) /\ (UNCHANGED worked \/ Works(h))
       \/ /\ h = 1 /\ SrvAt(1, "relaying") /\ call[2].pc = "done"
          /\ CarelessRelay(handler.null) \/ CarelessRelay(handler.wild)
          /\ UNCHANGED worked
    /\ Ends(h)
    /\ UNCHANGED faults

CrashMissing(h) ==
    FindsNothing(h) /\ Untested(h) /\ Ends(h) /\ UNCHANGED worked

\* SSL_write of the reply.
servlet_write(h) ==
    /\ SrvAt(h, "write")
    /\ rep' = IF conn[h] = "open"
              THEN [rep EXCEPT ![h] = [type |-> ReplyType(ask.type),
                                       value |-> srv[h].value]]
              ELSE rep
    /\ SrvTo(h, "free")
    /\ UNCHANGED <<ask, call, slots, conn, req, worked, misused, silent,
                   faults>>

\* SSL_free and close.
servlet_free(h) ==
    /\ SrvAt(h, "free")
    /\ srv' = [srv EXCEPT ![h] = IdleSrv]
    /\ UNCHANGED <<ask, call, slots, conn, req, rep, worked, misused, silent,
                   faults>>

-----------------------------------------------------------------------------
(* Faults *)

\* The connection breaks and loses what is on its way.
Break(h) ==
    /\ conn[h] = "open"
    /\ Fault
    /\ conn' = [conn EXCEPT ![h] = "broken"]
    /\ req' = [req EXCEPT ![h] = FALSE]
    /\ rep' = [rep EXCEPT ![h] = None]
    /\ UNCHANGED <<ask, call, slots, srv, worked, misused, silent>>

\* A node stops without closing its connections, or was never reachable.
FallSilent(n) ==
    /\ ask # None /\ n \notin silent
    /\ Fault
    /\ silent' = silent \cup {n}
    /\ UNCHANGED <<ask, call, slots, conn, req, rep, srv, worked, misused>>

-----------------------------------------------------------------------------

CallStep(h) ==
    \/ Connect(h) \/ Refused(h) \/ Write(h) \/ Read(h) \/ Check(h)
    \/ Close(h) \/ CallerEnds(h)

SrvStep(h) ==
    \/ servlet_read(h) \/ process_local(h) \/ Crash(h)
    \/ servlet_write(h) \/ servlet_free(h)

Step ==
    \/ Return \/ process_relay \/ process_relayed
    \/ \E h \in Hop : CallStep(h) \/ SrvStep(h)

Next ==
    \/ \E type \in Type, station \in BOOLEAN, shape \in Shapes :
         Begin(type, station, shape)
    \/ Step
    \/ \E h \in Hop : \/ ConnectFails(h) \/ HandshakeFails(h) \/ Break(h)
                      \/ process_missing(h) \/ CrashMissing(h)
    \/ \E n \in Node : FallSilent(n)

\* Threads run, and TCP delivers what it does not lose.
Spec == Init /\ [][Next]_vars /\ WF_vars(Step)

-----------------------------------------------------------------------------
(* Properties *)

\* Every variable has its type.
TypeOK ==
    /\ ask \in Ask \cup {None}
    /\ \A h \in Hop :
         /\ call[h].pc \in {"idle", "connect", "write", "read", "check",
                            "close", "done"}
         /\ call[h].buf \in Buffer /\ call[h].ret \in Result
         /\ conn[h] \in {"none", "open", "broken"} /\ req[h] \in BOOLEAN
         /\ rep[h] = None \/ rep[h] \in Buffer
         /\ srv[h].pc \in {"idle", "read", "process", "relaying", "write",
                           "free", "ended"}
         /\ srv[h].value \in Value
    /\ \A i \in DOMAIN slots : slots[i] \in Result
    /\ worked \subseteq Node /\ misused \in BOOLEAN
    /\ silent \subseteq Node /\ faults \in 0..MaxFaults

Fits(layout) == Written(layout, ask.shape) <= Announced(layout, ask.shape)

\* Every message that is written fits into the buffer that encode_ allocates
\* for it, whatever its strings and lists (size_ and strlen_ethanol count at
\* least what encode_ writes).  The noise message is the one that does not: its
\* size_ misses one field, a long, of every entry (channel_time_busy).
WithinAnnounced ==
    \A h \in Hop :
      LET Counts == ask.type = "MSG_GET_NOISEINFO" => ask.shape.n = 0
      IN  /\ call[h].pc = "write" =>
               (Fits(MessageTable[ask.type].layout) <=> Counts)
          /\ srv[h].pc = "write" => (Fits(ReplyLayout(ask.type)) <=> Counts)

\* Requests whose sender waits and gets nothing of its destination although
\* nothing fails: the handler echoes the question (guard interval, threshold
\* reached), does not answer (DTIM interval, addresses set), has no case in the
\* servlet (preamble), or answers with a type that the sender does not expect
\* (IPv6 addresses).
Unanswered ==
    {"MSG_GET_AP_GUARDINTERVAL", "MSG_SET_SNR_THRESHOLD_REACHED",
     "MSG_GET_AP_DTIMINTERVAL", "MSG_SET_IPV4_ADDRESS",
     "MSG_SET_IPV6_ADDRESS", "MSG_GET_PREAMBLE", "MSG_GET_IPV6_ADDRESS"}

\* Requests that are not answered by the station they name.
UnansweredByStation ==
    {"MSG_GET_NOISEINFO", "MSG_GET_STA_STATISTICS", "MSG_SET_FREQUENCY",
     "MSG_MEAN_STA_STATISTICS_GET"}

\* Requests without the name of an interface that the handler does not look
\* into: interference indices, and the frequency of a station.
Skipped ==
    /\ ask.shape.len = 0
    /\ \/ ask.type = "MSG_GET_ACS"
       \/ ask.type = "MSG_GET_FREQUENCY" /\ ask.station

\* When nothing fails and no memory is misused, a sender that waits returns the
\* value of the node it asked, in every slot (send_, servlet and process_ of
\* all types), except for the requests above, which never get it.
Answered ==
    (/\ ask # None
     /\ faults = 0 /\ ~misused
     /\ sender.waits /\ call[1].pc = "done"
     /\ ~Unnamed(ask.type, ask.shape.len))
    => ((\A i \in DOMAIN slots : slots[i] \in {Destination, "fixed"})
        <=> /\ ~Skipped
            /\ \/ ask.type \notin Unanswered \cup UnansweredByStation
               \/ ask.type \in UnansweredByStation /\ ~ask.station)

\* Requests that the AP applies to itself although they name a station.
Misplaced ==
    {"MSG_SET_IPV4_ADDRESS", "MSG_SET_IPV6_ADDRESS", "MSG_SET_TX_BITRATES",
     "MSG_TRIGGER_TRANSITION", "MSG_MEAN_STA_STATISTICS_GET",
     "MSG_MEAN_STA_STATISTICS_SET_INTERFACE",
     "MSG_MEAN_STA_STATISTICS_REMOVE_INTERFACE",
     "MSG_MEAN_STA_STATISTICS_SET_ALPHA", "MSG_MEAN_STA_STATISTICS_SET_TIME"}

\* Whatever fails, only the node that the request is for reads or sets
\* anything, and a value that is returned as that of a node was read there in
\* this exchange (sta_ip in process_ and the relay through send_).
OnlyTheNodeAsked ==
    ask # None =>
      /\ worked \subseteq
           IF ask.type \in Misplaced THEN {"ap"} ELSE {Destination}
      /\ \A i \in DOMAIN slots : slots[i] \in Node => slots[i] \in worked

\* An AP that passes a request on outlives it, whatever becomes of the station
\* and of the connections, except for three types that use the result of the
\* relay untested, keep what they freed with it or fill the message for it
\* badly (process_msg_scan_received, process_msg_statistics,
\* process_msg_ap_routes and send_msg_ap_get_routes), and for
\* send_msg_get_wlan_info without a name.
RelaySurvived ==
    (ask # None /\ Relays(1) /\ srv[1].pc = "ended")
      => \/ ask.type \in {"MSG_SCAN", "MSG_GET_STATISTICS", "MSG_GET_ROUTES"}
         \/ ask.type = "MSG_WLAN_INFO" /\ ask.shape.len = 0

\* Nobody whom this exchange needs has fallen silent.
PathAlive == "ap" \notin silent /\ (ask.station => "sta" \notin silent)

\* An exchange ends however its connections fail, as long as nobody stops
\* without closing its connections: there is no timeout to end it otherwise
\* (get_ssl_connection, SSL_read, the servlet).
ExchangeEnds == ask # None ~> (ask = None \/ ~PathAlive)

\* A sender returns the response of the node or NULL if there was an error
\* (the last line of send_msg_snr): never the question itself, which the AP
\* sends back when it does not get through to the station.
NullIfError ==
    (ask # None /\ call[1].pc = "done")
      => \A i \in DOMAIN slots : slots[i] # "asked"

=============================================================================
