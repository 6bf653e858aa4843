------------------------------- MODULE Handover -------------------------------
(***************************************************************************)
(* The handover experiment ("make handover"): a controller, run-server.c,  *)
(* that learns its APs and stations from their hello messages, and a       *)
(* station, run-station.c, that reports a poor signal and roams to the AP  *)
(* the controller names.                                                   *)
(*                                                                         *)
(* The controller serves every connection in a thread of its own.  The     *)
(* name of the peer that a servlet is given is a pointer to the one buffer *)
(* of inet_ntoa, which the accept loop fills again for every connection;   *)
(* configure_experiment reads it again for every call it makes.  What else *)
(* the threads of a server share is in EthanolServer, and what can happen  *)
(* to one exchange in Exchange: here an exchange is one step, which fails  *)
(* when nobody serves the address, or by a fault.  A device has one        *)
(* wireless interface, and its ports never change.                         *)
(***************************************************************************)
EXTENDS Integers, Sequences, FiniteSets

CONSTANTS Ap, Sta,       \* devices, which are also their MAC addresses
          Address,       \* IP addresses
          Thread,        \* bound: servlets of the controller at a time
          Scan,          \* scans: sequences of [mac, signal]
          Traffic,       \* tx_bytes + rx_bytes of an AP
          First,         \* APs a station can be on when it is started
          signal_threshold,
          Null, To,      \* the null pointer, and the word "to"
          MaxRestarts,   \* bound: devices and controllers that stop
          MaxFaults,     \* bound: exchanges that fail
          MaxConnections \* bound: connections of the controller

Device == Ap \cup Sta

Mac == Device \cup {Null, To}

ASSUME HandoverConstants ==
    /\ Ap \cap Sta = {} /\ {Null, To} \cap (Device \cup Address) = {}
    /\ Null # To
    /\ Scan \subseteq Seq([mac : Ap, signal : Int])
    /\ First \subseteq Ap \cup {Null}
    /\ Traffic \subseteq Nat /\ signal_threshold \in Int
    /\ MaxRestarts \in Nat /\ MaxFaults \in Nat /\ MaxConnections \in Nat

VARIABLES dev,       \* the processes on the devices
          up,        \* the controller runs
          client_addr, \* the buffer of inet_ntoa
          list,      \* list_aps and list_stations
          thread,    \* the servlets of the controller
          restarts, faults, connections,
          shared,    \* ghost: a peer's name was replaced while it was in use
          crossed,   \* ghost: two insertions into a list overlapped
          inserted,  \* ghost: what insert_device has inserted
          wild       \* ghost: the access that ended the controller

vars == <<dev, up, client_addr, list, thread, restarts, faults, connections,
          shared, crossed, inserted, wild>>

ghosts == <<shared, crossed, inserted>>

counters == <<restarts, faults, connections>>

\* The state of a process: its address, whether its server thread runs, what
\* main() does, the threshold and the collection of statistics it has been
\* asked for, the AP of the station, what the station reported as its AP,
\* and the answer.
Down == [addr |-> Null, serves |-> FALSE, main |-> "down", snr |-> "default",
         collects |-> FALSE, ap |-> Null, cur |-> Null, answer |-> Null]

\* A servlet: its control state, the device that waits for its answer, the
\* address in the message, the element it inserts and the list it saw; of a
\* report the present AP, the host of the station, the scan, the candidates
\* and the answer.  Ghost: own, the address the hello came from, until a
\* connection or a restart gets in its way.
Idle == [pc |-> "idle", dev |-> Null, own |-> Null, mac |-> Null,
         entry |-> Null, seen |-> <<>>, cur |-> Null, host |-> Null,
         aps |-> <<>>, range |-> <<>>, answer |-> Null]

Kind(d) == IF d \in Ap THEN "ap" ELSE "sta"

HelloPcs == {"one_intf", "find", "link", "publish", "interfaces",
             "set_snr", "set_statistics"}

ReportPcs == {"station", "scan", "traffic", "choose", "reply"}

At(t, pc) == up /\ thread[t].pc = pc

\* The device whose server answers at an address: none, or one.
Serving(a) == {d \in Device : dev[d].addr = a /\ dev[d].serves}

\* The outcomes of an exchange with the host at a: the device that answers,
\* or none when nobody does or the exchange fails.
Outcome(a) ==
    [dev : Serving(a), faults : {faults}]
        \cup [dev : {Null}, faults : IF Serving(a) = {} THEN {faults}
                                     ELSE {faults + 1} \cap 0..MaxFaults]

Init ==
    /\ dev = [d \in Device |-> Down]
    /\ up = TRUE
    /\ client_addr = Null
    /\ list = [k \in {"ap", "sta"} |-> <<>>]
    /\ thread = [t \in Thread |-> Idle]
    /\ restarts = 0 /\ faults = 0 /\ connections = 0
    /\ shared = FALSE /\ crossed = FALSE
    /\ inserted = {}
    /\ wild = "none"

-----------------------------------------------------------------------------
(* Devices *)

\* main() of a station waits for the server thread, which never ends; only
\* when the thread could not be created does it go on to its loop.
run_threaded_server(created) == IF created THEN "join" ELSE "measure"

\* main() of a station.
StartStation(s, a, created, ap) ==
    /\ dev[s].main = "down"
    /\ \A e \in Device : dev[e].addr # a
    /\ dev' = [dev EXCEPT ![s] =
                 [Down EXCEPT !.addr = a, !.serves = created, !.ap = ap,
                              !.main = run_threaded_server(created)]]
    /\ UNCHANGED <<up, client_addr, list, thread, counters, ghosts, wild>>

\* load_ethanol of hostapd, which does not wait for its server thread.  An AP
\* without that thread takes no part.
StartAp(d, a) ==
    /\ dev[d].main = "down"
    /\ \A e \in Device : dev[e].addr # a
    /\ dev' = [dev EXCEPT ![d] = [Down EXCEPT !.addr = a, !.serves = TRUE,
                                             !.main = "eloop"]]
    /\ UNCHANGED <<up, client_addr, list, thread, counters, ghosts, wild>>

\* Whoever the servlets still serve for d is gone, and what they know of it
\* may have changed.
Left(d) ==
    [t \in Thread |-> [thread[t] EXCEPT !.own = Null,
                                        !.dev = IF @ = d THEN Null ELSE @]]

Stop(d) ==
    /\ restarts < MaxRestarts
    /\ dev[d].main # "down"
    /\ dev' = [dev EXCEPT ![d] = Down]
    /\ thread' = Left(d)
    /\ restarts' = restarts + 1
    /\ UNCHANGED <<up, client_addr, list, faults, connections, ghosts, wild>>

-----------------------------------------------------------------------------
(* The controller *)

\* Mutant: a station whose connection breaks waits on.
Released_Never == dev

\* A station whose connection breaks gets no answer.
Released ==
    [d \in Device |-> IF dev[d].main = "wait"
                      THEN [dev[d] EXCEPT !.main = "measure", !.cur = Null]
                      ELSE dev[d]]

Crash(at) ==
    /\ wild' = at
    /\ up' = FALSE
    /\ dev' = Released
    /\ thread' = [t \in Thread |-> Idle]

ControllerStart ==
    /\ ~up /\ restarts < MaxRestarts
    /\ up' = TRUE
    /\ restarts' = restarts + 1
    /\ client_addr' = Null
    /\ list' = [k \in {"ap", "sta"} |-> <<>>]
    /\ inserted' = {}
    /\ wild' = "none"
    /\ UNCHANGED <<dev, thread, faults, connections, shared, crossed>>

\* inet_ntoa() in the accept loop: the name of every peer is in one buffer.
Accepted(a, threads) ==
    LET used == {t \in Thread : thread[t].pc \in HelloPcs}
    IN  /\ connections < MaxConnections
        /\ connections' = connections + 1
        /\ client_addr' = a
        /\ shared' = (shared \/ used # {})
        /\ thread' = [t \in Thread |->
                        IF t \in used
                        THEN [threads[t] EXCEPT !.own = Null]
                        ELSE threads[t]]

Goto(t, pc) == thread' = [thread EXCEPT ![t].pc = pc]

\* send_hello_to_controller on the device, process_msg_hello here.
process_msg_hello(t, d) ==
    /\ At(t, "idle")
    /\ dev[d].serves
    /\ \A u \in Thread : thread[u].pc \in HelloPcs => thread[u].dev # d
    /\ Accepted(dev[d].addr,
                [thread EXCEPT ![t] = [Idle EXCEPT !.pc = "one_intf",
                                                   !.dev = d, !.mac = d,
                                                   !.own = dev[d].addr]])
    /\ UNCHANGED <<dev, up, list, restarts, faults, crossed, inserted, wild>>

\* configure_experiment: what is configured once the device is in the list.
AfterInsert(t) ==
    IF thread[t].mac \in Ap THEN "set_statistics" ELSE "interfaces"

\* send_msg_get_one_intf: the MAC address of whoever answers.
get_one_intf(t) ==
    /\ At(t, "one_intf")
    /\ \E o \in Outcome(client_addr) :
         /\ thread' = [thread EXCEPT
                         ![t].entry = o.dev,
                         ![t].pc = IF o.dev = Null THEN AfterInsert(t)
                                   ELSE "find"]
         /\ faults' = o.faults
    /\ UNCHANGED <<dev, up, client_addr, list, restarts, connections, ghosts, wild>>

\* Mutant: the two lists are taken for one another.
ListOf_Swapped(t) == IF thread[t].mac \in Ap THEN "sta" ELSE "ap"

\* insert_ap or insert_station, by the device type in the hello.
ListOf(t) == Kind(thread[t].mac)

Macs(l) == {l[i].mac : i \in DOMAIN l}

\* Mutant: the device is inserted whether it is there or not.
find_device_Always(mac, l) == {}

find_device(mac, l) ==
    {l[i] : i \in {j \in DOMAIN l : /\ l[j].mac = mac
                                    /\ \A k \in 1..(j - 1) : l[k].mac # mac}}

\* insert_device, line by line: look for the address,
insert_find(t) ==
    /\ At(t, "find")
    /\ LET k == ListOf(t)
           new == find_device(thread[t].entry, list[k]) = {}
       IN  /\ thread' = [thread EXCEPT
                           ![t].entry = IF new THEN @ ELSE Null,
                           ![t].pc = IF new THEN "link" ELSE AfterInsert(t)]
           /\ crossed' = (crossed \/ (new /\ \E u \in Thread \ {t} :
                                        /\ thread[u].pc \in {"link", "publish"}
                                        /\ ListOf(u) = k))
    /\ UNCHANGED <<dev, up, client_addr, list, counters, shared, inserted,
                   wild>>

\* Ghost: whose hello an element is for, when nothing got in the way.
Undisturbed(t) ==
    IF thread[t].own = Null THEN Null
    ELSE [mac |-> thread[t].mac, host |-> thread[t].own]

\* copy the name of the host, and link the element to the first of the list,
insert_link(t) ==
    /\ At(t, "link")
    /\ thread' = [thread EXCEPT
                    ![t].entry = [mac |-> @, host |-> client_addr,
                                  of |-> Undisturbed(t)],
                    ![t].seen = list[ListOf(t)],
                    ![t].pc = "publish"]
    /\ UNCHANGED <<dev, up, client_addr, list, counters, ghosts, wild>>

\* and make it the first.
insert_publish(t) ==
    /\ At(t, "publish")
    /\ list' = [list EXCEPT ![ListOf(t)] = <<thread[t].entry>> \o thread[t].seen]
    /\ inserted' = inserted \cup {<<ListOf(t), thread[t].entry.mac>>}
    /\ thread' = [thread EXCEPT ![t].entry = Null, ![t].seen = <<>>,
                                ![t].pc = AfterInsert(t)]
    /\ UNCHANGED <<dev, up, client_addr, counters, shared, crossed, wild>>

Answered(t) == thread' = [thread EXCEPT ![t] = Idle]

\* send_msg_get_interfaces: its result is not looked at before it is used.
get_interfaces(t) ==
    /\ At(t, "interfaces")
    /\ \E o \in Outcome(client_addr) :
         /\ faults' = o.faults
         /\ IF o.dev = Null
            THEN Crash("interfaces")
            ELSE Goto(t, "set_snr") /\ UNCHANGED <<dev, up, wild>>
    /\ UNCHANGED <<client_addr, list, restarts, connections, ghosts>>

\* send_msg_set_snr_interval and send_msg_set_snr_threshold.  The interval
\* only says how long the loop of the station sleeps.
set_snr(t) ==
    /\ At(t, "set_snr")
    /\ \E o \in Outcome(client_addr) :
         /\ faults' = o.faults
         /\ dev' = [d \in Device |-> IF d = o.dev
                                     THEN [dev[d] EXCEPT !.snr = "set"]
                                     ELSE dev[d]]
    /\ Answered(t)
    /\ UNCHANGED <<up, client_addr, list, restarts, connections, ghosts, wild>>

\* Mutant: the statistics of the AP are not asked for.
Collects_Never(d, o) == dev[d].collects

\* The server of a station collects when it is asked to, as that of an AP.
Collects(d, o) == dev[d].collects \/ d = o.dev

\* send_msg_mean_sta_statistics_interface_add, then alpha and time, which
\* change the rate and the weight of the samples.
set_statistics(t) ==
    /\ At(t, "set_statistics")
    /\ \E o \in Outcome(client_addr) :
         /\ faults' = o.faults
         /\ dev' = [d \in Device |->
                      [dev[d] EXCEPT !.collects = Collects(d, o)]]
    /\ Answered(t)
    /\ UNCHANGED <<up, client_addr, list, restarts, connections, ghosts, wild>>

-----------------------------------------------------------------------------
(* process_msg_snr_threshold_reached *)

Reporting(s, cur, d) ==
    [Idle EXCEPT !.pc = "station", !.mac = s, !.cur = cur, !.answer = cur,
                 !.dev = d]

\* A server passes on the report of a station: h->sta_ip is the controller.
Relay(t, d, s, cur) ==
    /\ At(t, "idle")
    /\ dev[d].serves
    /\ Accepted(dev[d].addr,
                [thread EXCEPT ![t] = Reporting(s, cur, Null)])
    /\ UNCHANGED <<dev, up, list, restarts, faults, crossed, inserted, wild>>

find_station(t) ==
    /\ At(t, "station")
    /\ LET found == find_device(thread[t].mac, list["sta"])
       IN  IF found = {}
           THEN Goto(t, "reply")
           ELSE \E e \in found :
                  thread' = [thread EXCEPT ![t].host = e.host,
                                           ![t].pc = "scan"]
    /\ UNCHANGED <<dev, up, client_addr, list, counters, ghosts, wild>>

\* A known AP, not the present one, with a signal above the threshold.
Candidate(a, cur) ==
    /\ find_device(a.mac, list["ap"]) # {}
    /\ a.mac # cur
    /\ a.signal > signal_threshold

\* The new element for a scanned AP, if it is a candidate.
Inserted(a, cur) ==
    IF Candidate(a, cur)
    THEN <<[mac |-> a.mac, traffic |-> -2,
            host |-> (CHOOSE e \in find_device(a.mac, list["ap"]) : TRUE).host]>>
    ELSE <<>>

\* insert_ap_range puts every candidate in front; range[i] is the list after
\* i elements of the scan.
insert_ap_range(aps, cur) ==
    LET range[i \in 0..Len(aps)] ==
            IF i = 0 THEN <<>> ELSE Inserted(aps[i], cur) \o range[i - 1]
    IN  range[Len(aps)]

\* send_msg_get_ap_in_range: its result is not looked at before it is used,
\* and neither is the address of the present AP.
get_ap_in_range(t) ==
    /\ At(t, "scan")
    /\ \E o \in Outcome(thread[t].host) :
         /\ faults' = o.faults
         /\ \/ /\ o.dev = Null
               /\ Crash("scan")
            \/ /\ o.dev # Null
               /\ \E aps \in Scan :
                    IF /\ thread[t].cur = Null
                       /\ \E i \in DOMAIN aps : aps[i].mac \in Macs(list["ap"])
                    THEN Crash("current")
                    ELSE LET range == insert_ap_range(aps, thread[t].cur)
                         IN  /\ thread' = [thread EXCEPT
                                  ![t].aps = aps, ![t].range = range,
                                  ![t].pc = IF range = <<>> THEN "reply"
                                            ELSE "traffic"]
                             /\ UNCHANGED <<dev, up, wild>>
    /\ UNCHANGED <<client_addr, list, restarts, connections, ghosts>>

\* send_msg_mean_sta_statistics to the next candidate; -1 when it fails.  A
\* device that collects nothing answers without values, which are read all
\* the same.  The request is built with a pointer
\* that was never assigned.
get_traffic(t) ==
    /\ At(t, "traffic")
    /\ LET r == thread[t].range
           todo == {i \in DOMAIN r : r[i].traffic = -2}
           i == CHOOSE j \in todo : \A k \in todo : j <= k
           Set(v) == thread' = [thread EXCEPT
                        ![t].range[i].traffic = v,
                        ![t].pc = IF todo = {i} THEN "choose" ELSE @]
       IN  \/ /\ Crash("uninitialized")
              /\ UNCHANGED faults
           \/ \E o \in Outcome(r[i].host) :
                /\ faults' = o.faults
                /\ \/ /\ o.dev = Null
                      /\ Set(-1)
                      /\ UNCHANGED <<dev, up, wild>>
                   \/ /\ o.dev # Null /\ dev[o.dev].collects
                      /\ \E v \in Traffic : Set(v)
                      /\ UNCHANGED <<dev, up, wild>>
                   \/ /\ o.dev # Null /\ ~dev[o.dev].collects
                      /\ Crash(IF \E u \in Thread :
                                      thread[u].pc = "set_statistics"
                               THEN "early" ELSE "statistics")
    /\ UNCHANGED <<client_addr, list, restarts, connections, ghosts>>

\* Mutant: the test for an AP that did not answer is left out.
Least_WithFailed(r) ==
    {i \in DOMAIN r : /\ \A j \in DOMAIN r : r[i].traffic <= r[j].traffic
                      /\ \A j \in 1..(i - 1) : r[i].traffic < r[j].traffic}

\* The candidate with the least traffic, the first of several.
Least(r) ==
    LET answered == {i \in DOMAIN r : r[i].traffic # -1}
    IN  {i \in answered : \A j \in answered :
            /\ r[i].traffic <= r[j].traffic
            /\ r[i].traffic = r[j].traffic => i <= j}

\* h->mac_ap has been freed when no candidate turns out to be usable.
choose_ap(t) ==
    /\ At(t, "choose")
    /\ LET best == Least(thread[t].range)
       IN  IF best = {}
           THEN Crash("freed")
           ELSE /\ \E i \in best :
                     thread' = [thread EXCEPT
                                  ![t].answer = thread[t].range[i].mac,
                                  ![t].pc = "reply"]
                /\ UNCHANGED <<dev, up, wild>>
    /\ UNCHANGED <<client_addr, list, counters, ghosts>>

reply(t) ==
    /\ At(t, "reply")
    /\ dev' = [d \in Device |->
                 IF d = thread[t].dev
                 THEN [dev[d] EXCEPT !.main = "answer",
                                     !.answer = thread[t].answer]
                 ELSE dev[d]]
    /\ Answered(t)
    /\ UNCHANGED <<up, client_addr, list, counters, ghosts, wild>>

-----------------------------------------------------------------------------
(* The loop of main() of a station *)

\* get_iw_link: nothing when the station is on no AP.  Of the line "Connected
\* to <address>" of iw 4.9 the word after "Connected" is taken.
Link(s) == IF dev[s].ap = Null THEN {Null} ELSE {dev[s].ap, To}

\* snr <= get_snr_threshold(), send_msg_snr_threshold_reached.
Measure(t, s) ==
    /\ At(t, "idle")
    /\ dev[s].main = "measure"
    /\ \E cur \in Link(s) :
         /\ dev' = [dev EXCEPT ![s].main = "wait", ![s].cur = cur]
         /\ Accepted(dev[s].addr, [thread EXCEPT ![t] = Reporting(s, cur, s)])
    /\ UNCHANGED <<up, list, restarts, faults, crossed, inserted, wild>>

Watching(r) == [r EXCEPT !.main = "measure", !.cur = Null, !.answer = Null]

\* strcmp(m->mac_ap, iwl->mac_address): ends the station when there is none.
Compare(s) ==
    /\ dev[s].main = "answer"
    /\ dev' = [dev EXCEPT ![s] =
                 IF @.cur = Null THEN Down
                 ELSE IF @.cur # @.answer THEN [@ EXCEPT !.main = "roam"]
                 ELSE Watching(@)]
    /\ thread' = IF dev[s].cur = Null THEN Left(s) ELSE thread
    /\ UNCHANGED <<up, client_addr, list, counters, ghosts, wild>>

\* roam_change_ap returns 0 when the station has not moved, too; -1 only
\* when there is no wpa_cli.  send_msg_changed_ap follows in every case.
roam_change_ap(s) ==
    /\ dev[s].main = "roam"
    /\ \E ap \in {dev[s].ap, dev[s].answer} :
          dev' = [dev EXCEPT ![s].main = "changed", ![s].ap = ap]
    /\ UNCHANGED <<up, client_addr, list, thread, counters, ghosts, wild>>

\* process_msg_changed_ap only logs the message.
changed_ap(s) ==
    /\ dev[s].main = "changed"
    /\ dev' = [dev EXCEPT ![s] = Watching(@)]
    /\ IF up THEN Accepted(dev[s].addr, thread)
       ELSE UNCHANGED <<client_addr, thread, shared, connections>>
    /\ UNCHANGED <<up, list, restarts, faults, crossed, inserted, wild>>

-----------------------------------------------------------------------------

ServletStep(t) ==
    \/ get_one_intf(t)
    \/ insert_find(t)
    \/ insert_link(t)
    \/ insert_publish(t)
    \/ get_interfaces(t)
    \/ set_snr(t)
    \/ set_statistics(t)
    \/ find_station(t)
    \/ get_ap_in_range(t)
    \/ get_traffic(t)
    \/ choose_ap(t)
    \/ reply(t)

Next ==
    \/ \E s \in Sta, a \in Address, created \in BOOLEAN, ap \in First :
          StartStation(s, a, created, ap)
    \/ \E d \in Ap, a \in Address : StartAp(d, a)
    \/ \E d \in Device : Stop(d)
    \/ ControllerStart
    \/ \E t \in Thread, d \in Device : process_msg_hello(t, d)
    \/ \E t \in Thread, d \in Device, s \in Sta, cur \in First :
          Relay(t, d, s, cur)
    \/ \E t \in Thread, s \in Sta : Measure(t, s)
    \/ \E s \in Sta : Compare(s) \/ roam_change_ap(s) \/ changed_ap(s)
    \/ \E t \in Thread : ServletStep(t)

Spec == Init /\ [][Next]_vars

-----------------------------------------------------------------------------
(* Properties *)

Entry == [mac : Device, host : Address,
          of : {Null} \cup [mac : Device, host : Address]]

ApInRange == [mac : Ap, host : Address, traffic : {-2, -1} \cup Traffic]

\* The values the variables of the controller and of the devices can have; a
\* station waits only for a controller that runs.
TypeOK ==
    /\ dev \in [Device -> [addr : Address \cup {Null}, serves : BOOLEAN,
                           main : {"down", "join", "eloop", "measure", "wait",
                                   "answer", "roam", "changed"},
                           snr : {"default", "set"}, collects : BOOLEAN,
                           ap : Mac, cur : Mac, answer : Mac]]
    /\ up \in BOOLEAN
    /\ \A s \in Sta : dev[s].main = "wait" => up
    /\ client_addr \in Address \cup {Null}
    /\ DOMAIN list = {"ap", "sta"}
    /\ \A k \in DOMAIN list : \A i \in DOMAIN list[k] : list[k][i] \in Entry
    /\ \A t \in Thread :
         /\ thread[t].pc \in {"idle"} \cup HelloPcs \cup ReportPcs
         /\ thread[t].entry \in Device \cup {Null} \cup Entry
         /\ \A i \in DOMAIN thread[t].range : thread[t].range[i] \in ApInRange
         /\ {thread[t].cur, thread[t].answer} \subseteq Mac
    /\ restarts \in 0..MaxRestarts /\ faults \in 0..MaxFaults
    /\ connections \in 0..MaxConnections
    /\ {shared, crossed} \subseteq BOOLEAN
    /\ wild \in {"none", "interfaces", "scan", "current", "early", "statistics",
                 "uninitialized", "freed"}

\* configure_experiment: an element of list_aps and list_stations has the
\* address of the device that said hello and the host it said it from, in the
\* list of its kind, unless another connection was accepted or a device was
\* restarted while the hello was handled.
EntryTrue ==
    \A k \in DOMAIN list : \A i \in DOMAIN list[k] :
        LET e == list[k][i]
        IN  e.of # Null =>
                e.mac = e.of.mac /\ e.host = e.of.host /\ k = Kind(e.mac)

\* insert_device: a device is in a list once, and is never lost from it,
\* unless two servlets inserted into the list at the same time.
ListsSound ==
    crossed \/ \A k \in DOMAIN list :
        /\ \A i, j \in DOMAIN list[k] : list[k][i].mac = list[k][j].mac => i = j
        /\ Macs(list[k]) = {m \in Device : <<k, m>> \in inserted}

\* process_msg_snr_threshold_reached and configure_experiment: as long as no
\* device or controller has been restarted, no exchange has failed and no
\* connection has come while a hello was handled, the controller only ends
\* by the pointer it never assigns, by a report of a station on no AP, or by
\* asking an AP in its list that it has yet to ask to collect statistics.
NoWildAccess ==
    \/ wild \in {"none", "uninitialized", "current", "early"}
    \/ restarts > 0 \/ faults > 0 \/ shared

\* process_msg_snr_threshold_reached: an answer other than the AP reported is
\* a known AP that was seen above the threshold, with the least traffic of
\* those that answered; and when there is a candidate the AP reported is
\* never the answer.
BestAnswer ==
    \A t \in Thread : thread[t].pc = "reply" =>
        LET h == thread[t]
            r == h.range
        IN  /\ r # <<>> => h.answer # h.cur
            /\ h.answer # h.cur =>
                 /\ crossed \/ h.answer \in Macs(list["ap"])
                 /\ \E i \in DOMAIN h.aps : /\ h.aps[i].mac = h.answer
                                            /\ h.aps[i].signal > signal_threshold
                 /\ \E i \in DOMAIN r :
                      /\ r[i].mac = h.answer /\ r[i].traffic >= 0
                      /\ \A j \in DOMAIN r :
                           r[j].traffic >= 0 => r[i].traffic <= r[j].traffic
=============================================================================
