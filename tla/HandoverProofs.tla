---------------------------- MODULE HandoverProofs ----------------------------
(***************************************************************************)
(* Proofs about module Handover, for any devices, addresses, scans and     *)
(* servlets, and any number of restarts, failed exchanges and connections. *)
(*                                                                         *)
(* The inductive invariants are built in layers, each proved with the help *)
(* of the ones before: the types and what belongs to a control state; who  *)
(* an element is for; what two insertions may do to a list; what a report  *)
(* has found out; and what holds as long as nothing has gone wrong.        *)
(***************************************************************************)
EXTENDS Handover, NatLemmas, SequenceTheorems

Pcs == {"idle"} \cup HelloPcs \cup ReportPcs

Crashes == {"interfaces", "scan", "current", "early", "statistics",
            "uninitialized", "freed"}

DeviceType ==
    [addr : Address \cup {Null}, serves : BOOLEAN,
     main : {"down", "join", "eloop", "measure", "wait", "answer", "roam",
             "changed"},
     snr : {"default", "set"}, collects : BOOLEAN,
     ap : Mac, cur : Mac, answer : Mac]

ServletType ==
    [pc : Pcs, dev : Device \cup {Null}, own : Address \cup {Null},
     mac : Device \cup {Null}, entry : Device \cup {Null} \cup Entry,
     seen : Seq(Entry), cur : Mac, host : Address \cup {Null},
     aps : Seq([mac : Ap, signal : Int]), range : Seq(ApInRange),
     answer : Mac]

\* A process has an address as long as it runs, and one that serves is in no other
\* loop.
DeviceSound(r) ==
    /\ IF r.main = "down" THEN r.addr = Null ELSE r.addr \in Address
    /\ r.serves => r.main \in {"join", "eloop"}

\* What a servlet holds in a control state.
ServletSound(r) ==
    /\ r.pc \in HelloPcs \cup ReportPcs => r.mac \in Device
    /\ r.pc \in {"find", "link"} => r.entry \in Device
    /\ r.pc = "publish" => r.entry \in Entry
    /\ r.own # Null => r.pc \in HelloPcs

DevicesOK ==
    /\ dev \in [Device -> DeviceType]
    /\ \A d \in Device : DeviceSound(dev[d])

ServletsOK ==
    /\ thread \in [Thread -> ServletType]
    /\ \A t \in Thread : ServletSound(thread[t])

\* A station whose report is handled waits for the answer, of one servlet.
WaitOK ==
    /\ \A t \in Thread :
          thread[t].pc \in ReportPcs /\ thread[t].dev # Null
            => dev[thread[t].dev].main = "wait"
    /\ \A t, u \in Thread :
          (/\ thread[t].pc \in ReportPcs /\ thread[u].pc \in ReportPcs
           /\ thread[t].dev = thread[u].dev /\ thread[t].dev # Null)
            => t = u

\* A controller that does not run serves nobody, and one that does knows
\* the name of a peer.
UpOK ==
    /\ up \in BOOLEAN
    /\ ~up => \A t \in Thread : thread[t].pc = "idle"
    /\ ~up => \A d \in Device : dev[d].main # "wait"
    /\ client_addr \in Address \cup {Null}
    /\ \A t \in Thread : thread[t].pc # "idle" => client_addr \in Address

ListOK ==
    /\ list \in [{"ap", "sta"} -> Seq(Entry)]
    /\ inserted \in SUBSET ({"ap", "sta"} \X Device)

CountersOK ==
    /\ restarts \in 0..MaxRestarts
    /\ faults \in 0..MaxFaults
    /\ connections \in 0..MaxConnections

GhostsOK ==
    /\ shared \in BOOLEAN
    /\ crossed \in BOOLEAN
    /\ wild \in {"none"} \cup Crashes

TypeInv == /\ DevicesOK /\ ServletsOK /\ WaitOK /\ UpOK /\ ListOK
           /\ CountersOK /\ GhostsOK

-----------------------------------------------------------------------------

\* No two devices have one address.
OwnAddress ==
    \A d, e \in Device : dev[d].addr = dev[e].addr /\ dev[d].addr # Null
                            => d = e

\* A hello that nothing has disturbed is handled under its own name.
Undisturbed_OK(r) ==
    r.own # Null =>
        /\ client_addr = r.own
        /\ dev[r.mac].addr = r.own
        /\ r.pc \in {"find", "link"} => r.entry = r.mac

TrueIn(e, k) ==
    e.of # Null => e.mac = e.of.mac /\ e.host = e.of.host /\ k = Kind(e.mac)

EntryInv ==
    /\ OwnAddress
    /\ \A t \in Thread : Undisturbed_OK(thread[t])
    /\ \A t \in Thread : thread[t].pc = "publish" =>
          /\ TrueIn(thread[t].entry, ListOf(t))
          /\ \A i \in DOMAIN thread[t].seen : TrueIn(thread[t].seen[i], ListOf(t))
    /\ \A k \in {"ap", "sta"} : \A i \in DOMAIN list[k] : TrueIn(list[k][i], k)

-----------------------------------------------------------------------------

InsertPcs == {"link", "publish"}

\* The address of the element that a servlet is about to insert.
NewMac(r) == IF r.pc = "publish" THEN r.entry.mac ELSE r.entry

Distinct(l) == \A i, j \in DOMAIN l : l[i].mac = l[j].mac => i = j

\* As long as no two insertions into a list overlap, the one that is under
\* way saw the list as it is, without the new device.
ListInv ==
    crossed \/
      /\ \A t \in Thread : thread[t].pc \in InsertPcs =>
            NewMac(thread[t]) \notin Macs(list[ListOf(t)])
      /\ \A t \in Thread : thread[t].pc = "publish" =>
            thread[t].seen = list[ListOf(t)]
      /\ \A t, u \in Thread :
            (/\ thread[t].pc \in InsertPcs /\ thread[u].pc \in InsertPcs
             /\ ListOf(t) = ListOf(u))
              => t = u
      /\ \A k \in {"ap", "sta"} :
            /\ Distinct(list[k])
            /\ Macs(list[k]) = {m \in Device : <<k, m>> \in inserted}

-----------------------------------------------------------------------------

Known(mac) == crossed \/ mac \in Macs(list["ap"])

SeenAbove(aps, mac) ==
    \E i \in DOMAIN aps : aps[i].mac = mac /\ aps[i].signal > signal_threshold

\* What a report has found out: candidates, and then the best of them.
Found(h) ==
    \A i \in DOMAIN h.range :
        /\ h.range[i].mac # h.cur
        /\ Known(h.range[i].mac)
        /\ SeenAbove(h.aps, h.range[i].mac)

Pending(h) == {i \in DOMAIN h.range : h.range[i].traffic = -2}

Best(h) ==
    /\ h.range # <<>> => h.answer # h.cur
    /\ h.answer # h.cur =>
         /\ Known(h.answer)
         /\ SeenAbove(h.aps, h.answer)
         /\ \E i \in DOMAIN h.range :
              /\ h.range[i].mac = h.answer /\ h.range[i].traffic >= 0
              /\ \A j \in DOMAIN h.range :
                   h.range[j].traffic >= 0
                     => h.range[i].traffic <= h.range[j].traffic

ReportSound(h) ==
    /\ h.pc \in {"station", "scan"} => h.range = <<>> /\ h.answer = h.cur
    /\ h.pc = "traffic" => Pending(h) # {}
    /\ h.pc = "choose" => Pending(h) = {}
    /\ h.pc \in {"traffic", "choose"} => Found(h)
    /\ h.pc = "reply" => Best(h)

ReportInv == \A t \in Thread : ReportSound(thread[t])

-----------------------------------------------------------------------------

Calm == restarts = 0 /\ faults = 0 /\ ~shared

\* The device answers at the address.
Reaches(mac, a) == dev[mac].addr = a /\ dev[mac].serves

\* The AP collects statistics, or is about to be asked to.
Collected(mac) ==
    \/ dev[mac].collects
    \/ \E t \in Thread : thread[t].pc = "set_statistics" /\ thread[t].mac = mac

CalmHello(r) ==
    r.pc \in HelloPcs =>
        /\ Reaches(r.mac, client_addr)
        /\ r.pc \in {"find", "link"} => r.entry = r.mac
        /\ r.pc = "publish" => r.entry.mac = r.mac /\ r.entry.host = client_addr
        /\ r.pc = "set_statistics" => r.mac \in Ap
        /\ r.pc \in {"interfaces", "set_snr"} => r.mac \in Sta

CalmReport(r) ==
    /\ r.pc = "scan" => \E d \in Device : Reaches(d, r.host)
    /\ r.pc \in {"traffic", "choose"} =>
          /\ r.range # <<>>
          /\ \A i \in DOMAIN r.range :
                /\ Reaches(r.range[i].mac, r.range[i].host)
                /\ Collected(r.range[i].mac)
                /\ r.range[i].traffic # -1

OneHello ==
    \A t, u \in Thread : thread[t].pc \in HelloPcs /\ thread[u].pc \in HelloPcs
                            => t = u

\* As long as nothing has gone wrong there is one hello at a time, whoever
\* is in a list can be reached, and only the accesses that need no fault
\* have happened.
CalmState ==
    /\ ~crossed
    /\ wild \in {"none", "uninitialized", "current", "early"}
    /\ OneHello
    /\ \A t \in Thread : CalmHello(thread[t]) /\ CalmReport(thread[t])
    /\ \A k \in {"ap", "sta"} : \A i \in DOMAIN list[k] :
          Reaches(list[k][i].mac, list[k][i].host) /\ Kind(list[k][i].mac) = k
    /\ up => \A i \in DOMAIN list["ap"] : Collected(list["ap"][i].mac)

CalmInv == Calm => CalmState

-----------------------------------------------------------------------------
(* The types, and what belongs to a control state *)

LEMMA InitType == Init => TypeInv
<1>1. SUFFICES ASSUME Init
               PROVE  TypeInv
  OBVIOUS
<1>2. Down \in DeviceType /\ DeviceSound(Down)
  BY DEF Down, DeviceType, DeviceSound, Mac
<1>3. DevicesOK
  BY <1>1, <1>2 DEF Init, DevicesOK
<1>4. Idle \in ServletType /\ ServletSound(Idle)
  BY DEF Idle, ServletType, ServletSound, Mac, Pcs, HelloPcs, ReportPcs
<1>5. ServletsOK
  BY <1>1, <1>4 DEF Init, ServletsOK
<1>6. WaitOK
  BY <1>1 DEF Init, WaitOK, Idle, ReportPcs
<1>7. UpOK
  BY <1>1 DEF Init, UpOK, Idle
<1>8. ListOK
  BY <1>1 DEF Init, ListOK
<1>9. CountersOK
  BY <1>1, HandoverConstants DEF Init, CountersOK
<1>10. GhostsOK
  BY <1>1 DEF Init, GhostsOK
<1>11. QED
  BY <1>3, <1>5, <1>6, <1>7, <1>8, <1>9, <1>10 DEF TypeInv

\* What an exchange can come to.
LEMMA OutcomeFacts ==
    ASSUME CountersOK, NEW a, NEW o \in Outcome(a)
    PROVE  /\ o.dev \in Device \cup {Null}
           /\ o.dev # Null => o.dev \in Serving(a)
           /\ o.faults \in faults..MaxFaults
           /\ o.dev = Null /\ Serving(a) # {} => o.faults # 0
BY HandoverConstants DEF Outcome, Serving, CountersOK, Device

\* One servlet goes on as r.
LEMMA OneServlet ==
    ASSUME ServletsOK, NEW t \in Thread, NEW r \in ServletType,
           ServletSound(r), thread' = [thread EXCEPT ![t] = r]
    PROVE  /\ ServletsOK'
           /\ \A u \in Thread : thread'[u] = IF u = t THEN r ELSE thread[u]
BY DEF ServletsOK

\* Nobody begins to wait, and whoever is waited for goes on waiting.
LEMMA NobodyNewWaits ==
    ASSUME WaitOK,
           \A t \in Thread :
              thread'[t].pc \in ReportPcs /\ thread'[t].dev # Null =>
                 /\ thread[t].pc \in ReportPcs
                 /\ thread'[t].dev = thread[t].dev
                 /\ dev[thread[t].dev].main = "wait"
                       => dev'[thread[t].dev].main = "wait"
    PROVE  WaitOK'
BY DEF WaitOK

\* The servlet of an exchange that ends the controller.
LEMMA CrashType ==
    ASSUME TypeInv, NEW at \in Crashes, Crash(at), faults' \in 0..MaxFaults,
           UNCHANGED <<client_addr, list, restarts, connections, ghosts>>
    PROVE  TypeInv'
<1>1. DevicesOK'
  <2>1. ASSUME NEW d \in Device
        PROVE  Released[d] \in DeviceType /\ DeviceSound(Released[d])
    <3>1. dev[d] \in DeviceType /\ DeviceSound(dev[d])
      BY DEF TypeInv, DevicesOK
    <3> DEFINE r == [dev[d] EXCEPT !.main = "measure", !.cur = Null]
    <3>2. Released[d] = IF dev[d].main = "wait" THEN r ELSE dev[d]
      BY DEF Released
    <3>3. dev[d].main = "wait" => r \in DeviceType /\ DeviceSound(r)
      BY <3>1 DEF DeviceType, DeviceSound, Mac
    <3>4. QED
      BY <3>1, <3>2, <3>3
  <2>2. Released = [d \in Device |-> Released[d]]
    BY DEF Released
  <2>3. dev' = Released
    BY DEF Crash
  <2>4. QED
    BY <2>1, <2>2, <2>3 DEF DevicesOK
<1>2. Idle \in ServletType /\ ServletSound(Idle)
  BY DEF Idle, ServletType, ServletSound, Mac, Pcs, HelloPcs, ReportPcs
<1>3. ServletsOK'
  BY <1>2 DEF Crash, ServletsOK
<1>4. WaitOK'
  BY DEF Crash, WaitOK, Idle, ReportPcs
<1>5. UpOK'
  <2>1. ~up' /\ client_addr' = client_addr /\ \A t \in Thread : thread'[t].pc = "idle"
    BY DEF Crash, Idle
  <2>2. \A d \in Device : dev'[d].main # "wait"
    BY DEF TypeInv, DevicesOK, DeviceType, Crash, Released
  <2>3. QED
    BY <2>1, <2>2 DEF TypeInv, UpOK, Crash
<1>6. ListOK'
  BY DEF TypeInv, ListOK, ghosts
<1>7. CountersOK'
  BY DEF TypeInv, CountersOK
<1>8. GhostsOK'
  BY DEF TypeInv, GhostsOK, Crash, ghosts
<1>9. QED
  BY <1>1, <1>3, <1>4, <1>5, <1>6, <1>7, <1>8 DEF TypeInv

\* A servlet that is not at rest goes on as r; the devices stay as they are.
LEMMA ServletType_Step ==
    ASSUME TypeInv, NEW t \in Thread, NEW r \in ServletType,
           ServletSound(r), thread' = [thread EXCEPT ![t] = r],
           thread[t].pc # "idle", up,
           r.pc \in ReportPcs /\ r.dev # Null =>
              thread[t].pc \in ReportPcs /\ r.dev = thread[t].dev,
           UNCHANGED <<dev, up, client_addr, restarts, connections, shared, wild>>,
           faults' \in 0..MaxFaults, crossed' \in BOOLEAN, ListOK'
    PROVE  TypeInv'
<1>1. /\ ServletsOK'
      /\ \A u \in Thread : thread'[u] = IF u = t THEN r ELSE thread[u]
  BY OneServlet DEF TypeInv
<1>2. DevicesOK'
  BY DEF TypeInv, DevicesOK
<1>3. WaitOK'
  <2>1. WaitOK
    BY DEF TypeInv
  <2>2. QED
    BY <1>1, <2>1, NobodyNewWaits
<1>4. UpOK'
  BY <1>1 DEF TypeInv, UpOK
<1>5. CountersOK'
  BY DEF TypeInv, CountersOK
<1>6. GhostsOK'
  BY DEF TypeInv, GhostsOK
<1>7. QED
  BY <1>1, <1>2, <1>3, <1>4, <1>5, <1>6 DEF TypeInv

\* What the steps below need to know of the servlet they are about.
LEMMA ServletFacts ==
    ASSUME TypeInv, NEW t \in Thread
    PROVE  thread[t] \in ServletType /\ ServletSound(thread[t])
BY DEF TypeInv, ServletsOK

LEMMA AfterInsertType ==
    ASSUME NEW t \in Thread
    PROVE  AfterInsert(t) \in {"set_statistics", "interfaces"}
BY DEF AfterInsert

LEMMA ListOfType ==
    ASSUME NEW t \in Thread
    PROVE  ListOf(t) \in {"ap", "sta"}
BY DEF ListOf, Kind

LEMMA GetOneIntfType ==
    ASSUME TypeInv, NEW t \in Thread, get_one_intf(t)
    PROVE  TypeInv'
<1>1. PICK o \in Outcome(client_addr) :
         /\ thread' = [thread EXCEPT ![t].entry = o.dev,
                                     ![t].pc = IF o.dev = Null THEN AfterInsert(t)
                                               ELSE "find"]
         /\ faults' = o.faults
  BY DEF get_one_intf
<1>2. o.dev \in Device \cup {Null} /\ o.faults \in faults..MaxFaults
  BY OutcomeFacts DEF TypeInv
<1> DEFINE pc == IF o.dev = Null THEN AfterInsert(t) ELSE "find"
           r == [thread[t] EXCEPT !.entry = o.dev, !.pc = pc]
<1>3. thread[t] \in ServletType /\ ServletSound(thread[t]) /\ thread[t].pc = "one_intf"
  BY ServletFacts DEF get_one_intf, At
<1>4. thread' = [thread EXCEPT ![t] = r]
  BY <1>1 DEF TypeInv, ServletsOK, ServletType
<1>5. pc \in {"find", "set_statistics", "interfaces"} /\ (pc = "find" => o.dev \in Device)
  BY <1>2, AfterInsertType
<1> HIDE DEF pc
<1>6. r \in ServletType
  BY <1>2, <1>3, <1>5 DEF ServletType, Pcs, HelloPcs
<1>7. ServletSound(r)
  BY <1>2, <1>3, <1>5 DEF ServletSound, ServletType, HelloPcs, ReportPcs
<1>8. r.pc \notin ReportPcs
  BY <1>3, <1>5 DEF ServletType, ReportPcs
<1>9. ListOK' /\ faults' \in 0..MaxFaults /\ crossed' \in BOOLEAN
  BY <1>1, <1>2 DEF TypeInv, ListOK, CountersOK, GhostsOK, get_one_intf, ghosts
<1> HIDE DEF r
<1>10. QED
  BY <1>3, <1>4, <1>6, <1>7, <1>8, <1>9, ServletType_Step DEF get_one_intf, At, ghosts

LEMMA InsertFindType ==
    ASSUME TypeInv, NEW t \in Thread, insert_find(t)
    PROVE  TypeInv'
<1> DEFINE new == find_device(thread[t].entry, list[ListOf(t)]) = {}
           pc == IF new THEN "link" ELSE AfterInsert(t)
           en == IF new THEN thread[t].entry ELSE Null
           r == [thread[t] EXCEPT !.entry = en, !.pc = pc]
<1>1. thread[t] \in ServletType /\ ServletSound(thread[t]) /\ thread[t].pc = "find"
  BY ServletFacts DEF insert_find, At
<1>2. thread' = [thread EXCEPT ![t] = r]
  BY DEF TypeInv, ServletsOK, ServletType, insert_find
<1>3. /\ pc \in {"link", "set_statistics", "interfaces"}
      /\ pc = "link" => en \in Device
      /\ en \in Device \cup {Null}
  BY <1>1, AfterInsertType DEF ServletSound
<1> HIDE DEF pc, en
<1>4. r \in ServletType
  BY <1>1, <1>3 DEF ServletType, Pcs, HelloPcs
<1>5. ServletSound(r)
  BY <1>1, <1>3 DEF ServletSound, ServletType, HelloPcs, ReportPcs
<1>6. r.pc \notin ReportPcs
  BY <1>1, <1>3 DEF ServletType, ReportPcs
<1>7. crossed' \in BOOLEAN
  BY DEF TypeInv, GhostsOK, insert_find
<1>8. ListOK' /\ faults' \in 0..MaxFaults
  BY DEF TypeInv, ListOK, CountersOK, insert_find, counters
<1> HIDE DEF r
<1>9. QED
  BY <1>1, <1>2, <1>4, <1>5, <1>6, <1>7, <1>8, ServletType_Step
     DEF insert_find, At, counters

LEMMA InsertLinkType ==
    ASSUME TypeInv, NEW t \in Thread, insert_link(t)
    PROVE  TypeInv'
<1> DEFINE en == [mac |-> thread[t].entry, host |-> client_addr,
                  of |-> Undisturbed(t)]
           l == list[ListOf(t)]
           r == [thread[t] EXCEPT !.entry = en, !.seen = l, !.pc = "publish"]
<1>1. thread[t] \in ServletType /\ ServletSound(thread[t]) /\ thread[t].pc = "link"
  BY ServletFacts DEF insert_link, At
<1>2. thread' = [thread EXCEPT ![t] = r]
  BY DEF TypeInv, ServletsOK, ServletType, insert_link
<1>3. en \in Entry
  <2>1. client_addr \in Address
    BY <1>1 DEF TypeInv, UpOK
  <2>2. thread[t].entry \in Device
    BY <1>1 DEF ServletSound
  <2>3. thread[t].mac \in Device /\ thread[t].own \in Address \cup {Null}
    BY <1>1 DEF ServletSound, ServletType, HelloPcs
  <2>4. Undisturbed(t) \in {Null} \cup [mac : Device, host : Address]
    BY <2>3 DEF Undisturbed
  <2>5. QED
    BY <2>1, <2>2, <2>4 DEF Entry
<1>4. l \in Seq(Entry)
  BY ListOfType DEF TypeInv, ListOK
<1> HIDE DEF en, l
<1>5. r \in ServletType
  BY <1>1, <1>3, <1>4 DEF ServletType, Pcs, HelloPcs
<1>6. ServletSound(r)
  BY <1>1, <1>3 DEF ServletSound, ServletType, HelloPcs, ReportPcs
<1>7. r.pc \notin ReportPcs
  BY <1>1 DEF ServletType, ReportPcs
<1>8. ListOK' /\ faults' \in 0..MaxFaults /\ crossed' \in BOOLEAN
  BY DEF TypeInv, ListOK, CountersOK, GhostsOK, insert_link, counters, ghosts
<1> HIDE DEF r
<1>9. QED
  BY <1>1, <1>2, <1>5, <1>6, <1>7, <1>8, ServletType_Step
     DEF insert_link, At, counters, ghosts

LEMMA InsertPublishType ==
    ASSUME TypeInv, NEW t \in Thread, insert_publish(t)
    PROVE  TypeInv'
<1> DEFINE pc == AfterInsert(t)
           r == [thread[t] EXCEPT !.entry = Null, !.seen = <<>>, !.pc = pc]
<1>1. thread[t] \in ServletType /\ ServletSound(thread[t]) /\ thread[t].pc = "publish"
  BY ServletFacts DEF insert_publish, At
<1>2. thread' = [thread EXCEPT ![t] = r]
  BY DEF TypeInv, ServletsOK, ServletType, insert_publish
<1>3. pc \in {"set_statistics", "interfaces"}
  BY AfterInsertType
<1>4. <<>> \in Seq(Entry)
  OBVIOUS
<1> HIDE DEF pc
<1>5. r \in ServletType
  BY <1>1, <1>3, <1>4 DEF ServletType, Pcs, HelloPcs
<1>6. ServletSound(r)
  BY <1>1, <1>3 DEF ServletSound, ServletType, HelloPcs, ReportPcs
<1>7. r.pc \notin ReportPcs
  BY <1>1, <1>3 DEF ServletType, ReportPcs
<1>8. ListOK'
  <2>1. thread[t].entry \in Entry /\ thread[t].seen \in Seq(Entry)
    BY <1>1 DEF ServletSound, ServletType
  <2>2. <<thread[t].entry>> \o thread[t].seen \in Seq(Entry)
    BY <2>1
  <2>3. thread[t].entry.mac \in Device
    BY <2>1 DEF Entry
  <2>4. list' \in [{"ap", "sta"} -> Seq(Entry)]
    BY <2>2 DEF insert_publish, TypeInv, ListOK
  <2>5. inserted' \in SUBSET ({"ap", "sta"} \X Device)
    BY <2>3, ListOfType DEF insert_publish, TypeInv, ListOK
  <2>6. QED
    BY <2>4, <2>5 DEF ListOK
<1>9. faults' \in 0..MaxFaults /\ crossed' \in BOOLEAN
  BY DEF TypeInv, CountersOK, GhostsOK, insert_publish, counters
<1> HIDE DEF r
<1>10. QED
  BY <1>1, <1>2, <1>5, <1>6, <1>7, <1>8, <1>9, ServletType_Step
     DEF insert_publish, At, counters

-----------------------------------------------------------------------------
(* insert_ap_range *)

\* g holds the lists that insert_ap_range makes of the first n elements.
Prepends(g, n, aps, cur) ==
    g = [i \in 0..n |->
           IF i = 0 THEN <<>> ELSE Inserted(aps[i], cur) \o g[i - 1]]

LEMMA PrependsExists ==
    ASSUME NEW aps, NEW cur, NEW n \in Nat
    PROVE  \E g : Prepends(g, n, aps, cur)
<1> DEFINE S == {m \in Nat : \E g : Prepends(g, m, aps, cur)}
<1>1. 0 \in S
  <2> DEFINE g == [i \in 0..0 |-> <<>>]
  <2>1. Prepends(g, 0, aps, cur)
    BY DEF Prepends
  <2>2. QED
    BY <2>1
<1>2. ASSUME NEW m \in Nat, m \in S
      PROVE  m + 1 \in S
  <2>1. PICK g : Prepends(g, m, aps, cur)
    BY <1>2
  <2> DEFINE new == Inserted(aps[m + 1], cur) \o g[m]
             h == [i \in 0..(m + 1) |-> IF i = m + 1 THEN new ELSE g[i]]
             b == [i \in 0..(m + 1) |->
                     IF i = 0 THEN <<>> ELSE Inserted(aps[i], cur) \o h[i - 1]]
  <2>2. ASSUME NEW i \in 0..(m + 1)
        PROVE  h[i] = b[i]
    <3>1. CASE i = m + 1
      <4>1. i - 1 = m /\ i - 1 \in 0..(m + 1) /\ i - 1 # m + 1 /\ i # 0
        BY <3>1
      <4>2. h[i - 1] = g[m]
        BY <4>1
      <4>3. h[i] = new
        BY <3>1
      <4>4. b[i] = Inserted(aps[i], cur) \o h[i - 1]
        BY <4>1
      <4>5. QED
        BY <3>1, <4>2, <4>3, <4>4
    <3>2. CASE i # m + 1
      <4>1. i \in 0..m
        BY <3>2
      <4>2. h[i] = g[i]
        BY <3>2
      <4>3. g[i] = IF i = 0 THEN <<>> ELSE Inserted(aps[i], cur) \o g[i - 1]
        BY <2>1, <4>1 DEF Prepends
      <4>4. i # 0 => h[i - 1] = g[i - 1]
        BY <4>1
      <4>5. QED
        BY <4>2, <4>3, <4>4
    <3>3. QED
      BY <3>1, <3>2
  <2>3. h = b
    BY <2>2
  <2>4. Prepends(h, m + 1, aps, cur)
    BY <2>3 DEF Prepends
  <2>5. QED
    BY <2>4
<1>3. Nat \subseteq S
  <2> HIDE DEF S
  <2>1. QED
    BY <1>1, <1>2, NumberInduction
<1>4. QED
  BY <1>3

\* The elements that a scan can give.
Candidates(aps, cur) ==
    {x \in ApInRange :
        /\ x.traffic = -2
        /\ \E j \in DOMAIN aps :
              /\ Candidate(aps[j], cur)
              /\ x.mac = aps[j].mac
              /\ \E e \in find_device(aps[j].mac, list["ap"]) : x.host = e.host}

LEMMA FoundDevice ==
    ASSUME NEW S, NEW l \in Seq(S), NEW mac, NEW e \in find_device(mac, l)
    PROVE  /\ e \in S /\ e.mac = mac
           /\ \E i \in DOMAIN l : e = l[i]
           /\ mac \in Macs(l)
BY DEF find_device, Macs

LEMMA ScanFacts ==
    ASSUME NEW aps \in Scan
    PROVE  /\ aps \in Seq([mac : Ap, signal : Int])
           /\ Len(aps) \in Nat /\ DOMAIN aps = 1..Len(aps)
           /\ \A j \in DOMAIN aps : aps[j] \in [mac : Ap, signal : Int]
<1> DEFINE R == [mac : Ap, signal : Int]
<1>1. aps \in Seq(R)
  BY HandoverConstants
<1> HIDE DEF R
<1>2. QED
  BY <1>1, LenProperties, ElementOfSeq DEF R

LEMMA InsertedFacts ==
    ASSUME ListOK, NEW aps \in Scan, NEW cur, NEW j \in DOMAIN aps
    PROVE  Inserted(aps[j], cur) \in Seq(Candidates(aps, cur))
<1>1. CASE ~Candidate(aps[j], cur)
  BY <1>1 DEF Inserted
<1>2. CASE Candidate(aps[j], cur)
  <2> DEFINE a == aps[j]
             F == find_device(a.mac, list["ap"])
             e == CHOOSE x \in F : TRUE
             x == [mac |-> a.mac, traffic |-> -2, host |-> e.host]
  <2>1. aps[j] \in [mac : Ap, signal : Int]
    BY ScanFacts
  <2>2. a.mac \in Ap
    BY <2>1
  <2>3. e \in F
    BY <1>2 DEF Candidate
  <2>4. e \in Entry
    <3>1. list["ap"] \in Seq(Entry)
      BY DEF ListOK
    <3> HIDE DEF e
    <3>2. QED
      BY <2>3, <3>1, FoundDevice
  <2>5. e.host \in Address
    BY <2>4 DEF Entry
  <2>6. x \in ApInRange
    BY <2>2, <2>5 DEF ApInRange
  <2>7. x \in Candidates(aps, cur)
    <3>1. x.mac = aps[j].mac /\ x.traffic = -2 /\ x.host = e.host
      OBVIOUS
    <3> HIDE DEF x, e
    <3>2. QED
      BY <1>2, <2>3, <2>6, <3>1 DEF Candidates
  <2>8. Inserted(aps[j], cur) = <<x>>
    BY <1>2 DEF Inserted
  <2> HIDE DEF x
  <2>9. QED
    BY <2>7, <2>8
<1>3. QED
  BY <1>1, <1>2

\* insert_ap_range makes a list of candidates, whose traffic is yet to be
\* asked for.
LEMMA RangeFacts ==
    ASSUME ListOK, NEW aps \in Scan, NEW cur
    PROVE  insert_ap_range(aps, cur) \in Seq(Candidates(aps, cur))
<1> DEFINE n == Len(aps)
           C == Candidates(aps, cur)
<1>1. n \in Nat /\ DOMAIN aps = 1..n
  BY ScanFacts
<1> HIDE DEF n, C
<1>2. PICK g : Prepends(g, n, aps, cur) /\ insert_ap_range(aps, cur) = g[n]
  <2>1. \E g : Prepends(g, n, aps, cur)
    BY <1>1, PrependsExists
  <2>2. QED
    BY <2>1 DEF Prepends, insert_ap_range, n
<1> DEFINE S == {m \in Nat : m <= n => g[m] \in Seq(C)}
<1>3. 0 \in S
  <2>1. g[0] = <<>>
    BY <1>1, <1>2 DEF Prepends
  <2>2. g[0] \in Seq(C)
    BY <2>1, EmptySeq, Zenon
  <2>3. QED
    BY <2>2
<1>4. ASSUME NEW m \in Nat, m \in S
      PROVE  m + 1 \in S
  <2>1. SUFFICES ASSUME m + 1 <= n
                 PROVE  g[m + 1] \in Seq(C)
    OBVIOUS
  <2>2. g[m + 1] = Inserted(aps[m + 1], cur) \o g[m]
    <3>1. m + 1 \in 0..n /\ m + 1 # 0 /\ (m + 1) - 1 = m
      BY <1>1, <2>1
    <3>2. QED
      BY <1>2, <3>1 DEF Prepends
  <2>3. g[m] \in Seq(C)
    BY <1>1, <1>4, <2>1
  <2>4. m + 1 \in DOMAIN aps
    BY <1>1, <2>1
  <2>5. Inserted(aps[m + 1], cur) \in Seq(C)
    BY <2>4, InsertedFacts DEF C
  <2>6. QED
    BY <2>2, <2>3, <2>5
<1>5. Nat \subseteq S
  <2> HIDE DEF S
  <2>1. QED
    BY <1>3, <1>4, NumberInduction
<1>6. QED
  BY <1>1, <1>2, <1>5 DEF C

-----------------------------------------------------------------------------
(* The types, continued: the configuration and the reports *)

LEMMA IdleFacts == Idle \in ServletType /\ ServletSound(Idle) /\ Idle.pc = "idle"
BY DEF Idle, ServletType, ServletSound, Mac, Pcs, HelloPcs, ReportPcs

LEMMA GetInterfacesType ==
    ASSUME TypeInv, NEW t \in Thread, get_interfaces(t)
    PROVE  TypeInv'
<1>1. PICK o \in Outcome(client_addr) :
         /\ faults' = o.faults
         /\ IF o.dev = Null THEN Crash("interfaces")
            ELSE Goto(t, "set_snr") /\ UNCHANGED <<dev, up, wild>>
  BY DEF get_interfaces
<1>2. faults' \in 0..MaxFaults
  BY <1>1, OutcomeFacts DEF TypeInv, CountersOK
<1>3. UNCHANGED <<client_addr, list, restarts, connections, ghosts>>
  BY DEF get_interfaces
<1>4. CASE o.dev = Null
  BY <1>1, <1>2, <1>3, <1>4, CrashType DEF Crashes
<1>5. CASE o.dev # Null
  <2> DEFINE r == [thread[t] EXCEPT !.pc = "set_snr"]
  <2>1. thread[t] \in ServletType /\ ServletSound(thread[t]) /\ thread[t].pc = "interfaces"
    BY ServletFacts DEF get_interfaces, At
  <2>2. thread' = [thread EXCEPT ![t] = r]
    BY <1>1, <1>5 DEF Goto
  <2>3. r \in ServletType /\ r.pc = "set_snr"
    BY <2>1 DEF ServletType, Pcs, HelloPcs
  <2>4. ServletSound(r)
    BY <2>1 DEF ServletType, ServletSound, HelloPcs, ReportPcs
  <2>5. r.pc \notin ReportPcs
    BY <2>3 DEF ReportPcs
  <2>6. ListOK' /\ crossed' \in BOOLEAN
    BY <1>3 DEF TypeInv, ListOK, GhostsOK, ghosts
  <2> HIDE DEF r
  <2>7. QED
    BY <1>1, <1>2, <1>3, <1>5, <2>1, <2>2, <2>3, <2>4, <2>5, <2>6, ServletType_Step
       DEF get_interfaces, At, ghosts
<1>6. QED
  BY <1>4, <1>5

\* A servlet has answered and the devices are set as D says: a device that
\* waits for somebody else goes on waiting.
LEMMA AnswerType ==
    ASSUME TypeInv, NEW t \in Thread, Answered(t), up, DevicesOK',
           \A u \in Thread \ {t} :
              thread[u].pc \in ReportPcs /\ thread[u].dev # Null =>
                 dev'[thread[u].dev].main = dev[thread[u].dev].main,
           faults' \in 0..MaxFaults,
           UNCHANGED <<up, client_addr, list, restarts, connections, ghosts, wild>>
    PROVE  TypeInv'
<1>1. /\ ServletsOK'
      /\ \A u \in Thread : thread'[u] = IF u = t THEN Idle ELSE thread[u]
  BY IdleFacts, OneServlet DEF TypeInv, Answered
<1>2. WaitOK'
  <2>1. WaitOK
    BY DEF TypeInv
  <2>2. Idle.pc \notin ReportPcs
    BY DEF Idle, ReportPcs
  <2>3. QED
    BY <1>1, <2>1, <2>2, NobodyNewWaits
<1>3. UpOK'
  BY <1>1, IdleFacts DEF TypeInv, UpOK
<1>4. ListOK' /\ CountersOK' /\ GhostsOK'
  BY DEF TypeInv, ListOK, CountersOK, GhostsOK, ghosts
<1>5. QED
  BY <1>1, <1>2, <1>3, <1>4 DEF TypeInv

LEMMA SetSnrType ==
    ASSUME TypeInv, NEW t \in Thread, set_snr(t)
    PROVE  TypeInv'
<1>1. PICK o \in Outcome(client_addr) :
         /\ faults' = o.faults
         /\ dev' = [d \in Device |-> IF d = o.dev
                                     THEN [dev[d] EXCEPT !.snr = "set"]
                                     ELSE dev[d]]
  BY DEF set_snr
<1>2. faults' \in 0..MaxFaults
  BY <1>1, OutcomeFacts DEF TypeInv, CountersOK
<1>3. DevicesOK'
  BY <1>1 DEF TypeInv, DevicesOK, DeviceType, DeviceSound
<1>4. \A d \in Device : dev'[d].main = dev[d].main
  BY <1>1 DEF TypeInv, DevicesOK, DeviceType
<1>5. \A u \in Thread : thread[u].dev \in Device \cup {Null}
  BY DEF TypeInv, ServletsOK, ServletType
<1>6. QED
  BY <1>2, <1>3, <1>4, <1>5, AnswerType DEF set_snr, At

LEMMA SetStatisticsType ==
    ASSUME TypeInv, NEW t \in Thread, set_statistics(t)
    PROVE  TypeInv'
<1>1. PICK o \in Outcome(client_addr) :
         /\ faults' = o.faults
         /\ dev' = [d \in Device |->
                      [dev[d] EXCEPT !.collects = Collects(d, o)]]
  BY DEF set_statistics
<1>2. faults' \in 0..MaxFaults
  BY <1>1, OutcomeFacts DEF TypeInv, CountersOK
<1>3. \A d \in Device : Collects(d, o) \in BOOLEAN
  BY DEF TypeInv, DevicesOK, DeviceType, Collects
<1>4. DevicesOK'
  BY <1>1, <1>3 DEF TypeInv, DevicesOK, DeviceType, DeviceSound
<1>5. \A d \in Device : dev'[d].main = dev[d].main
  BY <1>1 DEF TypeInv, DevicesOK, DeviceType
<1>6. \A u \in Thread : thread[u].dev \in Device \cup {Null}
  BY DEF TypeInv, ServletsOK, ServletType
<1>7. QED
  BY <1>2, <1>4, <1>5, <1>6, AnswerType DEF set_statistics, At

LEMMA ReplyType ==
    ASSUME TypeInv, NEW t \in Thread, reply(t)
    PROVE  TypeInv'
<1>1. thread[t] \in ServletType /\ thread[t].pc = "reply" /\ thread[t].pc \in ReportPcs
  BY ServletFacts DEF reply, At, ReportPcs
<1>2. thread[t].dev # Null => dev[thread[t].dev].main = "wait"
  BY <1>1 DEF TypeInv, WaitOK
<1>3. DevicesOK'
  <2>1. ASSUME NEW d \in Device
        PROVE  dev'[d] \in DeviceType /\ DeviceSound(dev'[d])
    <3>1. dev[d] \in DeviceType /\ DeviceSound(dev[d])
      BY DEF TypeInv, DevicesOK
    <3> DEFINE r == [dev[d] EXCEPT !.main = "answer", !.answer = thread[t].answer]
    <3>2. dev'[d] = IF d = thread[t].dev THEN r ELSE dev[d]
      BY DEF reply
    <3>3. d = thread[t].dev => dev[d].main = "wait"
      BY <1>2, HandoverConstants
    <3>4. d = thread[t].dev => r \in DeviceType /\ DeviceSound(r)
      BY <1>1, <3>1, <3>3 DEF DeviceType, DeviceSound, ServletType
    <3>5. QED
      BY <3>1, <3>2, <3>4
  <2>2. dev' = [d \in Device |-> dev'[d]]
    BY DEF reply
  <2>3. QED
    BY <2>1, <2>2 DEF DevicesOK
<1>4. ASSUME NEW u \in Thread \ {t}, thread[u].pc \in ReportPcs, thread[u].dev # Null
      PROVE  dev'[thread[u].dev].main = dev[thread[u].dev].main
  <2>1. thread[u].dev # thread[t].dev
    BY <1>1, <1>4 DEF TypeInv, WaitOK
  <2>2. thread[u].dev \in Device
    BY <1>4 DEF TypeInv, ServletsOK, ServletType
  <2>3. QED
    BY <2>1, <2>2 DEF reply
<1>5. faults' \in 0..MaxFaults
  BY DEF TypeInv, CountersOK, reply, counters
<1>6. QED
  BY <1>3, <1>4, <1>5, AnswerType DEF reply, At, counters

\* The cases of find_station.
LEMMA FindStationCases ==
    ASSUME TypeInv, NEW t \in Thread, find_station(t)
    PROVE  \E h \in Address \cup {Null}, pc \in {"reply", "scan"} :
              thread' = [thread EXCEPT ![t] = [thread[t] EXCEPT !.host = h, !.pc = pc]]
<1> DEFINE found == find_device(thread[t].mac, list["sta"])
<1>1. CASE found = {}
  <2>1. thread' = [thread EXCEPT ![t].pc = "reply"]
    BY <1>1 DEF find_station, Goto
  <2>2. thread[t].host \in Address \cup {Null}
    BY ServletFacts DEF ServletType
  <2>3. [thread[t] EXCEPT !.host = thread[t].host, !.pc = "reply"]
           = [thread[t] EXCEPT !.pc = "reply"]
    BY ServletFacts DEF ServletType
  <2>4. thread' = [thread EXCEPT ![t] = [thread[t] EXCEPT !.host = thread[t].host,
                                                        !.pc = "reply"]]
    BY <2>1, <2>3
  <2>5. QED
    BY <2>2, <2>4
<1>2. CASE found # {}
  <2>1. PICK e \in found : thread' = [thread EXCEPT ![t].host = e.host,
                                                    ![t].pc = "scan"]
    BY <1>2 DEF find_station
  <2>2. list["sta"] \in Seq(Entry)
    BY DEF TypeInv, ListOK
  <2>3. e \in Entry
    BY <2>2, FoundDevice
  <2>4. e.host \in Address
    BY <2>3 DEF Entry
  <2>5. thread' = [thread EXCEPT ![t] = [thread[t] EXCEPT !.host = e.host,
                                                        !.pc = "scan"]]
    BY <2>1 DEF TypeInv, ServletsOK, ServletType
  <2>6. QED
    BY <2>4, <2>5
<1>3. QED
  BY <1>1, <1>2

LEMMA FindStationType ==
    ASSUME TypeInv, NEW t \in Thread, find_station(t)
    PROVE  TypeInv'
<1>1. thread[t] \in ServletType /\ ServletSound(thread[t]) /\ thread[t].pc = "station"
  BY ServletFacts DEF find_station, At
<1>3. PICK h \in Address \cup {Null}, pc \in {"reply", "scan"} :
         thread' = [thread EXCEPT ![t] = [thread[t] EXCEPT !.host = h, !.pc = pc]]
  BY FindStationCases
<1> DEFINE r == [thread[t] EXCEPT !.host = h, !.pc = pc]
<1>4. r \in ServletType /\ r.dev = thread[t].dev
  BY <1>1 DEF ServletType, Pcs, ReportPcs
<1>5. ServletSound(r)
  BY <1>1 DEF ServletType, ServletSound, HelloPcs, ReportPcs
<1>6. ListOK' /\ crossed' \in BOOLEAN /\ faults' \in 0..MaxFaults
  BY DEF TypeInv, ListOK, GhostsOK, CountersOK, find_station, ghosts, counters
<1>7. thread' = [thread EXCEPT ![t] = r]
  BY <1>3
<1> HIDE DEF r
<1>8. QED
  BY <1>1, <1>4, <1>5, <1>6, <1>7, ServletType_Step
     DEF find_station, At, ghosts, counters, ReportPcs

\* The servlet h after a scan.
Scanned(h, aps) ==
    LET range == insert_ap_range(aps, h.cur)
    IN  [h EXCEPT !.aps = aps, !.range = range,
                  !.pc = IF range = <<>> THEN "reply" ELSE "traffic"]

LEMMA ScannedFacts ==
    ASSUME ListOK, NEW h \in ServletType, NEW aps \in Scan
    PROVE  LET r == Scanned(h, aps)
           IN  /\ r \in ServletType
               /\ r.dev = h.dev /\ r.mac = h.mac /\ r.own = h.own
               /\ r.cur = h.cur /\ r.answer = h.answer /\ r.aps = aps
               /\ r.range \in Seq(Candidates(aps, h.cur))
               /\ r.pc = IF r.range = <<>> THEN "reply" ELSE "traffic"
<1> DEFINE range == insert_ap_range(aps, h.cur)
           pc == IF range = <<>> THEN "reply" ELSE "traffic"
           r == [h EXCEPT !.aps = aps, !.range = range, !.pc = pc]
<1>1. Scanned(h, aps) = r
  BY DEF Scanned
<1>2. aps \in Seq([mac : Ap, signal : Int])
  BY ScanFacts
<1>3. range \in Seq(Candidates(aps, h.cur))
  BY RangeFacts
<1>4. range \in Seq(ApInRange)
  <2>1. Candidates(aps, h.cur) \subseteq ApInRange
    BY DEF Candidates
  <2> HIDE DEF range
  <2>2. QED
    BY <1>3, <2>1, SeqMonotonic
<1>5. pc \in {"reply", "traffic"}
  OBVIOUS
<1>6. pc = IF range = <<>> THEN "reply" ELSE "traffic"
  OBVIOUS
<1> HIDE DEF range, pc
<1>7. r \in ServletType
  BY <1>2, <1>4, <1>5 DEF ServletType, Pcs, ReportPcs
<1>8. /\ r.dev = h.dev /\ r.mac = h.mac /\ r.own = h.own
      /\ r.cur = h.cur /\ r.answer = h.answer /\ r.aps = aps
      /\ r.range = range /\ r.pc = pc
  BY DEF ServletType
<1> HIDE DEF r
<1>9. QED
  BY <1>1, <1>3, <1>6, <1>7, <1>8

\* The cases of get_ap_in_range.
LEMMA GetApInRangeCases ==
    ASSUME TypeInv, NEW t \in Thread, get_ap_in_range(t)
    PROVE  \E o \in Outcome(thread[t].host) :
              /\ faults' = o.faults
              /\ \/ o.dev = Null /\ Crash("scan")
                 \/ Crash("current")
                 \/ \E aps \in Scan :
                       /\ thread' = [thread EXCEPT ![t] = Scanned(thread[t], aps)]
                       /\ UNCHANGED <<dev, up, wild>>
<1>1. PICK o \in Outcome(thread[t].host) :
         /\ faults' = o.faults
         /\ \/ o.dev = Null /\ Crash("scan")
            \/ \E aps \in Scan :
                  \/ Crash("current")
                  \/ LET range == insert_ap_range(aps, thread[t].cur)
                     IN  /\ thread' = [thread EXCEPT
                              ![t].aps = aps, ![t].range = range,
                              ![t].pc = IF range = <<>> THEN "reply" ELSE "traffic"]
                         /\ UNCHANGED <<dev, up, wild>>
  BY DEF get_ap_in_range
<1>2. ASSUME NEW aps \in Scan,
             LET range == insert_ap_range(aps, thread[t].cur)
             IN  thread' = [thread EXCEPT
                    ![t].aps = aps, ![t].range = range,
                    ![t].pc = IF range = <<>> THEN "reply" ELSE "traffic"]
      PROVE  thread' = [thread EXCEPT ![t] = Scanned(thread[t], aps)]
  <2>1. thread \in [Thread -> ServletType]
    BY DEF TypeInv, ServletsOK
  <2> DEFINE range == insert_ap_range(aps, thread[t].cur)
             pc == IF range = <<>> THEN "reply" ELSE "traffic"
  <2>2. thread' = [thread EXCEPT ![t].aps = aps, ![t].range = range, ![t].pc = pc]
    BY <1>2
  <2>3. Scanned(thread[t], aps) =
          [thread[t] EXCEPT !.aps = aps, !.range = range, !.pc = pc]
    BY DEF Scanned
  <2> HIDE DEF range, pc
  <2>4. QED
    BY <2>1, <2>2, <2>3 DEF ServletType
<1>3. QED
  BY <1>1, <1>2

LEMMA GetApInRangeType ==
    ASSUME TypeInv, NEW t \in Thread, get_ap_in_range(t)
    PROVE  TypeInv'
<1>1. PICK o \in Outcome(thread[t].host) :
         /\ faults' = o.faults
         /\ \/ Crash("scan")
            \/ Crash("current")
            \/ \E aps \in Scan :
                  /\ thread' = [thread EXCEPT ![t] = Scanned(thread[t], aps)]
                  /\ UNCHANGED <<dev, up, wild>>
  BY GetApInRangeCases
<1>2. faults' \in 0..MaxFaults
  <2>1. CountersOK /\ faults \in 0..MaxFaults
    BY DEF TypeInv, CountersOK
  <2>2. o.faults \in faults..MaxFaults
    BY <2>1, OutcomeFacts
  <2>3. QED
    BY <1>1, <2>1, <2>2
<1>3. UNCHANGED <<client_addr, list, restarts, connections, ghosts>>
  BY DEF get_ap_in_range
<1>4. CASE Crash("scan") \/ Crash("current")
  BY <1>2, <1>3, <1>4, CrashType DEF Crashes
<1>5. ASSUME NEW aps \in Scan, thread' = [thread EXCEPT ![t] = Scanned(thread[t], aps)],
             UNCHANGED <<dev, up, wild>>
      PROVE  TypeInv'
  <2> DEFINE r == Scanned(thread[t], aps)
  <2>1. thread[t] \in ServletType /\ ServletSound(thread[t]) /\ thread[t].pc = "scan"
    BY ServletFacts DEF get_ap_in_range, At
  <2>2. /\ r \in ServletType /\ r.pc \in {"reply", "traffic"}
        /\ r.dev = thread[t].dev /\ r.mac = thread[t].mac /\ r.own = thread[t].own
    BY <2>1, ScannedFacts DEF TypeInv
  <2> HIDE DEF r
  <2>3. ServletSound(r)
    BY <2>1, <2>2 DEF ServletSound, HelloPcs, ReportPcs
  <2>4. ListOK' /\ crossed' \in BOOLEAN
    BY <1>3 DEF TypeInv, ListOK, GhostsOK, ghosts
  <2>5. QED
    BY <1>2, <1>3, <1>5, <2>1, <2>2, <2>3, <2>4, ServletType_Step
       DEF get_ap_in_range, At, ghosts, ReportPcs, r
<1>6. QED
  BY <1>1, <1>4, <1>5

\* The element whose traffic is asked for, and the step when the answer is v.
Asked(h) == CHOOSE j \in Pending(h) : \A k \in Pending(h) : j <= k

Priced(h, v) ==
    [h EXCEPT !.range[Asked(h)].traffic = v,
              !.pc = IF Pending(h) = {Asked(h)} THEN "choose" ELSE @]

LEMMA PricedFacts ==
    ASSUME NEW h \in ServletType, NEW v \in {-1} \cup Traffic, h.pc = "traffic"
    PROVE  /\ Priced(h, v) \in ServletType
           /\ Priced(h, v).pc \in {"traffic", "choose"}
           /\ DOMAIN Priced(h, v).range = DOMAIN h.range
           /\ \A i \in DOMAIN h.range :
                Priced(h, v).range[i] =
                   IF i = Asked(h) THEN [h.range[i] EXCEPT !.traffic = v]
                   ELSE h.range[i]
           /\ Priced(h, v).pc = IF Pending(h) = {Asked(h)} THEN "choose" ELSE "traffic"
           /\ Priced(h, v) = [h EXCEPT !.range = Priced(h, v).range,
                                       !.pc = Priced(h, v).pc]
<1> DEFINE q == [h.range EXCEPT ![Asked(h)].traffic = v]
           pc == IF Pending(h) = {Asked(h)} THEN "choose" ELSE h.pc
<1>1. h.range \in Seq(ApInRange)
  BY DEF ServletType
<1>2. q \in Seq(ApInRange) /\ DOMAIN q = DOMAIN h.range
  <2>1. ASSUME NEW i \in DOMAIN h.range
        PROVE  q[i] \in ApInRange
    <3>1. h.range[i] \in ApInRange
      BY <1>1
    <3>2. [h.range[i] EXCEPT !.traffic = v] \in ApInRange
      BY <3>1 DEF ApInRange
    <3>3. q[i] = IF i = Asked(h) THEN [h.range[i] EXCEPT !.traffic = v]
                 ELSE h.range[i]
      BY <1>1
    <3>4. QED
      BY <3>1, <3>2, <3>3
  <2>2. DOMAIN q = DOMAIN h.range /\ DOMAIN h.range = 1..Len(h.range) /\ Len(h.range) \in Nat
    BY <1>1
  <2>3. q = [i \in 1..Len(h.range) |-> q[i]]
    BY <2>2
  <2> HIDE DEF q
  <2>4. q \in [1..Len(h.range) -> ApInRange]
    BY <2>1, <2>2, <2>3
  <2>5. q \in Seq(ApInRange)
    BY <2>2, <2>4, SeqDef
  <2>6. QED
    BY <2>2, <2>5
<1>3. Priced(h, v) = [h EXCEPT !.range = q, !.pc = pc]
  BY DEF Priced, ServletType
<1>4. \A i \in DOMAIN h.range :
         q[i] = IF i = Asked(h) THEN [h.range[i] EXCEPT !.traffic = v] ELSE h.range[i]
  BY <1>1
<1>5. pc \in {"traffic", "choose"} /\ pc = IF Pending(h) = {Asked(h)} THEN "choose" ELSE "traffic"
  OBVIOUS
<1> HIDE DEF q, pc
<1>6. Priced(h, v).range = q /\ Priced(h, v).pc = pc
  BY <1>3 DEF ServletType
<1>7. Priced(h, v) \in ServletType
  BY <1>2, <1>3, <1>5 DEF ServletType, Pcs, ReportPcs
<1>8. QED
  BY <1>2, <1>3, <1>4, <1>5, <1>6, <1>7

\* The cases of get_traffic.
LEMMA GetTrafficCases ==
    ASSUME TypeInv, NEW t \in Thread, get_traffic(t)
    PROVE  \/ /\ Crash("uninitialized")
              /\ UNCHANGED faults
           \/ \E o \in Outcome(thread[t].range[Asked(thread[t])].host) :
                /\ faults' = o.faults
                /\ \/ /\ o.dev = Null
                      /\ thread' = [thread EXCEPT ![t] = Priced(thread[t], -1)]
                      /\ UNCHANGED <<dev, up, wild>>
                   \/ /\ o.dev # Null /\ dev[o.dev].collects
                      /\ \E v \in Traffic :
                            thread' = [thread EXCEPT ![t] = Priced(thread[t], v)]
                      /\ UNCHANGED <<dev, up, wild>>
                   \/ /\ o.dev # Null /\ ~dev[o.dev].collects
                      /\ Crash(IF \E u \in Thread : thread[u].pc = "set_statistics"
                               THEN "early" ELSE "statistics")
<1> DEFINE h == thread[t]
           i == Asked(h)
           Set(v) == thread' = [thread EXCEPT
                        ![t].range[i].traffic = v,
                        ![t].pc = IF Pending(h) = {i} THEN "choose" ELSE @]
<1>1. \/ /\ Crash("uninitialized")
         /\ UNCHANGED faults
      \/ \E o \in Outcome(h.range[i].host) :
           /\ faults' = o.faults
           /\ \/ /\ o.dev = Null
                 /\ Set(-1)
                 /\ UNCHANGED <<dev, up, wild>>
              \/ /\ o.dev # Null /\ dev[o.dev].collects
                 /\ \E v \in Traffic : Set(v)
                 /\ UNCHANGED <<dev, up, wild>>
              \/ /\ o.dev # Null /\ ~dev[o.dev].collects
                 /\ Crash(IF \E u \in Thread : thread[u].pc = "set_statistics"
                          THEN "early" ELSE "statistics")
  BY Zenon DEF get_traffic, Pending, Asked
<1>2. thread \in [Thread -> ServletType]
  BY DEF TypeInv, ServletsOK
<1>3. ASSUME NEW v, Set(v)
      PROVE  thread' = [thread EXCEPT ![t] = Priced(h, v)]
  BY <1>2, <1>3 DEF Priced, ServletType
<1> HIDE DEF i, Set
<1>4. QED
  BY <1>1, <1>3 DEF i

LEMMA GetTrafficType ==
    ASSUME TypeInv, NEW t \in Thread, get_traffic(t)
    PROVE  TypeInv'
<1>1. UNCHANGED <<client_addr, list, restarts, connections, ghosts>>
  BY DEF get_traffic
<1>2. faults' \in 0..MaxFaults
  <2>1. CountersOK
    BY DEF TypeInv
  <2>2. faults \in 0..MaxFaults
    BY <2>1 DEF CountersOK
  <2>3. faults' = faults
          \/ \E o \in Outcome(thread[t].range[Asked(thread[t])].host) : faults' = o.faults
    BY GetTrafficCases
  <2>4. QED
    BY <2>1, <2>2, <2>3, OutcomeFacts
<1>3. ASSUME NEW v \in {-1} \cup Traffic,
             thread' = [thread EXCEPT ![t] = Priced(thread[t], v)],
             UNCHANGED <<dev, up, wild>>
      PROVE  TypeInv'
  <2> DEFINE r == Priced(thread[t], v)
  <2>1. thread[t] \in ServletType /\ ServletSound(thread[t]) /\ thread[t].pc = "traffic"
    BY ServletFacts DEF get_traffic, At
  <2>2. /\ r \in ServletType /\ r.pc \in {"traffic", "choose"}
        /\ r = [thread[t] EXCEPT !.range = r.range, !.pc = r.pc]
    BY <2>1, PricedFacts
  <2> HIDE DEF r
  <2>3. r.dev = thread[t].dev /\ r.mac = thread[t].mac /\ r.own = thread[t].own
    BY <2>1, <2>2 DEF ServletType
  <2>4. ServletSound(r)
    BY <2>1, <2>2, <2>3 DEF ServletSound, HelloPcs, ReportPcs
  <2>5. ListOK' /\ crossed' \in BOOLEAN
    BY <1>1 DEF TypeInv, ListOK, GhostsOK, ghosts
  <2>6. QED
    BY <1>1, <1>2, <1>3, <2>1, <2>2, <2>3, <2>4, <2>5, ServletType_Step
       DEF get_traffic, At, ghosts, ReportPcs, r
<1>4. ASSUME NEW at \in Crashes, Crash(at)
      PROVE  TypeInv'
  BY <1>1, <1>2, <1>4, CrashType
<1>5. {"uninitialized", "early", "statistics"} \subseteq Crashes
  BY DEF Crashes
<1>6. QED
  BY <1>3, <1>4, <1>5, GetTrafficCases

LEMMA ChooseApType ==
    ASSUME TypeInv, NEW t \in Thread, choose_ap(t)
    PROVE  TypeInv'
<1>1. UNCHANGED <<client_addr, list, counters, ghosts>>
  BY DEF choose_ap
<1>2. faults' \in 0..MaxFaults
  BY <1>1 DEF TypeInv, CountersOK, counters
<1>3. CASE Least(thread[t].range) = {}
  <2>1. Crash("freed")
    BY <1>3 DEF choose_ap
  <2>2. QED
    BY <1>1, <1>2, <2>1, CrashType DEF Crashes, counters
<1>4. CASE Least(thread[t].range) # {}
  <2>1. PICK i \in Least(thread[t].range) :
           /\ thread' = [thread EXCEPT ![t].answer = thread[t].range[i].mac,
                                       ![t].pc = "reply"]
           /\ UNCHANGED <<dev, up, wild>>
    BY <1>4 DEF choose_ap
  <2> DEFINE m == thread[t].range[i].mac
             r == [thread[t] EXCEPT !.answer = m, !.pc = "reply"]
  <2>2. thread[t] \in ServletType /\ ServletSound(thread[t]) /\ thread[t].pc = "choose"
    BY ServletFacts DEF choose_ap, At
  <2>3. thread' = [thread EXCEPT ![t] = r]
    BY <2>1 DEF TypeInv, ServletsOK, ServletType
  <2>4. m \in Mac
    <3>1. i \in DOMAIN thread[t].range /\ thread[t].range \in Seq(ApInRange)
      BY <2>2 DEF Least, ServletType
    <3>2. thread[t].range[i] \in ApInRange
      BY <3>1
    <3>3. QED
      BY <3>2 DEF ApInRange, Mac, Device
  <2> HIDE DEF m
  <2>5. r \in ServletType /\ r.dev = thread[t].dev /\ r.pc = "reply"
    BY <2>2, <2>4 DEF ServletType, Pcs, ReportPcs
  <2>6. ServletSound(r)
    BY <2>2 DEF ServletType, ServletSound, HelloPcs, ReportPcs
  <2>7. ListOK' /\ crossed' \in BOOLEAN
    BY <1>1 DEF TypeInv, ListOK, GhostsOK, ghosts
  <2> HIDE DEF r
  <2>8. QED
    BY <1>1, <1>2, <2>1, <2>2, <2>3, <2>5, <2>6, <2>7, ServletType_Step
       DEF choose_ap, At, ghosts, counters, ReportPcs
<1>5. QED
  BY <1>3, <1>4

-----------------------------------------------------------------------------
(* The types, continued: devices and connections *)

\* One device goes on as r, and the servlets with it.
LEMMA DeviceType_Step ==
    ASSUME TypeInv, NEW d \in Device, NEW r \in DeviceType, DeviceSound(r),
           dev' = [dev EXCEPT ![d] = r],
           (thread' = thread /\ dev[d].main # "wait") \/ thread' = Left(d),
           r.main # "wait", restarts' \in 0..MaxRestarts,
           UNCHANGED <<up, client_addr, list, faults, connections, ghosts, wild>>
    PROVE  TypeInv'
<1>1. DevicesOK' /\ \A e \in Device : dev'[e] = IF e = d THEN r ELSE dev[e]
  BY DEF TypeInv, DevicesOK
<1>2. ASSUME NEW t \in Thread
      PROVE  /\ thread'[t] \in ServletType /\ ServletSound(thread'[t])
             /\ thread'[t].pc = thread[t].pc
             /\ thread'[t].dev \in {thread[t].dev, Null}
             /\ thread' = Left(d) => thread'[t].dev # d
  <2>1. thread[t] \in ServletType /\ ServletSound(thread[t])
    BY ServletFacts
  <2>2. CASE thread' # Left(d)
    BY <2>1, <2>2
  <2>3. CASE thread' = Left(d)
    <3> DEFINE x == IF thread[t].dev = d THEN Null ELSE thread[t].dev
               q == [thread[t] EXCEPT !.own = Null, !.dev = x]
    <3>1. thread'[t] = q
      BY <2>3 DEF Left
    <3>2. x \in {thread[t].dev, Null} /\ x # d
      BY HandoverConstants
    <3> HIDE DEF x
    <3>3. q \in ServletType
      BY <2>1, <3>2 DEF ServletType
    <3>4. ServletSound(q) /\ q.pc = thread[t].pc /\ q.dev = x
      BY <2>1 DEF ServletSound, ServletType
    <3> HIDE DEF q
    <3>5. QED
      BY <3>1, <3>2, <3>3, <3>4
  <2>4. QED
    BY <2>2, <2>3
<1>3. ServletsOK'
  <2>1. thread' = [t \in Thread |-> thread'[t]]
    BY DEF TypeInv, ServletsOK, Left
  <2>2. QED
    BY <1>2, <2>1 DEF ServletsOK
<1>4. WaitOK'
  <2>1. WaitOK
    BY DEF TypeInv
  <2>2. ASSUME NEW t \in Thread, thread'[t].pc \in ReportPcs, thread'[t].dev # Null
        PROVE  /\ thread[t].pc \in ReportPcs
               /\ thread'[t].dev = thread[t].dev
               /\ dev[thread[t].dev].main = "wait"
                     => dev'[thread[t].dev].main = "wait"
    <3>1. thread[t].pc \in ReportPcs /\ thread'[t].dev = thread[t].dev
      BY <1>2, <2>2
    <3>2. thread[t].dev \in Device
      BY <2>2, <3>1 DEF TypeInv, ServletsOK, ServletType
    <3>3. CASE dev[d].main # "wait"
      BY <1>1, <3>1, <3>2, <3>3
    <3>4. CASE thread' = Left(d)
      BY <1>1, <1>2, <3>1, <3>2, <3>4
    <3>5. QED
      BY <3>3, <3>4
  <2>3. QED
    BY <2>1, <2>2, NobodyNewWaits
<1>5. UpOK'
  BY <1>1, <1>2 DEF TypeInv, UpOK
<1>6. ListOK' /\ CountersOK' /\ GhostsOK'
  BY DEF TypeInv, ListOK, CountersOK, GhostsOK, ghosts
<1>7. QED
  BY <1>1, <1>3, <1>4, <1>5, <1>6 DEF TypeInv

LEMMA StartStationType ==
    ASSUME TypeInv, NEW s \in Sta, NEW a \in Address, NEW created \in BOOLEAN,
           NEW ap \in First, StartStation(s, a, created, ap)
    PROVE  TypeInv'
<1> DEFINE m == run_threaded_server(created)
           r == [Down EXCEPT !.addr = a, !.serves = created, !.ap = ap, !.main = m]
<1>1. s \in Device /\ dev[s].main = "down" /\ dev' = [dev EXCEPT ![s] = r]
  BY DEF StartStation, Device
<1>2. m \in {"join", "measure"} /\ (created => m = "join")
  BY DEF run_threaded_server
<1>3. ap \in Mac
  BY HandoverConstants DEF Mac, Device
<1> HIDE DEF m
<1>4. r \in DeviceType /\ DeviceSound(r) /\ r.main # "wait"
  BY <1>2, <1>3 DEF DeviceType, DeviceSound, Down, Mac
<1>5. restarts' \in 0..MaxRestarts
  BY DEF StartStation, TypeInv, CountersOK, counters
<1> HIDE DEF r
<1>6. QED
  BY <1>1, <1>4, <1>5, DeviceType_Step DEF StartStation, counters

LEMMA StartApType ==
    ASSUME TypeInv, NEW d \in Ap, NEW a \in Address, StartAp(d, a)
    PROVE  TypeInv'
<1> DEFINE r == [Down EXCEPT !.addr = a, !.serves = TRUE, !.main = "eloop"]
<1>1. d \in Device /\ dev[d].main = "down" /\ dev' = [dev EXCEPT ![d] = r]
  BY DEF StartAp, Device
<1>2. r \in DeviceType /\ DeviceSound(r) /\ r.main # "wait"
  BY DEF DeviceType, DeviceSound, Down, Mac
<1>3. restarts' \in 0..MaxRestarts
  BY DEF StartAp, TypeInv, CountersOK, counters
<1> HIDE DEF r
<1>4. QED
  BY <1>1, <1>2, <1>3, DeviceType_Step DEF StartAp, counters

LEMMA DownFacts == Down \in DeviceType /\ DeviceSound(Down) /\ Down.main = "down"
BY DEF Down, DeviceType, DeviceSound, Mac

LEMMA StopType ==
    ASSUME TypeInv, NEW d \in Device, Stop(d)
    PROVE  TypeInv'
<1>1. restarts' \in 0..MaxRestarts
  BY HandoverConstants DEF Stop, TypeInv, CountersOK
<1>2. QED
  BY <1>1, DownFacts, DeviceType_Step DEF Stop

LEMMA RoamType ==
    ASSUME TypeInv, NEW s \in Sta, roam_change_ap(s)
    PROVE  TypeInv'
<1>1. PICK ap \in {dev[s].ap, dev[s].answer} :
         dev' = [dev EXCEPT ![s].main = "changed", ![s].ap = ap]
  BY DEF roam_change_ap
<1> DEFINE r == [dev[s] EXCEPT !.main = "changed", !.ap = ap]
<1>2. s \in Device /\ dev[s] \in DeviceType /\ DeviceSound(dev[s])
      /\ dev[s].main = "roam"
  BY DEF TypeInv, DevicesOK, Device, roam_change_ap
<1>3. dev' = [dev EXCEPT ![s] = r]
  BY <1>1, <1>2 DEF DeviceType, TypeInv, DevicesOK
<1>4. r \in DeviceType /\ DeviceSound(r) /\ r.main # "wait"
  BY <1>2 DEF DeviceType, DeviceSound
<1>5. restarts' \in 0..MaxRestarts
  BY DEF roam_change_ap, TypeInv, CountersOK, counters
<1> HIDE DEF r
<1>6. QED
  BY <1>2, <1>3, <1>4, <1>5, DeviceType_Step DEF roam_change_ap, counters

LEMMA WatchingFacts ==
    ASSUME NEW r \in DeviceType, DeviceSound(r),
           r.main \in {"measure", "wait", "answer", "roam", "changed"}
    PROVE  Watching(r) \in DeviceType /\ DeviceSound(Watching(r))
           /\ Watching(r).main = "measure" /\ Watching(r).addr = r.addr
           /\ Watching(r).serves = r.serves /\ Watching(r).collects = r.collects
BY DEF Watching, DeviceType, DeviceSound, Mac

\* Compare ends the station, or goes on with it.
LEMMA CompareCases ==
    ASSUME TypeInv, NEW s \in Sta, Compare(s)
    PROVE  \E r \in DeviceType :
              /\ DeviceSound(r) /\ r.main # "wait" /\ dev[s].main = "answer"
              /\ dev' = [dev EXCEPT ![s] = r]
              /\ \/ r = Down /\ thread' = Left(s)
                 \/ r.addr = dev[s].addr /\ r.serves = dev[s].serves
                    /\ r.collects = dev[s].collects /\ thread' = thread
<1>1. s \in Device /\ dev[s] \in DeviceType /\ DeviceSound(dev[s])
      /\ dev[s].main = "answer"
  BY DEF TypeInv, DevicesOK, Device, Compare
<1>2. CASE dev[s].cur = Null
  <2>1. dev' = [dev EXCEPT ![s] = Down] /\ thread' = Left(s)
    BY <1>2 DEF Compare
  <2>2. QED
    BY <1>1, <2>1, DownFacts
<1>3. CASE dev[s].cur # Null /\ dev[s].cur # dev[s].answer
  <2> DEFINE r == [dev[s] EXCEPT !.main = "roam"]
  <2>1. dev' = [dev EXCEPT ![s] = r] /\ thread' = thread
    BY <1>3 DEF Compare
  <2>2. r \in DeviceType /\ DeviceSound(r) /\ r.main # "wait" /\ r.addr = dev[s].addr
        /\ r.serves = dev[s].serves /\ r.collects = dev[s].collects
    BY <1>1 DEF DeviceType, DeviceSound
  <2> HIDE DEF r
  <2>3. QED
    BY <1>1, <2>1, <2>2
<1>4. CASE dev[s].cur # Null /\ dev[s].cur = dev[s].answer
  <2>1. dev' = [dev EXCEPT ![s] = Watching(dev[s])] /\ thread' = thread
    BY <1>4 DEF Compare
  <2>2. QED
    BY <1>1, <2>1, WatchingFacts
<1>5. QED
  BY <1>2, <1>3, <1>4

LEMMA CompareType ==
    ASSUME TypeInv, NEW s \in Sta, Compare(s)
    PROVE  TypeInv'
<1>1. PICK r \in DeviceType :
              /\ DeviceSound(r) /\ r.main # "wait" /\ dev[s].main = "answer"
              /\ dev' = [dev EXCEPT ![s] = r]
              /\ thread' = Left(s) \/ thread' = thread
  BY CompareCases
<1>2. s \in Device
  BY DEF Device
<1>3. restarts' \in 0..MaxRestarts
  BY DEF Compare, TypeInv, CountersOK, counters
<1>4. QED
  BY <1>1, <1>2, <1>3, DeviceType_Step DEF Compare, counters

LEMMA ControllerStartType ==
    ASSUME TypeInv, ControllerStart
    PROVE  TypeInv'
<1>1. DevicesOK' /\ ServletsOK' /\ WaitOK'
  BY DEF TypeInv, ControllerStart, DevicesOK, ServletsOK, WaitOK
<1>2. UpOK'
  BY DEF TypeInv, ControllerStart, UpOK
<1>3. ListOK'
  BY DEF ControllerStart, ListOK
<1>4. CountersOK' /\ GhostsOK'
  BY HandoverConstants DEF TypeInv, ControllerStart, CountersOK, GhostsOK
<1>5. QED
  BY <1>1, <1>2, <1>3, <1>4 DEF TypeInv

\* A connection is accepted: the new servlet f[t] is the only one that does
\* something else than before.
LEMMA AcceptedFacts ==
    ASSUME TypeInv, NEW a \in Address, NEW t \in Thread, NEW r \in ServletType,
           ServletSound(r), thread[t].pc = "idle",
           Accepted(a, [thread EXCEPT ![t] = r])
    PROVE  /\ ServletsOK'
           /\ thread'[t] = r
           /\ \A u \in Thread \ {t} :
                 /\ thread[u].pc \notin HelloPcs => thread'[u] = thread[u]
                 /\ thread[u].pc \in HelloPcs =>
                       thread'[u] = [thread[u] EXCEPT !.own = Null] /\ shared'
           /\ shared' \in BOOLEAN /\ connections' \in 0..MaxConnections
           /\ client_addr' = a
           /\ shared => shared'
           /\ ~shared' => \A u \in Thread : thread[u].pc \notin HelloPcs
<1>1. thread[t].pc \notin HelloPcs
  BY DEF HelloPcs
<1>2. thread'[t] = r
  BY <1>1 DEF Accepted, TypeInv, ServletsOK
<1>3. ASSUME NEW u \in Thread \ {t}
      PROVE  /\ thread[u].pc \notin HelloPcs => thread'[u] = thread[u]
             /\ thread[u].pc \in HelloPcs =>
                   thread'[u] = [thread[u] EXCEPT !.own = Null] /\ shared'
  BY DEF Accepted, TypeInv, ServletsOK
<1>4. ASSUME NEW u \in Thread
      PROVE  thread'[u] \in ServletType /\ ServletSound(thread'[u])
  <2>1. thread[u] \in ServletType /\ ServletSound(thread[u])
    BY ServletFacts
  <2> DEFINE q == [thread[u] EXCEPT !.own = Null]
  <2>2. q \in ServletType /\ ServletSound(q)
    BY <2>1 DEF ServletType, ServletSound
  <2> HIDE DEF q
  <2>3. QED
    BY <1>2, <1>3, <2>1, <2>2 DEF q
<1>5. ServletsOK'
  <2>1. thread' = [u \in Thread |-> thread'[u]]
    BY DEF Accepted
  <2>2. QED
    BY <1>4, <2>1 DEF ServletsOK
<1>6. shared' \in BOOLEAN /\ connections' \in 0..MaxConnections /\ client_addr' = a
  BY HandoverConstants DEF Accepted, TypeInv, GhostsOK, CountersOK
<1>7. (shared => shared') /\ (~shared' => \A u \in Thread : thread[u].pc \notin HelloPcs)
  BY DEF Accepted
<1>8. QED
  BY <1>2, <1>3, <1>5, <1>6, <1>7

\* A connection that leaves nothing to do.
LEMMA AcceptedQuietly ==
    ASSUME TypeInv, NEW a \in Address, Accepted(a, thread)
    PROVE  /\ ServletsOK'
           /\ \A u \in Thread :
                 /\ thread[u].pc \notin HelloPcs => thread'[u] = thread[u]
                 /\ thread[u].pc \in HelloPcs =>
                       thread'[u] = [thread[u] EXCEPT !.own = Null] /\ shared'
           /\ shared' \in BOOLEAN /\ connections' \in 0..MaxConnections
           /\ client_addr' = a
           /\ shared => shared'
           /\ ~shared' => \A u \in Thread : thread[u].pc \notin HelloPcs
<1>1. ASSUME NEW u \in Thread
      PROVE  /\ thread[u].pc \notin HelloPcs => thread'[u] = thread[u]
             /\ thread[u].pc \in HelloPcs =>
                   thread'[u] = [thread[u] EXCEPT !.own = Null] /\ shared'
  BY DEF Accepted, TypeInv, ServletsOK
<1>2. ASSUME NEW u \in Thread
      PROVE  thread'[u] \in ServletType /\ ServletSound(thread'[u])
  <2>1. thread[u] \in ServletType /\ ServletSound(thread[u])
    BY ServletFacts
  <2> DEFINE q == [thread[u] EXCEPT !.own = Null]
  <2>2. q \in ServletType /\ ServletSound(q)
    BY <2>1 DEF ServletType, ServletSound
  <2> HIDE DEF q
  <2>3. QED
    BY <1>1, <2>1, <2>2 DEF q
<1>3. ServletsOK'
  <2>1. thread' = [u \in Thread |-> thread'[u]]
    BY DEF Accepted
  <2>2. QED
    BY <1>2, <2>1 DEF ServletsOK
<1>4. shared' \in BOOLEAN /\ connections' \in 0..MaxConnections /\ client_addr' = a
  BY HandoverConstants DEF Accepted, TypeInv, GhostsOK, CountersOK
<1>5. (shared => shared') /\ (~shared' => \A u \in Thread : thread[u].pc \notin HelloPcs)
  BY DEF Accepted
<1>6. QED
  BY <1>1, <1>3, <1>4, <1>5

\* The control states of the other servlets, and whom they serve, are the
\* same after a connection.
LEMMA AcceptedKeeps ==
    ASSUME TypeInv, NEW u \in Thread,
           \/ thread'[u] = thread[u]
           \/ thread'[u] = [thread[u] EXCEPT !.own = Null]
    PROVE  thread'[u].pc = thread[u].pc /\ thread'[u].dev = thread[u].dev
           /\ thread'[u].mac = thread[u].mac /\ thread'[u].entry = thread[u].entry
           /\ thread'[u].seen = thread[u].seen /\ thread'[u].own \in {Null, thread[u].own}
           /\ thread'[u].aps = thread[u].aps /\ thread'[u].range = thread[u].range
           /\ thread'[u].answer = thread[u].answer /\ thread'[u].cur = thread[u].cur
           /\ thread'[u].host = thread[u].host
BY DEF TypeInv, ServletsOK, ServletType

Hello(d) ==
    [Idle EXCEPT !.pc = "one_intf", !.dev = d, !.mac = d, !.own = dev[d].addr]

LEMMA HelloFacts ==
    ASSUME TypeInv, NEW d \in Device, dev[d].serves
    PROVE  /\ dev[d].addr \in Address
           /\ Hello(d) \in ServletType /\ ServletSound(Hello(d))
           /\ Hello(d).pc = "one_intf" /\ Hello(d).mac = d /\ Hello(d).dev = d
           /\ Hello(d).own = dev[d].addr
<1>1. dev[d].addr \in Address
  BY DEF TypeInv, DevicesOK, DeviceSound
<1>2. Hello(d) \in ServletType
  BY <1>1, IdleFacts DEF Hello, ServletType, Pcs, HelloPcs
<1>3. /\ Hello(d).pc = "one_intf" /\ Hello(d).mac = d /\ Hello(d).dev = d
      /\ Hello(d).own = dev[d].addr
  BY DEF Hello, Idle
<1>4. ServletSound(Hello(d))
  BY <1>3 DEF ServletSound, HelloPcs
<1>5. QED
  BY <1>1, <1>2, <1>3, <1>4

LEMMA ReportingFacts ==
    ASSUME NEW s \in Device, NEW cur \in Mac, NEW d \in Device \cup {Null}
    PROVE  LET r == Reporting(s, cur, d)
           IN  /\ r \in ServletType /\ ServletSound(r)
               /\ r.pc = "station" /\ r.mac = s /\ r.dev = d /\ r.own = Null
               /\ r.range = <<>> /\ r.cur = cur /\ r.answer = cur
<1> DEFINE r == Reporting(s, cur, d)
<1>1. r \in ServletType
  BY IdleFacts DEF Reporting, ServletType, Pcs, ReportPcs
<1>2. /\ r.pc = "station" /\ r.mac = s /\ r.dev = d /\ r.own = Null
      /\ r.range = <<>> /\ r.cur = cur /\ r.answer = cur
  BY DEF Reporting, Idle
<1>3. ServletSound(r)
  BY <1>2 DEF ServletSound
<1>4. QED
  BY <1>1, <1>2, <1>3

LEMMA HelloType ==
    ASSUME TypeInv, NEW t \in Thread, NEW d \in Device, process_msg_hello(t, d)
    PROVE  TypeInv'
<1>1. dev[d].serves /\ thread[t].pc = "idle" /\ up
      /\ Accepted(dev[d].addr, [thread EXCEPT ![t] = Hello(d)])
  BY DEF process_msg_hello, At, Hello
<1>2. dev[d].addr \in Address /\ Hello(d) \in ServletType /\ ServletSound(Hello(d))
      /\ Hello(d).pc = "one_intf"
  BY <1>1, HelloFacts
<1>3. /\ ServletsOK'
      /\ thread'[t] = Hello(d)
      /\ \A u \in Thread \ {t} : thread'[u] = thread[u]
                                   \/ thread'[u] = [thread[u] EXCEPT !.own = Null]
      /\ shared' \in BOOLEAN /\ connections' \in 0..MaxConnections
      /\ client_addr' = dev[d].addr
  BY <1>1, <1>2, AcceptedFacts
<1>4. \A u \in Thread \ {t} : thread'[u].pc = thread[u].pc /\ thread'[u].dev = thread[u].dev
  BY <1>3, AcceptedKeeps
<1>5. DevicesOK' /\ ListOK' /\ CountersOK' /\ GhostsOK'
  BY <1>3 DEF process_msg_hello, TypeInv, DevicesOK, ListOK, CountersOK, GhostsOK
<1>6. WaitOK'
  <2>1. WaitOK /\ dev' = dev
    BY DEF TypeInv, process_msg_hello
  <2>2. thread'[t].pc \notin ReportPcs
    BY <1>2, <1>3 DEF ReportPcs
  <2>3. QED
    BY <1>4, <2>1, <2>2, NobodyNewWaits
<1>7. UpOK'
  BY <1>1, <1>2, <1>3 DEF process_msg_hello, TypeInv, UpOK
<1>8. QED
  BY <1>3, <1>5, <1>6, <1>7 DEF TypeInv

LEMMA RelayType ==
    ASSUME TypeInv, NEW t \in Thread, NEW d \in Device, NEW s \in Sta,
           NEW cur \in First, Relay(t, d, s, cur)
    PROVE  TypeInv'
<1> DEFINE r == Reporting(s, cur, Null)
<1>1. dev[d].serves /\ thread[t].pc = "idle" /\ up
      /\ Accepted(dev[d].addr, [thread EXCEPT ![t] = r])
  BY DEF Relay, At
<1>2. dev[d].addr \in Address /\ cur \in Mac /\ s \in Device
  BY <1>1, HelloFacts, HandoverConstants DEF Mac, Device
<1>3. r \in ServletType /\ ServletSound(r) /\ r.pc = "station" /\ r.dev = Null
  BY <1>2, ReportingFacts
<1> HIDE DEF r
<1>4. /\ ServletsOK'
      /\ thread'[t] = r
      /\ \A u \in Thread \ {t} : thread'[u] = thread[u]
                                   \/ thread'[u] = [thread[u] EXCEPT !.own = Null]
      /\ shared' \in BOOLEAN /\ connections' \in 0..MaxConnections
      /\ client_addr' = dev[d].addr
  BY <1>1, <1>2, <1>3, AcceptedFacts
<1>5. \A u \in Thread \ {t} : thread'[u].pc = thread[u].pc /\ thread'[u].dev = thread[u].dev
  BY <1>4, AcceptedKeeps
<1>6. DevicesOK' /\ ListOK' /\ CountersOK' /\ GhostsOK'
  BY <1>4 DEF Relay, TypeInv, DevicesOK, ListOK, CountersOK, GhostsOK
<1>7. WaitOK'
  <2>1. WaitOK /\ dev' = dev
    BY DEF TypeInv, Relay
  <2>2. QED
    BY <1>3, <1>4, <1>5, <2>1, NobodyNewWaits
<1>8. UpOK'
  BY <1>1, <1>2, <1>4 DEF Relay, TypeInv, UpOK
<1>9. QED
  BY <1>4, <1>6, <1>7, <1>8 DEF TypeInv

LEMMA MeasureType ==
    ASSUME TypeInv, NEW t \in Thread, NEW s \in Sta, Measure(t, s)
    PROVE  TypeInv'
<1>1. PICK cur \in Link(s) :
         /\ dev' = [dev EXCEPT ![s].main = "wait", ![s].cur = cur]
         /\ Accepted(dev[s].addr, [thread EXCEPT ![t] = Reporting(s, cur, s)])
  BY DEF Measure
<1> DEFINE r == Reporting(s, cur, s)
           q == [dev[s] EXCEPT !.main = "wait", !.cur = cur]
<1>2. thread[t].pc = "idle" /\ up /\ dev[s].main = "measure"
  BY DEF Measure, At
<1>3. s \in Device /\ dev[s] \in DeviceType /\ DeviceSound(dev[s])
  BY DEF TypeInv, DevicesOK, Device
<1>4. dev[s].addr \in Address /\ cur \in Mac
  <2>1. dev[s].ap \in Mac
    BY <1>3 DEF DeviceType
  <2>2. QED
    BY <1>2, <1>3, <2>1 DEF DeviceSound, Link, Mac
<1>5. q \in DeviceType /\ DeviceSound(q) /\ q.main = "wait"
  BY <1>2, <1>3, <1>4 DEF DeviceType, DeviceSound
<1>6. dev' = [dev EXCEPT ![s] = q]
  BY <1>1 DEF TypeInv, DevicesOK, DeviceType
<1> HIDE DEF q
<1>7. DevicesOK' /\ \A e \in Device : dev'[e] = IF e = s THEN q ELSE dev[e]
  BY <1>3, <1>5, <1>6 DEF TypeInv, DevicesOK
<1>8. r \in ServletType /\ ServletSound(r) /\ r.pc = "station" /\ r.dev = s
  BY <1>3, <1>4, ReportingFacts
<1> HIDE DEF r
<1>9. /\ ServletsOK'
      /\ thread'[t] = r
      /\ \A u \in Thread \ {t} : thread'[u] = thread[u]
                                   \/ thread'[u] = [thread[u] EXCEPT !.own = Null]
      /\ shared' \in BOOLEAN /\ connections' \in 0..MaxConnections
      /\ client_addr' = dev[s].addr
  BY <1>1, <1>2, <1>4, <1>8, AcceptedFacts DEF r
<1>10. \A u \in Thread \ {t} : thread'[u].pc = thread[u].pc /\ thread'[u].dev = thread[u].dev
  BY <1>9, AcceptedKeeps
<1>11. ListOK' /\ CountersOK' /\ GhostsOK'
  BY <1>9 DEF Measure, TypeInv, ListOK, CountersOK, GhostsOK
<1>12. WaitOK'
  <2>1. \A u \in Thread \ {t} :
           thread'[u].pc \in ReportPcs /\ thread'[u].dev # Null =>
              thread'[u].dev # s /\ dev'[thread'[u].dev].main = "wait"
    <3>1. \A u \in Thread \ {t} : thread[u].pc \in ReportPcs /\ thread[u].dev # Null
             => thread[u].dev \in Device /\ dev[thread[u].dev].main = "wait"
      BY DEF TypeInv, WaitOK, ServletsOK, ServletType
    <3>2. QED
      BY <1>2, <1>7, <1>10, <3>1
  <2>2. dev'[s].main = "wait"
    BY <1>3, <1>5, <1>7
  <2>3. \A u, v \in Thread \ {t} :
           (/\ thread'[u].pc \in ReportPcs /\ thread'[v].pc \in ReportPcs
            /\ thread'[u].dev = thread'[v].dev /\ thread'[u].dev # Null)
             => u = v
    BY <1>10 DEF TypeInv, WaitOK
  <2>4. QED
    BY <1>8, <1>9, <2>1, <2>2, <2>3 DEF WaitOK
<1>13. UpOK'
  BY <1>2, <1>4, <1>9 DEF Measure, TypeInv, UpOK
<1>14. QED
  BY <1>7, <1>9, <1>11, <1>12, <1>13 DEF TypeInv

LEMMA ChangedApType ==
    ASSUME TypeInv, NEW s \in Sta, changed_ap(s)
    PROVE  TypeInv'
<1>1. s \in Device /\ dev[s] \in DeviceType /\ DeviceSound(dev[s])
      /\ dev[s].main = "changed" /\ dev' = [dev EXCEPT ![s] = Watching(dev[s])]
  BY DEF TypeInv, DevicesOK, Device, changed_ap
<1>2. Watching(dev[s]) \in DeviceType /\ DeviceSound(Watching(dev[s]))
      /\ Watching(dev[s]).main = "measure"
  BY <1>1, WatchingFacts
<1>3. CASE ~up
  <2>1. restarts' \in 0..MaxRestarts
    BY DEF changed_ap, TypeInv, CountersOK
  <2>2. UNCHANGED <<client_addr, thread, shared, connections>>
    BY <1>3 DEF changed_ap
  <2>3. QED
    BY <1>1, <1>2, <2>1, <2>2, DeviceType_Step DEF changed_ap, ghosts
<1>4. CASE up
  <2>1. dev[s].addr \in Address
    BY <1>1 DEF DeviceSound
  <2>2. Accepted(dev[s].addr, thread)
    BY <1>4 DEF changed_ap
  <2>3. /\ ServletsOK'
        /\ \A u \in Thread : thread'[u] = thread[u]
                                \/ thread'[u] = [thread[u] EXCEPT !.own = Null]
        /\ shared' \in BOOLEAN /\ connections' \in 0..MaxConnections
        /\ client_addr' = dev[s].addr
    BY <2>1, <2>2, AcceptedQuietly
  <2>4. \A u \in Thread : thread'[u].pc = thread[u].pc /\ thread'[u].dev = thread[u].dev
    BY <2>3, AcceptedKeeps
  <2>5. DevicesOK' /\ \A e \in Device : dev'[e] = IF e = s THEN Watching(dev[s]) ELSE dev[e]
    BY <1>1, <1>2 DEF TypeInv, DevicesOK
  <2>6. ListOK' /\ CountersOK' /\ GhostsOK'
    BY <2>3 DEF changed_ap, TypeInv, ListOK, CountersOK, GhostsOK
  <2>7. WaitOK'
    <3>1. WaitOK /\ \A u \in Thread : thread[u].dev \in Device \cup {Null}
      BY DEF TypeInv, ServletsOK, ServletType
    <3>2. QED
      BY <1>1, <2>4, <2>5, <3>1, NobodyNewWaits
  <2>8. UpOK'
    BY <1>4, <2>1, <2>3 DEF changed_ap, TypeInv, UpOK
  <2>9. QED
    BY <2>3, <2>5, <2>6, <2>7, <2>8 DEF TypeInv
<1>5. QED
  BY <1>3, <1>4

LEMMA StutterType ==
    ASSUME TypeInv, UNCHANGED vars
    PROVE  TypeInv'
<1>1. DevicesOK' /\ ServletsOK' /\ WaitOK' /\ UpOK'
  BY DEF TypeInv, vars, DevicesOK, ServletsOK, WaitOK, UpOK
<1>2. ListOK' /\ CountersOK' /\ GhostsOK'
  BY DEF TypeInv, vars, ListOK, CountersOK, GhostsOK
<1>3. QED
  BY <1>1, <1>2 DEF TypeInv

LEMMA TypeStep == TypeInv /\ [Next]_vars => TypeInv'
<1> SUFFICES ASSUME TypeInv, [Next]_vars
             PROVE  TypeInv'
  OBVIOUS
<1>1. ASSUME NEW t \in Thread, ServletStep(t)
      PROVE  TypeInv'
  BY <1>1, GetOneIntfType, InsertFindType, InsertLinkType, InsertPublishType,
     GetInterfacesType, SetSnrType, SetStatisticsType, FindStationType,
     GetApInRangeType, GetTrafficType, ChooseApType, ReplyType DEF ServletStep
<1>2. CASE Next
  BY <1>1, <1>2, StartStationType, StartApType, StopType, ControllerStartType,
     HelloType, RelayType, MeasureType, CompareType, RoamType, ChangedApType
     DEF Next
<1>3. QED
  BY <1>2, StutterType

\* TypeInv holds in every state of a behaviour.
THEOREM TypesHold == Spec => []TypeInv
BY InitType, TypeStep, PTL DEF Spec

\* Every variable of the controller and of the devices keeps its type, and a
\* station waits only for a controller that runs, however the hellos, the
\* reports, the failures and the restarts meet.
THEOREM TypeCorrect == Spec => []TypeOK
<1>1. TypeInv => TypeOK
  <2> SUFFICES ASSUME TypeInv
               PROVE  TypeOK
    OBVIOUS
  <2>1. dev \in [Device -> DeviceType] /\ \A s \in Sta : dev[s].main = "wait" => up
    BY DEF TypeInv, DevicesOK, UpOK, Device
  <2>2. /\ DOMAIN list = {"ap", "sta"}
        /\ \A k \in DOMAIN list : \A i \in DOMAIN list[k] : list[k][i] \in Entry
    BY DEF TypeInv, ListOK
  <2>3. ASSUME NEW t \in Thread
        PROVE  /\ thread[t].pc \in {"idle"} \cup HelloPcs \cup ReportPcs
               /\ thread[t].entry \in Device \cup {Null} \cup Entry
               /\ \A i \in DOMAIN thread[t].range : thread[t].range[i] \in ApInRange
               /\ {thread[t].cur, thread[t].answer} \subseteq Mac
    <3>1. thread[t] \in ServletType
      BY ServletFacts
    <3>2. thread[t].range \in Seq(ApInRange)
      BY <3>1 DEF ServletType
    <3>3. QED
      BY <3>1, <3>2 DEF ServletType, Pcs
  <2>4. up \in BOOLEAN /\ {shared, crossed} \subseteq BOOLEAN
    BY DEF TypeInv, UpOK, GhostsOK
  <2>5. /\ client_addr \in Address \cup {Null}
        /\ restarts \in 0..MaxRestarts /\ faults \in 0..MaxFaults
        /\ connections \in 0..MaxConnections
        /\ wild \in {"none", "interfaces", "scan", "current", "early", "statistics",
                     "uninitialized", "freed"}
    BY DEF TypeInv, UpOK, CountersOK, GhostsOK, Crashes
  <2>6. QED
    BY <2>1, <2>2, <2>3, <2>4, <2>5 DEF TypeOK, DeviceType
<1>2. QED
  BY <1>1, TypesHold, PTL

-----------------------------------------------------------------------------
(* The steps that neither touch a list nor move a servlet that goes on *)

Quiet(u) ==
    /\ thread'[u].pc = thread[u].pc /\ thread'[u].mac = thread[u].mac
    /\ thread'[u].entry = thread[u].entry /\ thread'[u].seen = thread[u].seen
    /\ thread'[u].cur = thread[u].cur /\ thread'[u].host = thread[u].host
    /\ thread'[u].aps = thread[u].aps /\ thread'[u].range = thread[u].range
    /\ thread'[u].answer = thread[u].answer
    /\ thread'[u].own \in {Null, thread[u].own}

Begins(u) ==
    /\ thread'[u].pc \in {"one_intf", "station"}
    /\ thread'[u].pc = "station" =>
          thread'[u].range = <<>> /\ thread'[u].answer = thread'[u].cur

OwnName(u) ==
    thread'[u].own # Null =>
        client_addr' = thread'[u].own /\ dev'[thread'[u].mac].addr = thread'[u].own

Aside ==
    /\ UNCHANGED <<list, inserted, crossed>>
    /\ OwnAddress'
    /\ \A u \in Thread : /\ Quiet(u) \/ thread'[u] = Idle \/ Begins(u)
                         /\ OwnName(u)

\* No device gets an address.
LEMMA NoNewAddress ==
    ASSUME OwnAddress,
           \A d \in Device : dev'[d].addr = dev[d].addr \/ dev'[d].addr = Null
    PROVE  OwnAddress'
BY DEF OwnAddress

\* A servlet has answered.
LEMMA AnswerAside ==
    ASSUME TypeInv, EntryInv, NEW t \in Thread, Answered(t),
           \A d \in Device : dev'[d].addr = dev[d].addr,
           UNCHANGED <<client_addr, list, ghosts>>
    PROVE  Aside
<1>1. \A u \in Thread : thread'[u] = IF u = t THEN Idle ELSE thread[u]
  BY DEF Answered, TypeInv, ServletsOK
<1>2. OwnAddress'
  BY NoNewAddress DEF EntryInv
<1>3. ASSUME NEW u \in Thread
      PROVE  (Quiet(u) \/ thread'[u] = Idle) /\ OwnName(u)
  <2>1. CASE u = t
    BY <1>1, <2>1 DEF Idle, OwnName
  <2>2. CASE u # t
    <3>1. thread'[u] = thread[u]
      BY <1>1, <2>2
    <3>2. thread[u].own # Null => thread[u].mac \in Device
      BY ServletFacts DEF ServletSound
    <3>3. Undisturbed_OK(thread[u])
      BY DEF EntryInv
    <3>4. QED
      BY <3>1, <3>2, <3>3 DEF Quiet, OwnName, Undisturbed_OK
  <2>3. QED
    BY <2>1, <2>2
<1>4. QED
  BY <1>2, <1>3 DEF Aside, ghosts

LEMMA CrashAside ==
    ASSUME TypeInv, EntryInv, NEW at, Crash(at),
           UNCHANGED <<client_addr, list, ghosts>>
    PROVE  Aside
<1>1. \A u \in Thread : thread'[u] = Idle
  BY DEF Crash
<1>2. ASSUME NEW d \in Device
      PROVE  dev'[d].addr = dev[d].addr
  <2> DEFINE r == [dev[d] EXCEPT !.main = "measure", !.cur = Null]
  <2>1. dev[d] \in DeviceType
    BY DEF TypeInv, DevicesOK
  <2>2. dev'[d] = IF dev[d].main = "wait" THEN r ELSE dev[d]
    BY DEF Crash, Released
  <2>3. r.addr = dev[d].addr
    BY <2>1 DEF DeviceType
  <2>4. QED
    BY <2>2, <2>3
<1>3. OwnAddress'
  BY <1>2, NoNewAddress DEF EntryInv
<1>4. \A u \in Thread : OwnName(u)
  BY <1>1 DEF OwnName, Idle
<1>5. QED
  BY <1>1, <1>3, <1>4 DEF Aside, ghosts

\* A device goes on as r: it starts under an address of its own, ends, or
\* keeps its address.
LEMMA DeviceAside ==
    ASSUME TypeInv, EntryInv, NEW d \in Device, NEW r,
           dev' = [dev EXCEPT ![d] = r],
           \/ thread' = thread /\ r.addr = dev[d].addr
           \/ thread' = thread /\ dev[d].addr = Null /\ \A e \in Device : dev[e].addr # r.addr
           \/ thread' = Left(d) /\ r.addr = Null,
           UNCHANGED <<client_addr, list, ghosts>>
    PROVE  Aside
<1>1. \A e \in Device : dev'[e] = IF e = d THEN r ELSE dev[e]
  BY DEF TypeInv, DevicesOK
<1>2. OwnAddress'
  BY <1>1 DEF EntryInv, OwnAddress
<1>3. ASSUME NEW u \in Thread
      PROVE  Quiet(u) /\ OwnName(u)
  <2>1. thread[u] \in ServletType /\ ServletSound(thread[u])
    BY ServletFacts
  <2>2. CASE thread' = Left(d)
    <3> DEFINE x == IF thread[u].dev = d THEN Null ELSE thread[u].dev
               q == [thread[u] EXCEPT !.own = Null, !.dev = x]
    <3>1. thread'[u] = q
      BY <2>2 DEF Left
    <3> HIDE DEF x
    <3>2. QED
      BY <2>1, <3>1 DEF ServletType, Quiet, OwnName
  <2>3. CASE thread' # Left(d)
    <3>1. thread[u].own # Null => thread[u].mac \in Device
      BY <2>1 DEF ServletSound
    <3>2. Undisturbed_OK(thread[u])
      BY DEF EntryInv
    <3>3. thread[u].own # Null => dev'[thread[u].mac].addr = dev[thread[u].mac].addr
      BY <1>1, <2>3, <3>1, <3>2 DEF Undisturbed_OK
    <3>4. QED
      BY <2>3, <3>2, <3>3 DEF Quiet, OwnName, Undisturbed_OK
  <2>4. QED
    BY <2>2, <2>3
<1>4. QED
  BY <1>2, <1>3 DEF Aside, ghosts

\* A connection is accepted for the servlet t, which goes on as r.
LEMMA AcceptedAside ==
    ASSUME TypeInv, EntryInv, NEW a \in Address, NEW t \in Thread,
           NEW r \in ServletType, ServletSound(r), thread[t].pc = "idle",
           Accepted(a, [thread EXCEPT ![t] = r]),
           r.pc \in {"one_intf", "station"},
           r.pc = "station" => r.range = <<>> /\ r.answer = r.cur,
           r.own # Null => r.own = a /\ dev'[r.mac].addr = a,
           \A d \in Device : dev'[d].addr = dev[d].addr,
           UNCHANGED <<list, inserted, crossed>>
    PROVE  Aside
<1>1. /\ thread'[t] = r
      /\ \A u \in Thread \ {t} :
            /\ thread[u].pc \notin HelloPcs => thread'[u] = thread[u]
            /\ thread[u].pc \in HelloPcs => thread'[u] = [thread[u] EXCEPT !.own = Null]
      /\ client_addr' = a
  BY AcceptedFacts
<1>2. OwnAddress'
  BY NoNewAddress DEF EntryInv
<1>3. Begins(t) /\ OwnName(t)
  BY <1>1 DEF Begins, OwnName
<1>4. ASSUME NEW u \in Thread \ {t}
      PROVE  Quiet(u) /\ OwnName(u)
  <2>1. thread[u] \in ServletType /\ ServletSound(thread[u])
    BY ServletFacts
  <2>2. Quiet(u)
    BY <1>1, AcceptedKeeps DEF Quiet
  <2>3. thread'[u].own = Null
    BY <1>1, <2>1 DEF ServletType, ServletSound
  <2>4. QED
    BY <2>2, <2>3 DEF OwnName
<1>5. QED
  BY <1>2, <1>3, <1>4 DEF Aside

\* A servlet that stays out of the lists goes on as r.
Progress(h, r) ==
    \/ h.pc = "interfaces" /\ r = [h EXCEPT !.pc = "set_snr"]
    \/ /\ h.pc = "station"
       /\ \E pc \in {"scan", "reply"}, a \in Address \cup {Null} :
             r = [h EXCEPT !.host = a, !.pc = pc]
    \/ h.pc = "scan" /\ \E aps \in Scan : r = Scanned(h, aps)
    \/ h.pc = "traffic" /\ \E v \in {-1} \cup Traffic : r = Priced(h, v)
    \/ /\ h.pc = "choose"
       /\ \E i \in Least(h.range) :
             r = [h EXCEPT !.answer = h.range[i].mac, !.pc = "reply"]

MovesOn(t, r) ==
    /\ thread' = [thread EXCEPT ![t] = r]
    /\ Progress(thread[t], r)
    /\ UNCHANGED <<dev, client_addr, list, ghosts>>

Inserting(t) ==
    get_one_intf(t) \/ insert_find(t) \/ insert_link(t) \/ insert_publish(t)

LEMMA ServletCases ==
    ASSUME TypeInv, EntryInv, NEW t \in Thread, ServletStep(t)
    PROVE  Aside \/ Inserting(t) \/ \E r : MovesOn(t, r)
<1>1. CASE Inserting(t)
  BY <1>1
<1>2. CASE get_interfaces(t)
  <2>1. \/ Crash("interfaces") /\ UNCHANGED <<client_addr, list, ghosts>>
        \/ /\ Goto(t, "set_snr")
           /\ UNCHANGED <<dev, client_addr, list, ghosts>>
    BY <1>2 DEF get_interfaces, ghosts
  <2>2. thread[t].pc = "interfaces"
    BY <1>2 DEF get_interfaces, At
  <2>3. CASE Crash("interfaces") /\ UNCHANGED <<client_addr, list, ghosts>>
    BY <2>3, CrashAside
  <2>4. CASE Goto(t, "set_snr") /\ UNCHANGED <<dev, client_addr, list, ghosts>>
    BY <2>2, <2>4 DEF Goto, MovesOn, Progress
  <2>5. QED
    BY <2>1, <2>3, <2>4
<1>3. CASE set_snr(t)
  <2>1. PICK o \in Outcome(client_addr) :
           dev' = [d \in Device |-> IF d = o.dev THEN [dev[d] EXCEPT !.snr = "set"]
                                    ELSE dev[d]]
    BY <1>3 DEF set_snr
  <2>2. \A d \in Device : dev'[d].addr = dev[d].addr
    BY <2>1 DEF TypeInv, DevicesOK, DeviceType
  <2>3. QED
    BY <1>3, <2>2, AnswerAside DEF set_snr
<1>4. CASE set_statistics(t)
  <2>1. \A d \in Device : dev'[d].addr = dev[d].addr
    BY <1>4 DEF set_statistics, TypeInv, DevicesOK, DeviceType
  <2>2. QED
    BY <1>4, <2>1, AnswerAside DEF set_statistics
<1>5. CASE reply(t)
  <2>1. ASSUME NEW d \in Device
        PROVE  dev'[d].addr = dev[d].addr
    <3> DEFINE r == [dev[d] EXCEPT !.main = "answer", !.answer = thread[t].answer]
    <3>1. dev'[d] = IF d = thread[t].dev THEN r ELSE dev[d]
      BY <1>5 DEF reply
    <3>2. r.addr = dev[d].addr
      BY DEF TypeInv, DevicesOK, DeviceType
    <3>3. QED
      BY <3>1, <3>2
  <2>2. QED
    BY <1>5, <2>1, AnswerAside DEF reply
<1>6. CASE find_station(t)
  <2>1. thread[t].pc = "station" /\ UNCHANGED <<dev, client_addr, list, ghosts>>
    BY <1>6 DEF find_station, At
  <2>2. PICK h \in Address \cup {Null}, pc \in {"scan", "reply"} :
           thread' = [thread EXCEPT ![t] = [thread[t] EXCEPT !.host = h, !.pc = pc]]
    BY <1>6, FindStationCases
  <2>3. QED
    BY <2>1, <2>2 DEF MovesOn, Progress
<1>7. CASE get_ap_in_range(t)
  <2>1. thread[t].pc = "scan" /\ UNCHANGED <<client_addr, list, ghosts>>
    BY <1>7 DEF get_ap_in_range, At
  <2>2. \/ Crash("scan")
        \/ Crash("current")
        \/ \E aps \in Scan : thread' = [thread EXCEPT ![t] = Scanned(thread[t], aps)]
                             /\ UNCHANGED dev
    BY <1>7, GetApInRangeCases
  <2>3. QED
    BY <2>1, <2>2, CrashAside DEF MovesOn, Progress
<1>8. CASE get_traffic(t)
  <2>1. thread[t].pc = "traffic" /\ UNCHANGED <<client_addr, list, ghosts>>
    BY <1>8 DEF get_traffic, At
  <2>2. \/ \E at : Crash(at)
        \/ \E v \in {-1} \cup Traffic :
              thread' = [thread EXCEPT ![t] = Priced(thread[t], v)] /\ UNCHANGED dev
    BY <1>8, GetTrafficCases
  <2>3. QED
    BY <2>1, <2>2, CrashAside DEF MovesOn, Progress
<1>9. CASE choose_ap(t)
  <2>1. thread[t].pc = "choose" /\ UNCHANGED <<client_addr, list, ghosts>>
    BY <1>9 DEF choose_ap, At
  <2>2. \/ Crash("freed")
        \/ \E i \in Least(thread[t].range) :
              /\ thread' = [thread EXCEPT ![t].answer = thread[t].range[i].mac,
                                          ![t].pc = "reply"]
              /\ UNCHANGED dev
    BY <1>9 DEF choose_ap
  <2>3. ASSUME NEW i \in Least(thread[t].range),
               thread' = [thread EXCEPT ![t].answer = thread[t].range[i].mac,
                                        ![t].pc = "reply"],
               UNCHANGED dev
        PROVE  \E r : MovesOn(t, r)
    <3> DEFINE m == thread[t].range[i].mac
               r == [thread[t] EXCEPT !.answer = m, !.pc = "reply"]
    <3>1. thread' = [thread EXCEPT ![t] = r]
      BY <2>3 DEF TypeInv, ServletsOK, ServletType
    <3>2. MovesOn(t, r)
      BY <2>1, <2>3, <3>1 DEF MovesOn, Progress
    <3>3. QED
      BY <3>2
  <2>4. QED
    BY <2>1, <2>2, <2>3, CrashAside
<1>10. QED
  BY <1>1, <1>2, <1>3, <1>4, <1>5, <1>6, <1>7, <1>8, <1>9 DEF ServletStep, Inserting

LEMMA DeviceCases ==
    ASSUME TypeInv, EntryInv,
           \/ \E s \in Sta, a \in Address, created \in BOOLEAN, ap \in First :
                 StartStation(s, a, created, ap)
           \/ \E d \in Ap, a \in Address : StartAp(d, a)
           \/ \E d \in Device : Stop(d)
           \/ \E s \in Sta : Compare(s) \/ roam_change_ap(s)
    PROVE  Aside
<1>1. \A d \in Device : dev[d] \in DeviceType /\ (dev[d].main = "down" => dev[d].addr = Null)
  BY DEF TypeInv, DevicesOK, DeviceSound
<1>2. Sta \subseteq Device /\ Ap \subseteq Device
  BY DEF Device
<1>3. ASSUME NEW s \in Sta, NEW a \in Address, NEW created \in BOOLEAN, NEW ap \in First,
             StartStation(s, a, created, ap)
      PROVE  Aside
  <2> DEFINE m == run_threaded_server(created)
             r == [Down EXCEPT !.addr = a, !.serves = created, !.ap = ap, !.main = m]
  <2>1. /\ dev' = [dev EXCEPT ![s] = r] /\ thread' = thread /\ dev[s].main = "down"
        /\ \A e \in Device : dev[e].addr # a
        /\ UNCHANGED <<client_addr, list, ghosts>>
    BY <1>3 DEF StartStation
  <2>2. r.addr = a
    BY DEF Down
  <2> HIDE DEF r
  <2>3. QED
    BY <1>1, <1>2, <2>1, <2>2, DeviceAside
<1>4. ASSUME NEW d \in Ap, NEW a \in Address, StartAp(d, a)
      PROVE  Aside
  <2> DEFINE r == [Down EXCEPT !.addr = a, !.serves = TRUE, !.main = "eloop"]
  <2>1. /\ dev' = [dev EXCEPT ![d] = r] /\ thread' = thread /\ dev[d].main = "down"
        /\ \A e \in Device : dev[e].addr # a
        /\ UNCHANGED <<client_addr, list, ghosts>>
    BY <1>4 DEF StartAp
  <2>2. r.addr = a
    BY DEF Down
  <2> HIDE DEF r
  <2>3. QED
    BY <1>1, <1>2, <2>1, <2>2, DeviceAside
<1>5. Down.addr = Null
  BY DEF Down
<1>6. ASSUME NEW d \in Device, Stop(d)
      PROVE  Aside
  BY <1>5, <1>6, DeviceAside DEF Stop
<1>7. ASSUME NEW s \in Sta, Compare(s)
      PROVE  Aside
  <2>1. PICK r : /\ dev' = [dev EXCEPT ![s] = r]
                 /\ \/ r = Down /\ thread' = Left(s)
                    \/ r.addr = dev[s].addr /\ thread' = thread
    BY <1>7, CompareCases
  <2>2. UNCHANGED <<client_addr, list, ghosts>>
    BY <1>7 DEF Compare
  <2>3. QED
    BY <1>2, <1>5, <2>1, <2>2, DeviceAside
<1>8. ASSUME NEW s \in Sta, roam_change_ap(s)
      PROVE  Aside
  <2>1. PICK ap : dev' = [dev EXCEPT ![s].main = "changed", ![s].ap = ap]
    BY <1>8 DEF roam_change_ap
  <2> DEFINE r == [dev[s] EXCEPT !.main = "changed", !.ap = ap]
  <2>2. dev' = [dev EXCEPT ![s] = r] /\ r.addr = dev[s].addr
    BY <1>1, <1>2, <2>1 DEF DeviceType, TypeInv, DevicesOK
  <2> HIDE DEF r
  <2>3. QED
    BY <1>2, <1>8, <2>2, DeviceAside DEF roam_change_ap
<1>9. QED
  BY <1>3, <1>4, <1>6, <1>7, <1>8

LEMMA ConnectionCases ==
    ASSUME TypeInv, EntryInv,
           \/ \E t \in Thread, d \in Device : process_msg_hello(t, d)
           \/ \E t \in Thread, d \in Device, s \in Sta, cur \in First :
                 Relay(t, d, s, cur)
           \/ \E t \in Thread, s \in Sta : Measure(t, s)
           \/ \E s \in Sta : changed_ap(s)
    PROVE  Aside
<1>1. \A d \in Device : dev[d] \in DeviceType /\ DeviceSound(dev[d])
  BY DEF TypeInv, DevicesOK
<1>2. Sta \subseteq Device
  BY DEF Device
<1>3. ASSUME NEW t \in Thread, NEW d \in Device, process_msg_hello(t, d)
      PROVE  Aside
  <2>1. /\ dev[d].serves /\ thread[t].pc = "idle"
        /\ Accepted(dev[d].addr, [thread EXCEPT ![t] = Hello(d)])
        /\ UNCHANGED <<dev, list, inserted, crossed>>
    BY <1>3 DEF process_msg_hello, At, Hello
  <2>2. /\ dev[d].addr \in Address
        /\ Hello(d) \in ServletType /\ ServletSound(Hello(d))
        /\ Hello(d).pc = "one_intf" /\ Hello(d).mac = d
        /\ Hello(d).own = dev[d].addr
    BY <2>1, HelloFacts
  <2>3. QED
    BY <2>1, <2>2, AcceptedAside
<1>4. ASSUME NEW t \in Thread, NEW d \in Device, NEW s \in Sta, NEW cur \in First,
             Relay(t, d, s, cur)
      PROVE  Aside
  <2> DEFINE r == Reporting(s, cur, Null)
  <2>1. dev[d].serves /\ thread[t].pc = "idle"
        /\ Accepted(dev[d].addr, [thread EXCEPT ![t] = r])
        /\ UNCHANGED <<dev, list, inserted, crossed>>
    BY <1>4 DEF Relay, At
  <2>2. dev[d].addr \in Address /\ cur \in Mac /\ s \in Device
    BY <2>1, HelloFacts, HandoverConstants DEF Mac, Device
  <2>3. r \in ServletType /\ ServletSound(r) /\ r.pc = "station" /\ r.own = Null
        /\ r.range = <<>> /\ r.cur = cur /\ r.answer = cur
    BY <2>2, ReportingFacts
  <2> HIDE DEF r
  <2>4. QED
    BY <2>1, <2>2, <2>3, AcceptedAside
<1>5. ASSUME NEW t \in Thread, NEW s \in Sta, Measure(t, s)
      PROVE  Aside
  <2>1. PICK cur \in Link(s) :
           /\ dev' = [dev EXCEPT ![s].main = "wait", ![s].cur = cur]
           /\ Accepted(dev[s].addr, [thread EXCEPT ![t] = Reporting(s, cur, s)])
    BY <1>5 DEF Measure
  <2> DEFINE r == Reporting(s, cur, s)
  <2>2. thread[t].pc = "idle" /\ dev[s].main = "measure"
        /\ UNCHANGED <<list, inserted, crossed>>
    BY <1>5 DEF Measure, At
  <2>3. dev[s].addr \in Address /\ cur \in Mac
    <3>1. dev[s].ap \in Mac
      BY <1>1, <1>2 DEF DeviceType
    <3>2. QED
      BY <1>1, <1>2, <2>2, <3>1 DEF DeviceSound, Link, Mac
  <2>4. r \in ServletType /\ ServletSound(r) /\ r.pc = "station" /\ r.own = Null
        /\ r.range = <<>> /\ r.cur = cur /\ r.answer = cur
    BY <1>2, <2>3, ReportingFacts
  <2>5. \A d \in Device : dev'[d].addr = dev[d].addr
    <3> DEFINE q == [dev[s] EXCEPT !.main = "wait", !.cur = cur]
    <3>1. dev' = [dev EXCEPT ![s] = q] /\ q.addr = dev[s].addr
      BY <1>1, <1>2, <2>1 DEF DeviceType, TypeInv, DevicesOK
    <3> HIDE DEF q
    <3>2. QED
      BY <3>1 DEF TypeInv, DevicesOK
  <2> HIDE DEF r
  <2>6. QED
    BY <2>1, <2>2, <2>3, <2>4, <2>5, AcceptedAside DEF r
<1>6. ASSUME NEW s \in Sta, changed_ap(s)
      PROVE  Aside
  <2>1. /\ dev[s].main = "changed" /\ dev' = [dev EXCEPT ![s] = Watching(dev[s])]
        /\ UNCHANGED <<list, inserted, crossed>>
    BY <1>6 DEF changed_ap
  <2>2. Watching(dev[s]).addr = dev[s].addr /\ dev[s].addr \in Address
    BY <1>1, <1>2, <2>1, WatchingFacts DEF DeviceSound
  <2>3. CASE ~up
    <3>1. thread' = thread /\ UNCHANGED <<client_addr, list, ghosts>>
      BY <1>6, <2>1, <2>3 DEF changed_ap, ghosts
    <3>2. QED
      BY <1>2, <2>1, <2>2, <3>1, DeviceAside
  <2>4. CASE up
    <3>1. Accepted(dev[s].addr, thread)
      BY <1>6, <2>4 DEF changed_ap
    <3>2. \A u \in Thread :
             /\ thread[u].pc \notin HelloPcs => thread'[u] = thread[u]
             /\ thread[u].pc \in HelloPcs => thread'[u] = [thread[u] EXCEPT !.own = Null]
      BY <2>2, <3>1, AcceptedQuietly
    <3>3. \A d \in Device : dev'[d].addr = dev[d].addr
      BY <1>2, <2>1, <2>2 DEF TypeInv, DevicesOK
    <3>4. OwnAddress'
      BY <3>3, NoNewAddress DEF EntryInv
    <3>5. ASSUME NEW u \in Thread
          PROVE  Quiet(u) /\ OwnName(u)
      <4>1. thread[u] \in ServletType /\ ServletSound(thread[u])
        BY ServletFacts
      <4>2. Quiet(u)
        BY <3>2, AcceptedKeeps DEF Quiet
      <4>3. thread'[u].own = Null
        BY <3>2, <4>1 DEF ServletType, ServletSound
      <4>4. QED
        BY <4>2, <4>3 DEF OwnName
    <3>6. QED
      BY <2>1, <3>4, <3>5 DEF Aside
  <2>5. QED
    BY <2>3, <2>4
<1>7. QED
  BY <1>3, <1>4, <1>5, <1>6

LEMMA StutterAside ==
    ASSUME TypeInv, EntryInv, UNCHANGED vars
    PROVE  Aside
<1>1. OwnAddress'
  BY NoNewAddress DEF EntryInv, vars
<1>2. ASSUME NEW u \in Thread
      PROVE  Quiet(u) /\ OwnName(u)
  <2>1. Undisturbed_OK(thread[u])
    BY DEF EntryInv
  <2>2. QED
    BY <2>1 DEF Quiet, OwnName, Undisturbed_OK, vars
<1>3. QED
  BY <1>1, <1>2 DEF Aside, vars

\* What a step can be.
LEMMA NextCases ==
    ASSUME TypeInv, EntryInv, [Next]_vars
    PROVE  Aside \/ ControllerStart
              \/ \E t \in Thread : Inserting(t) \/ \E r : MovesOn(t, r)
<1>1. CASE UNCHANGED vars
  BY <1>1, StutterAside
<1>2. CASE Next
  <2>1. CASE \E t \in Thread : ServletStep(t)
    BY <2>1, ServletCases
  <2>2. QED
    BY <1>2, <2>1, DeviceCases, ConnectionCases DEF Next
<1>3. QED
  BY <1>1, <1>2

-----------------------------------------------------------------------------
(* Who an element of a list is for *)

LEMMA ProgressFacts ==
    ASSUME TypeInv, NEW t \in Thread, NEW r, MovesOn(t, r)
    PROVE  /\ \A u \in Thread : thread'[u] = IF u = t THEN r ELSE thread[u]
           /\ r.own = thread[t].own /\ r.mac = thread[t].mac /\ r.cur = thread[t].cur
           /\ r.pc \in {"set_snr", "scan", "reply", "traffic", "choose"}
           /\ r.pc # "set_snr" => thread[t].pc \in ReportPcs
<1>1. \A u \in Thread : thread'[u] = IF u = t THEN r ELSE thread[u]
  BY DEF MovesOn, TypeInv, ServletsOK
<1>2. thread[t] \in ServletType
  BY ServletFacts
<1> DEFINE h == thread[t]
<1>3. CASE h.pc = "scan" /\ \E aps \in Scan : r = Scanned(h, aps)
  BY <1>1, <1>2, <1>3, ScannedFacts DEF TypeInv, ReportPcs
<1>4. CASE h.pc = "traffic" /\ \E v \in {-1} \cup Traffic : r = Priced(h, v)
  <2>1. PICK v \in {-1} \cup Traffic : r = Priced(h, v)
    BY <1>4
  <2>2. r.pc \in {"traffic", "choose"} /\ r = [h EXCEPT !.range = r.range, !.pc = r.pc]
    BY <1>2, <1>4, <2>1, PricedFacts
  <2>3. r.own = h.own /\ r.mac = h.mac /\ r.cur = h.cur
    BY <1>2, <2>2 DEF ServletType
  <2>4. QED
    BY <1>1, <1>4, <2>2, <2>3 DEF ReportPcs
<1>5. CASE \/ h.pc = "interfaces" /\ r = [h EXCEPT !.pc = "set_snr"]
           \/ /\ h.pc = "station"
              /\ \E pc \in {"scan", "reply"}, a \in Address \cup {Null} :
                    r = [h EXCEPT !.host = a, !.pc = pc]
           \/ /\ h.pc = "choose"
              /\ \E i \in Least(h.range) :
                    r = [h EXCEPT !.answer = h.range[i].mac, !.pc = "reply"]
  BY <1>1, <1>2, <1>5 DEF ServletType, ReportPcs
<1>6. QED
  BY <1>3, <1>4, <1>5 DEF MovesOn, Progress

ServletEntry(u) ==
    /\ Undisturbed_OK(thread[u])
    /\ thread[u].pc = "publish" =>
          /\ TrueIn(thread[u].entry, ListOf(u))
          /\ \A i \in DOMAIN thread[u].seen : TrueIn(thread[u].seen[i], ListOf(u))

ListsTrue == \A k \in {"ap", "sta"} : \A i \in DOMAIN list[k] : TrueIn(list[k][i], k)

LEMMA EntryParts ==
    EntryInv <=> OwnAddress /\ ListsTrue /\ \A u \in Thread : ServletEntry(u)
BY DEF EntryInv, ListsTrue, ServletEntry

LEMMA InitEntry == Init => EntryInv
<1>1. SUFFICES ASSUME Init
               PROVE  EntryInv
  OBVIOUS
<1>2. OwnAddress
  BY <1>1 DEF Init, OwnAddress, Down
<1>3. ListsTrue
  BY <1>1 DEF Init, ListsTrue
<1>4. \A u \in Thread : ServletEntry(u)
  BY <1>1 DEF Init, ServletEntry, Undisturbed_OK, Idle
<1>5. QED
  BY <1>2, <1>3, <1>4, EntryParts

LEMMA AsideEntry ==
    ASSUME TypeInv, EntryInv, Aside
    PROVE  EntryInv'
<1>1. OwnAddress'
  BY DEF Aside
<1>2. ListsTrue'
  BY EntryParts DEF Aside, ListsTrue, TrueIn, Kind
<1>3. ASSUME NEW u \in Thread
      PROVE  ServletEntry(u)'
  <2>1. ServletEntry(u) /\ OwnName(u)
    BY EntryParts DEF Aside
  <2>2. CASE Quiet(u)
    BY <2>1, <2>2 DEF Quiet, OwnName, ServletEntry, Undisturbed_OK, ListOf, Kind, TrueIn
  <2>3. CASE thread'[u] = Idle
    BY <2>3 DEF Idle, ServletEntry, Undisturbed_OK
  <2>4. CASE Begins(u)
    BY <2>1, <2>4 DEF Begins, OwnName, ServletEntry, Undisturbed_OK
  <2>5. QED
    BY <2>2, <2>3, <2>4 DEF Aside
<1>4. QED
  BY <1>1, <1>2, <1>3 DEF EntryInv, ServletEntry, ListsTrue, Undisturbed_OK, TrueIn

\* A servlet goes on as r, which has no element to insert yet.
LEMMA MovesEntry ==
    ASSUME TypeInv, EntryInv, NEW t \in Thread, NEW r,
           \A u \in Thread : thread'[u] = IF u = t THEN r ELSE thread[u],
           r.own = thread[t].own, r.mac = thread[t].mac, r.pc # "publish",
           r.own # Null /\ r.pc \in {"find", "link"} => r.entry = r.mac,
           UNCHANGED <<dev, client_addr, list>>
    PROVE  EntryInv'
<1>1. OwnAddress' /\ ListsTrue'
  BY EntryParts DEF OwnAddress, ListsTrue, TrueIn, Kind
<1>2. ASSUME NEW u \in Thread
      PROVE  ServletEntry(u)'
  <2>1. ServletEntry(u)
    BY EntryParts
  <2>2. CASE u = t
    BY <2>1, <2>2 DEF ServletEntry, Undisturbed_OK
  <2>3. CASE u # t
    BY <2>1, <2>3 DEF ServletEntry, Undisturbed_OK, ListOf, Kind, TrueIn
  <2>4. QED
    BY <2>2, <2>3
<1>3. QED
  BY <1>1, <1>2 DEF EntryInv, ServletEntry, ListsTrue, Undisturbed_OK, TrueIn

LEMMA GetOneIntfEntry ==
    ASSUME TypeInv, EntryInv, NEW t \in Thread, get_one_intf(t)
    PROVE  EntryInv'
<1>1. PICK o \in Outcome(client_addr) :
         thread' = [thread EXCEPT ![t].entry = o.dev,
                                  ![t].pc = IF o.dev = Null THEN AfterInsert(t)
                                            ELSE "find"]
  BY DEF get_one_intf
<1> DEFINE pc == IF o.dev = Null THEN AfterInsert(t) ELSE "find"
           r == [thread[t] EXCEPT !.entry = o.dev, !.pc = pc]
<1>2. thread[t] \in ServletType /\ ServletSound(thread[t]) /\ Undisturbed_OK(thread[t])
  BY ServletFacts DEF EntryInv
<1>3. thread' = [thread EXCEPT ![t] = r]
  BY <1>1 DEF TypeInv, ServletsOK, ServletType
<1>4. pc \in {"find", "set_statistics", "interfaces"} /\ (pc = "find" => o.dev # Null)
  BY AfterInsertType
<1> HIDE DEF pc
<1>5. r.own = thread[t].own /\ r.mac = thread[t].mac /\ r.entry = o.dev /\ r.pc = pc
  BY <1>2 DEF ServletType
<1>6. ASSUME r.own # Null, r.pc = "find"
      PROVE  o.dev = thread[t].mac
  <2>1. thread[t].mac \in Device
    BY <1>2, <1>5, <1>6 DEF ServletSound
  <2>2. o.dev \in Serving(client_addr)
    BY <1>4, <1>5, <1>6, OutcomeFacts DEF TypeInv
  <2>3. o.dev \in Device /\ dev[o.dev].addr = client_addr
    BY <2>2 DEF Serving
  <2>4. dev[thread[t].mac].addr = client_addr /\ client_addr # Null
    BY <1>2, <1>5, <1>6 DEF Undisturbed_OK
  <2>5. QED
    BY <2>1, <2>3, <2>4 DEF EntryInv, OwnAddress
<1> HIDE DEF r
<1>7. \A u \in Thread : thread'[u] = IF u = t THEN r ELSE thread[u]
  BY <1>3 DEF TypeInv, ServletsOK
<1>8. r.own # Null /\ r.pc \in {"find", "link"} => r.entry = r.mac
  BY <1>4, <1>5, <1>6
<1>9. UNCHANGED <<dev, client_addr, list>> /\ r.pc # "publish"
  BY <1>4, <1>5 DEF get_one_intf
<1>10. QED
  BY <1>5, <1>7, <1>8, <1>9, MovesEntry

LEMMA InsertFindEntry ==
    ASSUME TypeInv, EntryInv, NEW t \in Thread, insert_find(t)
    PROVE  EntryInv'
<1> DEFINE new == find_device(thread[t].entry, list[ListOf(t)]) = {}
           pc == IF new THEN "link" ELSE AfterInsert(t)
           en == IF new THEN thread[t].entry ELSE Null
           r == [thread[t] EXCEPT !.entry = en, !.pc = pc]
<1>1. /\ thread[t] \in ServletType /\ ServletSound(thread[t])
      /\ thread[t].pc = "find" /\ Undisturbed_OK(thread[t])
  BY ServletFacts DEF insert_find, At, EntryInv
<1>2. thread' = [thread EXCEPT ![t] = r]
  BY DEF TypeInv, ServletsOK, ServletType, insert_find
<1>3. /\ pc \in {"link", "set_statistics", "interfaces"}
      /\ pc = "link" => en = thread[t].entry
  BY AfterInsertType
<1> HIDE DEF pc, en
<1>4. r.own = thread[t].own /\ r.mac = thread[t].mac /\ r.entry = en /\ r.pc = pc
  BY <1>1 DEF ServletType
<1>5. r.own # Null /\ r.pc = "link" => r.entry = r.mac
  BY <1>1, <1>3, <1>4 DEF Undisturbed_OK
<1> HIDE DEF r
<1>6. \A u \in Thread : thread'[u] = IF u = t THEN r ELSE thread[u]
  BY <1>2 DEF TypeInv, ServletsOK
<1>7. QED
  BY <1>3, <1>4, <1>5, <1>6, MovesEntry DEF insert_find

\* insert_link: the record of the servlet that goes on.
Linked(t) ==
    [thread[t] EXCEPT !.entry = [mac |-> thread[t].entry, host |-> client_addr,
                                 of |-> Undisturbed(t)],
                      !.seen = list[ListOf(t)], !.pc = "publish"]

LEMMA LinkedFacts ==
    ASSUME TypeInv, NEW t \in Thread, insert_link(t)
    PROVE  /\ \A u \in Thread : thread'[u] = IF u = t THEN Linked(t) ELSE thread[u]
           /\ Linked(t).entry = [mac |-> thread[t].entry, host |-> client_addr,
                                 of |-> Undisturbed(t)]
           /\ Linked(t).seen = list[ListOf(t)] /\ Linked(t).pc = "publish"
           /\ Linked(t).own = thread[t].own /\ Linked(t).mac = thread[t].mac
<1> DEFINE en == [mac |-> thread[t].entry, host |-> client_addr, of |-> Undisturbed(t)]
           l == list[ListOf(t)]
           r == [thread[t] EXCEPT !.entry = en, !.seen = l, !.pc = "publish"]
<1>1. thread[t] \in ServletType
  BY ServletFacts
<1>2. thread' = [thread EXCEPT ![t] = r]
  BY DEF TypeInv, ServletsOK, ServletType, insert_link
<1>3. Linked(t) = r
  BY DEF Linked
<1> HIDE DEF en, l
<1>4. r.entry = en /\ r.seen = l /\ r.pc = "publish" /\ r.own = thread[t].own
      /\ r.mac = thread[t].mac
  BY <1>1 DEF ServletType
<1> HIDE DEF r
<1>5. \A u \in Thread : thread'[u] = IF u = t THEN r ELSE thread[u]
  BY <1>2 DEF TypeInv, ServletsOK
<1>6. QED
  BY <1>3, <1>4, <1>5 DEF en, l

LEMMA InsertLinkEntry ==
    ASSUME TypeInv, EntryInv, NEW t \in Thread, insert_link(t)
    PROVE  EntryInv'
<1> DEFINE r == Linked(t)
<1>1. /\ \A u \in Thread : thread'[u] = IF u = t THEN r ELSE thread[u]
      /\ r.entry = [mac |-> thread[t].entry, host |-> client_addr, of |-> Undisturbed(t)]
      /\ r.seen = list[ListOf(t)] /\ r.pc = "publish"
      /\ r.own = thread[t].own /\ r.mac = thread[t].mac
  BY LinkedFacts
<1> HIDE DEF r
<1>2. OwnAddress' /\ ListsTrue'
  BY EntryParts DEF insert_link, OwnAddress, ListsTrue, TrueIn, Kind
<1>3. ASSUME NEW u \in Thread
      PROVE  ServletEntry(u)'
  <2>1. ServletEntry(u) /\ UNCHANGED <<dev, client_addr, list>>
    BY EntryParts DEF insert_link
  <2>2. CASE u = t
    <3>1. Undisturbed_OK(thread[t])'
      BY <1>1, <2>1, <2>2 DEF ServletEntry, Undisturbed_OK
    <3>2. TrueIn(r.entry, ListOf(t))
      <4>1. SUFFICES ASSUME Undisturbed(t) # Null
                     PROVE  TrueIn(r.entry, ListOf(t))
        BY <1>1 DEF TrueIn
      <4>2. thread[t].own # Null
            /\ Undisturbed(t) = [mac |-> thread[t].mac, host |-> thread[t].own]
        BY <4>1 DEF Undisturbed
      <4>3. thread[t].entry = thread[t].mac /\ client_addr = thread[t].own
        BY <2>1, <2>2, <4>2 DEF ServletEntry, Undisturbed_OK, insert_link, At
      <4>4. QED
        BY <1>1, <4>2, <4>3 DEF TrueIn, ListOf
    <3>3. \A i \in DOMAIN r.seen : TrueIn(r.seen[i], ListOf(t))
      BY <1>1, ListOfType DEF EntryInv
    <3>4. ListOf(t)' = ListOf(t)
      BY <1>1 DEF ListOf, Kind
    <3>5. QED
      BY <1>1, <2>2, <3>1, <3>2, <3>3, <3>4 DEF ServletEntry, TrueIn, Kind
  <2>3. CASE u # t
    BY <1>1, <2>1, <2>3 DEF ServletEntry, Undisturbed_OK, ListOf, Kind, TrueIn
  <2>4. QED
    BY <2>2, <2>3
<1>4. QED
  BY <1>2, <1>3 DEF EntryInv, ServletEntry, ListsTrue, Undisturbed_OK, TrueIn

\* insert_publish: the record of the servlet that goes on, and the list.
LEMMA PublishFacts ==
    ASSUME TypeInv, NEW t \in Thread, insert_publish(t)
    PROVE  /\ \A u \in Thread : u # t => thread'[u] = thread[u]
           /\ thread'[t].pc \in {"set_statistics", "interfaces"}
           /\ thread'[t].pc = AfterInsert(t)
           /\ thread'[t].own = thread[t].own /\ thread'[t].mac = thread[t].mac
           /\ thread[t].entry \in Entry /\ thread[t].seen \in Seq(Entry)
           /\ ListOf(t) \in {"ap", "sta"}
           /\ \A k \in {"ap", "sta"} :
                 list'[k] = IF k = ListOf(t) THEN <<thread[t].entry>> \o thread[t].seen
                            ELSE list[k]
           /\ list'[ListOf(t)] \in Seq(Entry)
           /\ DOMAIN list'[ListOf(t)] = 1..(Len(thread[t].seen) + 1)
           /\ Len(thread[t].seen) \in Nat
           /\ \A i \in DOMAIN list'[ListOf(t)] :
                 list'[ListOf(t)][i] = IF i = 1 THEN thread[t].entry
                                       ELSE thread[t].seen[i - 1]
<1> DEFINE pc == AfterInsert(t)
           r == [thread[t] EXCEPT !.entry = Null, !.seen = <<>>, !.pc = pc]
           e == thread[t].entry
           s == thread[t].seen
<1>1. thread[t] \in ServletType /\ ServletSound(thread[t]) /\ thread[t].pc = "publish"
  BY ServletFacts DEF insert_publish, At
<1>2. thread' = [thread EXCEPT ![t] = r]
  BY DEF TypeInv, ServletsOK, ServletType, insert_publish
<1>3. pc \in {"set_statistics", "interfaces"}
  BY AfterInsertType
<1>4. e \in Entry /\ s \in Seq(Entry)
  BY <1>1 DEF ServletSound, ServletType
<1> HIDE DEF pc
<1>5. r.pc = pc /\ r.own = thread[t].own /\ r.mac = thread[t].mac
  BY <1>1 DEF ServletType
<1> HIDE DEF r
<1>6. \A u \in Thread : thread'[u] = IF u = t THEN r ELSE thread[u]
  BY <1>2 DEF TypeInv, ServletsOK
<1>7. ListOf(t) \in {"ap", "sta"}
  BY ListOfType
<1>8. \A k \in {"ap", "sta"} : list'[k] = IF k = ListOf(t) THEN <<e>> \o s ELSE list[k]
  BY DEF insert_publish, TypeInv, ListOK
<1> HIDE DEF e, s
<1>9. /\ <<e>> \o s \in Seq(Entry) /\ DOMAIN (<<e>> \o s) = 1..(Len(s) + 1)
      /\ Len(s) \in Nat
      /\ \A i \in 1..(Len(s) + 1) : (<<e>> \o s)[i] = IF i = 1 THEN e ELSE s[i - 1]
  <2>1. <<e>> \in Seq(Entry) /\ Len(<<e>>) = 1 /\ <<e>>[1] = e
    BY <1>4
  <2>2. <<e>> \o s \in Seq(Entry) /\ Len(<<e>> \o s) = Len(s) + 1
    BY <1>4, <2>1
  <2>3. Len(s) \in Nat
    BY <1>4
  <2>4. \A i \in 1..(1 + Len(s)) : (<<e>> \o s)[i] = IF i <= 1 THEN <<e>>[i] ELSE s[i - 1]
    BY <1>4, <2>1, ConcatProperties
  <2>5. DOMAIN (<<e>> \o s) = 1..Len(<<e>> \o s)
    BY <2>2, LenProperties
  <2>6. QED
    BY <2>1, <2>2, <2>3, <2>4, <2>5
<1>10. QED
  BY <1>3, <1>4, <1>5, <1>6, <1>7, <1>8, <1>9 DEF e, s, pc

LEMMA InsertPublishEntry ==
    ASSUME TypeInv, EntryInv, NEW t \in Thread, insert_publish(t)
    PROVE  EntryInv'
<1>1. OwnAddress'
  BY EntryParts DEF insert_publish, OwnAddress
<1>2. ASSUME NEW u \in Thread
      PROVE  ServletEntry(u)'
  <2>1. ServletEntry(u) /\ UNCHANGED <<dev, client_addr>>
    BY EntryParts DEF insert_publish
  <2>2. CASE u = t
    <3>1. /\ thread'[t].pc \in {"set_statistics", "interfaces"}
          /\ thread'[t].own = thread[t].own /\ thread'[t].mac = thread[t].mac
      BY PublishFacts
    <3>2. QED
      BY <2>1, <2>2, <3>1 DEF ServletEntry, Undisturbed_OK
  <2>3. CASE u # t
    <3>1. thread'[u] = thread[u]
      BY <2>3, PublishFacts
    <3>2. QED
      BY <2>1, <3>1 DEF ServletEntry, Undisturbed_OK, ListOf, Kind, TrueIn
  <2>4. QED
    BY <2>2, <2>3
<1>3. ListsTrue'
  <2>1. ASSUME NEW k \in {"ap", "sta"}, NEW i \in DOMAIN list'[k]
        PROVE  TrueIn(list'[k][i], k)
    <3>1. CASE k # ListOf(t)
      BY <2>1, <3>1, PublishFacts DEF EntryInv
    <3>2. CASE k = ListOf(t)
      <4>1. TrueIn(thread[t].entry, k)
            /\ \A j \in DOMAIN thread[t].seen : TrueIn(thread[t].seen[j], k)
        BY <3>2 DEF EntryInv, insert_publish, At
      <4>2. DOMAIN thread[t].seen = 1..Len(thread[t].seen)
        BY PublishFacts
      <4>3. list'[k][i] = IF i = 1 THEN thread[t].entry ELSE thread[t].seen[i - 1]
        BY <2>1, <3>2, PublishFacts
      <4>4. i \in 1..(Len(thread[t].seen) + 1) /\ Len(thread[t].seen) \in Nat
        BY <2>1, <3>2, PublishFacts
      <4>5. i # 1 => i - 1 \in DOMAIN thread[t].seen
        BY <4>2, <4>4
      <4>6. QED
        BY <4>1, <4>3, <4>5
    <3>3. QED
      BY <3>1, <3>2
  <2>2. QED
    BY <2>1 DEF ListsTrue, TrueIn, Kind
<1>4. QED
  BY <1>1, <1>2, <1>3 DEF EntryInv, ServletEntry, ListsTrue, Undisturbed_OK, TrueIn

LEMMA EntryStep == TypeInv /\ EntryInv /\ [Next]_vars => EntryInv'
<1> SUFFICES ASSUME TypeInv, EntryInv, [Next]_vars
             PROVE  EntryInv'
  OBVIOUS
<1>1. CASE Aside
  BY <1>1, AsideEntry
<1>2. CASE ControllerStart
  <2>1. OwnAddress'
    BY <1>2, EntryParts DEF ControllerStart, OwnAddress
  <2>2. ListsTrue'
    BY <1>2 DEF ControllerStart, ListsTrue
  <2>3. ASSUME NEW u \in Thread
        PROVE  ServletEntry(u)'
    <3>1. thread'[u] = thread[u] /\ thread[u].pc = "idle"
      BY <1>2 DEF ControllerStart, TypeInv, UpOK
    <3>2. thread[u].own = Null
      BY <3>1, ServletFacts DEF ServletSound, HelloPcs
    <3>3. QED
      BY <3>1, <3>2 DEF ServletEntry, Undisturbed_OK
  <2>4. QED
    BY <2>1, <2>2, <2>3 DEF EntryInv, ServletEntry, ListsTrue, Undisturbed_OK, TrueIn
<1>3. ASSUME NEW t \in Thread, Inserting(t)
      PROVE  EntryInv'
  BY <1>3, GetOneIntfEntry, InsertFindEntry, InsertLinkEntry, InsertPublishEntry
     DEF Inserting
<1>4. ASSUME NEW t \in Thread, NEW r, MovesOn(t, r)
      PROVE  EntryInv'
  <2>1. /\ \A u \in Thread : thread'[u] = IF u = t THEN r ELSE thread[u]
        /\ r.own = thread[t].own /\ r.mac = thread[t].mac
        /\ r.pc \in {"set_snr", "scan", "reply", "traffic", "choose"}
    BY <1>4, ProgressFacts
  <2>2. QED
    BY <1>4, <2>1, MovesEntry DEF MovesOn
<1>5. QED
  BY <1>1, <1>2, <1>3, <1>4, NextCases

\* EntryInv holds in every state of a behaviour.
THEOREM EntriesHold == Spec => []EntryInv
<1>1. Init => EntryInv
  BY InitEntry
<1>2. TypeInv /\ EntryInv /\ [Next]_vars => EntryInv'
  BY EntryStep
<1>3. QED
  BY <1>1, <1>2, TypesHold, PTL DEF Spec

\* configure_experiment and insert_device: an element that is published has
\* the address of the device that said hello and the host it said it from, in
\* the list of its kind, unless a connection or a restart got in the way of
\* that hello - whatever the elements before it went through.
THEOREM EntriesTrue == Spec => []EntryTrue
<1>1. TypeInv /\ EntryInv => EntryTrue
  BY DEF TypeInv, ListOK, EntryInv, EntryTrue, TrueIn
<1>2. QED
  BY <1>1, TypesHold, EntriesHold, PTL

-----------------------------------------------------------------------------
(* What insertions do to the lists *)

\* The address of a device is looked for in the whole list.
LEMMA NotFound ==
    ASSUME NEW l \in Seq(Entry), NEW m, find_device(m, l) = {}
    PROVE  m \notin Macs(l)
<1> DEFINE at == {j \in DOMAIN l : l[j].mac = m}
<1>1. SUFFICES ASSUME at # {}
               PROVE  FALSE
  BY DEF Macs
<1>2. at \in SUBSET Nat /\ \A j \in DOMAIN l : j \in Nat /\ 1..(j - 1) \subseteq DOMAIN l
  <2>1. DOMAIN l = 1..Len(l) /\ Len(l) \in Nat
    BY LenProperties
  <2>2. QED
    BY <2>1
<1>3. PICK j \in at : \A k \in at : j <= k
  BY <1>1, <1>2, LeastNumber
<1>4. \A k \in 1..(j - 1) : l[k].mac # m
  BY <1>2, <1>3
<1>5. l[j] \in find_device(m, l)
  BY <1>3, <1>4 DEF find_device
<1>6. QED
  BY <1>5

\* A step that leaves the lists and the insertions under way alone.
LEMMA ListFrame ==
    ASSUME TypeInv, ListInv, UNCHANGED <<list, inserted, crossed>>,
           \A u \in Thread : thread'[u].pc \in InsertPcs =>
               /\ thread'[u].pc = thread[u].pc /\ thread'[u].entry = thread[u].entry
               /\ thread'[u].seen = thread[u].seen /\ thread'[u].mac = thread[u].mac
    PROVE  ListInv'
<1>1. SUFFICES ASSUME ~crossed
               PROVE  ListInv'
  BY DEF ListInv
<1>2. \A u \in Thread : thread'[u].pc \in InsertPcs =>
          ListOf(u)' = ListOf(u) /\ NewMac(thread'[u]) = NewMac(thread[u])
  BY DEF ListOf, NewMac, Kind
<1>3. \A u \in Thread : thread'[u].pc \in InsertPcs =>
          NewMac(thread'[u]) \notin Macs(list'[ListOf(u)'])
  BY <1>1, <1>2 DEF ListInv
<1>4. \A u \in Thread : thread'[u].pc = "publish" => thread'[u].seen = list'[ListOf(u)']
  BY <1>1, <1>2 DEF ListInv, InsertPcs
<1>5. \A t, u \in Thread :
         (/\ thread'[t].pc \in InsertPcs /\ thread'[u].pc \in InsertPcs
          /\ ListOf(t)' = ListOf(u)')
           => t = u
  BY <1>1, <1>2 DEF ListInv
<1>6. \A k \in {"ap", "sta"} :
         /\ Distinct(list'[k])
         /\ Macs(list'[k]) = {m \in Device : <<k, m>> \in inserted'}
  BY <1>1 DEF ListInv
<1>7. QED
  BY <1>3, <1>4, <1>5, <1>6 DEF ListInv, NewMac, Macs, Distinct

LEMMA InitList == Init => ListInv
<1>1. SUFFICES ASSUME Init
               PROVE  ListInv
  OBVIOUS
<1>2. \A t \in Thread : thread[t].pc \notin InsertPcs /\ thread[t].pc # "publish"
  BY <1>1 DEF Init, Idle, InsertPcs
<1>3. \A k \in {"ap", "sta"} : DOMAIN list[k] = {}
  BY <1>1 DEF Init
<1>4. \A k \in {"ap", "sta"} :
         Distinct(list[k]) /\ Macs(list[k]) = {m \in Device : <<k, m>> \in inserted}
  BY <1>1, <1>3 DEF Init, Distinct, Macs
<1>5. QED
  BY <1>2, <1>4 DEF ListInv

LEMMA GetOneIntfList ==
    ASSUME TypeInv, ListInv, NEW t \in Thread, get_one_intf(t)
    PROVE  ListInv'
<1>1. PICK o \in Outcome(client_addr) :
         thread' = [thread EXCEPT ![t].entry = o.dev,
                                  ![t].pc = IF o.dev = Null THEN AfterInsert(t)
                                            ELSE "find"]
  BY DEF get_one_intf
<1> DEFINE pc == IF o.dev = Null THEN AfterInsert(t) ELSE "find"
           r == [thread[t] EXCEPT !.entry = o.dev, !.pc = pc]
<1>2. thread[t] \in ServletType
  BY ServletFacts
<1>3. thread' = [thread EXCEPT ![t] = r]
  BY <1>1 DEF TypeInv, ServletsOK, ServletType
<1>4. pc \notin InsertPcs
  BY AfterInsertType DEF InsertPcs
<1> HIDE DEF pc
<1>5. r.pc = pc
  BY <1>2 DEF ServletType
<1> HIDE DEF r
<1>6. \A u \in Thread : thread'[u] = IF u = t THEN r ELSE thread[u]
  BY <1>3 DEF TypeInv, ServletsOK
<1>7. UNCHANGED <<list, inserted, crossed>>
  BY DEF get_one_intf, ghosts
<1>8. QED
  BY <1>4, <1>5, <1>6, <1>7, ListFrame

LEMMA InsertFindList ==
    ASSUME TypeInv, ListInv, NEW t \in Thread, insert_find(t)
    PROVE  ListInv'
<1> DEFINE new == find_device(thread[t].entry, list[ListOf(t)]) = {}
           pc == IF new THEN "link" ELSE AfterInsert(t)
           en == IF new THEN thread[t].entry ELSE Null
           r == [thread[t] EXCEPT !.entry = en, !.pc = pc]
<1>1. thread[t] \in ServletType
  BY ServletFacts
<1>2. thread' = [thread EXCEPT ![t] = r]
  BY DEF TypeInv, ServletsOK, ServletType, insert_find
<1>3. new \in BOOLEAN /\ (new => pc = "link" /\ en = thread[t].entry)
      /\ (~new => pc \notin InsertPcs)
  BY AfterInsertType DEF InsertPcs
<1>4. UNCHANGED <<list, inserted>>
      /\ crossed' = (crossed \/ (new /\ \E u \in Thread \ {t} :
                                   thread[u].pc \in {"link", "publish"}
                                   /\ ListOf(u) = ListOf(t)))
  BY DEF insert_find
<1>5. new => thread[t].entry \notin Macs(list[ListOf(t)])
  BY ListOfType, NotFound DEF TypeInv, ListOK
<1> HIDE DEF pc, en, new
<1>6. r.mac = thread[t].mac /\ r.entry = en /\ r.pc = pc
  BY <1>1 DEF ServletType
<1> HIDE DEF r
<1>7. \A u \in Thread : thread'[u] = IF u = t THEN r ELSE thread[u]
  BY <1>2 DEF TypeInv, ServletsOK
<1>8. CASE ~new
  <2>1. crossed' = crossed
    BY <1>4, <1>8 DEF TypeInv, GhostsOK
  <2>2. QED
    BY <1>3, <1>4, <1>6, <1>7, <1>8, <2>1, ListFrame
<1>9. CASE new
  <2>1. SUFFICES ASSUME ~crossed'
                 PROVE  ListInv'
    BY DEF ListInv
  <2>2. /\ ~crossed
        /\ \A u \in Thread \ {t} : thread[u].pc \in InsertPcs => ListOf(u) # ListOf(t)
    BY <1>4, <1>9, <2>1 DEF InsertPcs
  <2>3. \A u \in Thread : ListOf(u)' = ListOf(u)
    BY <1>6, <1>7 DEF ListOf, Kind
  <2>4. \A u \in Thread : thread'[u].pc \in InsertPcs =>
            NewMac(thread'[u]) \notin Macs(list'[ListOf(u)'])
    <3>1. NewMac(thread'[t]) = thread[t].entry
      BY <1>3, <1>6, <1>7, <1>9 DEF NewMac
    <3>2. \A u \in Thread \ {t} : thread[u].pc \in InsertPcs =>
              NewMac(thread[u]) \notin Macs(list[ListOf(u)])
      BY <2>2 DEF ListInv
    <3>3. QED
      BY <1>4, <1>5, <1>7, <1>9, <2>3, <3>1, <3>2
  <2>5. \A u \in Thread : thread'[u].pc = "publish" =>
            thread'[u].seen = list'[ListOf(u)']
    BY <1>3, <1>4, <1>6, <1>7, <1>9, <2>2, <2>3 DEF ListInv
  <2>6. \A v, u \in Thread :
           (/\ thread'[v].pc \in InsertPcs /\ thread'[u].pc \in InsertPcs
            /\ ListOf(v)' = ListOf(u)')
             => v = u
    BY <1>7, <2>2, <2>3 DEF ListInv
  <2>7. \A k \in {"ap", "sta"} :
           /\ Distinct(list'[k])
           /\ Macs(list'[k]) = {m \in Device : <<k, m>> \in inserted'}
    BY <1>4, <2>2 DEF ListInv
  <2>8. QED
    BY <2>4, <2>5, <2>6, <2>7 DEF ListInv, NewMac, Macs, Distinct
<1>10. QED
  BY <1>8, <1>9

LEMMA InsertLinkList ==
    ASSUME TypeInv, ListInv, NEW t \in Thread, insert_link(t)
    PROVE  ListInv'
<1> DEFINE r == Linked(t)
<1>1. /\ \A u \in Thread : thread'[u] = IF u = t THEN r ELSE thread[u]
      /\ r.entry = [mac |-> thread[t].entry, host |-> client_addr, of |-> Undisturbed(t)]
      /\ r.seen = list[ListOf(t)] /\ r.pc = "publish" /\ r.mac = thread[t].mac
  BY LinkedFacts
<1>2. thread[t].pc = "link" /\ UNCHANGED <<list, inserted, crossed>>
  BY DEF insert_link, At, ghosts
<1>3. r.entry.mac = thread[t].entry
  BY <1>1
<1> HIDE DEF r
<1>4. SUFFICES ASSUME ~crossed
               PROVE  ListInv'
  BY <1>2 DEF ListInv
<1>5. \A u \in Thread : ListOf(u)' = ListOf(u) /\ NewMac(thread'[u]) = NewMac(thread[u])
                        /\ (thread'[u].pc \in InsertPcs => thread[u].pc \in InsertPcs)
  BY <1>1, <1>2, <1>3 DEF ListOf, Kind, NewMac, InsertPcs
<1>6. \A u \in Thread : thread'[u].pc \in InsertPcs =>
          NewMac(thread'[u]) \notin Macs(list'[ListOf(u)'])
  BY <1>2, <1>4, <1>5 DEF ListInv
<1>7. \A u \in Thread : thread'[u].pc = "publish" => thread'[u].seen = list'[ListOf(u)']
  BY <1>1, <1>2, <1>4, <1>5 DEF ListInv
<1>8. \A v, u \in Thread :
         (/\ thread'[v].pc \in InsertPcs /\ thread'[u].pc \in InsertPcs
          /\ ListOf(v)' = ListOf(u)')
           => v = u
  BY <1>4, <1>5 DEF ListInv
<1>9. \A k \in {"ap", "sta"} :
         /\ Distinct(list'[k])
         /\ Macs(list'[k]) = {m \in Device : <<k, m>> \in inserted'}
  BY <1>2, <1>4 DEF ListInv
<1>10. QED
  BY <1>6, <1>7, <1>8, <1>9 DEF ListInv, NewMac, Macs, Distinct

LEMMA InsertPublishList ==
    ASSUME TypeInv, ListInv, NEW t \in Thread, insert_publish(t)
    PROVE  ListInv'
<1> DEFINE k == ListOf(t)
           e == thread[t].entry
<1>1. /\ \A u \in Thread : u # t => thread'[u] = thread[u]
      /\ thread'[t].pc \in {"set_statistics", "interfaces"}
      /\ thread'[t].mac = thread[t].mac
      /\ e \in Entry /\ k \in {"ap", "sta"}
      /\ \A j \in {"ap", "sta"} : j # k => list'[j] = list[j]
  BY PublishFacts
<1>2. /\ DOMAIN list'[k] = 1..(Len(thread[t].seen) + 1)
      /\ Len(thread[t].seen) \in Nat
      /\ DOMAIN thread[t].seen = 1..Len(thread[t].seen)
      /\ \A i \in DOMAIN list'[k] : list'[k][i] = IF i = 1 THEN e
                                                 ELSE thread[t].seen[i - 1]
  <2>1. /\ DOMAIN list'[k] = 1..(Len(thread[t].seen) + 1)
        /\ Len(thread[t].seen) \in Nat
        /\ thread[t].seen \in Seq(Entry)
        /\ \A i \in DOMAIN list'[k] : list'[k][i] = IF i = 1 THEN e
                                                   ELSE thread[t].seen[i - 1]
    BY PublishFacts, Zenon
  <2>2. QED
    BY <2>1, LenProperties
<1>3. /\ thread[t].pc = "publish" /\ crossed' = crossed
      /\ inserted' = inserted \cup {<<k, e.mac>>}
  BY DEF insert_publish, At
<1>4. SUFFICES ASSUME ~crossed
               PROVE  ListInv'
  BY <1>3 DEF ListInv
<1>5. /\ e.mac \notin Macs(list[k]) /\ thread[t].seen = list[k]
      /\ \A u \in Thread \ {t} : thread[u].pc \in InsertPcs => ListOf(u) # k
  BY <1>3, <1>4 DEF ListInv, InsertPcs, NewMac
<1> HIDE DEF k, e
<1>6. \A u \in Thread : ListOf(u)' = ListOf(u) /\ ListOf(u) \in {"ap", "sta"}
  BY <1>1, ListOfType DEF ListOf, Kind
<1>7. \A u \in Thread : thread'[u].pc \in InsertPcs =>
          u # t /\ thread'[u] = thread[u] /\ list'[ListOf(u)] = list[ListOf(u)]
  BY <1>1, <1>5, <1>6 DEF InsertPcs
<1>8. \A u \in Thread : thread'[u].pc \in InsertPcs =>
          NewMac(thread'[u]) \notin Macs(list'[ListOf(u)'])
  BY <1>4, <1>6, <1>7 DEF ListInv
<1>9. \A u \in Thread : thread'[u].pc = "publish" => thread'[u].seen = list'[ListOf(u)']
  BY <1>4, <1>6, <1>7 DEF ListInv, InsertPcs
<1>10. \A v, u \in Thread :
         (/\ thread'[v].pc \in InsertPcs /\ thread'[u].pc \in InsertPcs
          /\ ListOf(v)' = ListOf(u)')
           => v = u
  BY <1>4, <1>6, <1>7 DEF ListInv
<1>11. ASSUME NEW j \in {"ap", "sta"}
       PROVE  /\ Distinct(list'[j])
              /\ Macs(list'[j]) = {m \in Device : <<j, m>> \in inserted'}
  <2>1. Distinct(list[j]) /\ Macs(list[j]) = {m \in Device : <<j, m>> \in inserted}
    BY <1>4 DEF ListInv
  <2>2. CASE j # k
    BY <1>1, <1>3, <2>1, <2>2
  <2>3. CASE j = k
    <3> DEFINE l == list[k]
               n == Len(l)
    <3>1. /\ n \in Nat /\ DOMAIN l = 1..n /\ DOMAIN list'[k] = 1..(n + 1)
          /\ \A i \in 1..(n + 1) : list'[k][i] = IF i = 1 THEN e ELSE l[i - 1]
      BY <1>2, <1>5
    <3>2. \A i \in DOMAIN l : l[i].mac # e.mac
      BY <1>5 DEF Macs
    <3> HIDE DEF l, n
    <3>3. Distinct(list'[k])
      <4>1. \A i \in DOMAIN list'[k] : i # 1 => i - 1 \in DOMAIN l /\ list'[k][i] = l[i - 1]
        BY <3>1
      <4>2. list'[k][1] = e
        BY <3>1
      <4>3. ASSUME NEW i \in DOMAIN list'[k], NEW h \in DOMAIN list'[k],
                   list'[k][i].mac = list'[k][h].mac
            PROVE  i = h
        <5>1. CASE i = 1 \/ h = 1
          BY <3>2, <4>1, <4>2, <4>3, <5>1
        <5>2. CASE i # 1 /\ h # 1
          <6>1. i - 1 = h - 1
            BY <2>1, <2>3, <4>1, <4>3, <5>2 DEF Distinct, l
          <6>2. QED
            BY <3>1, <6>1
        <5>3. QED
          BY <5>1, <5>2
      <4>4. QED
        BY <4>3 DEF Distinct
    <3>4. Macs(list'[k]) = Macs(l) \cup {e.mac}
      <4>1. \A i \in DOMAIN list'[k] : list'[k][i].mac \in Macs(l) \cup {e.mac}
        <5>1. \A i \in DOMAIN list'[k] : i # 1 => i - 1 \in DOMAIN l
          BY <3>1
        <5>2. \A i \in DOMAIN list'[k] :
                 list'[k][i] = e \/ (i - 1 \in DOMAIN l /\ list'[k][i] = l[i - 1])
          BY <3>1, <5>1
        <5>3. QED
          BY <5>2 DEF Macs
      <4>2. \A i \in DOMAIN l : i + 1 \in DOMAIN list'[k] /\ list'[k][i + 1] = l[i]
        BY <3>1
      <4>3. 1 \in DOMAIN list'[k] /\ list'[k][1] = e
        BY <3>1
      <4>4. Macs(l) \cup {e.mac} \subseteq Macs(list'[k])
        BY <4>2, <4>3 DEF Macs
      <4>5. QED
        BY <4>1, <4>4 DEF Macs
    <3>5. e.mac \in Device
      BY <1>1 DEF Entry
    <3>6. QED
      BY <1>3, <2>1, <2>3, <3>3, <3>4, <3>5 DEF l
  <2>4. QED
    BY <2>2, <2>3
<1>12. QED
  BY <1>8, <1>9, <1>10, <1>11 DEF ListInv, NewMac, Macs, Distinct

LEMMA ListStep == TypeInv /\ EntryInv /\ ListInv /\ [Next]_vars => ListInv'
<1> SUFFICES ASSUME TypeInv, EntryInv, ListInv, [Next]_vars
             PROVE  ListInv'
  OBVIOUS
<1>1. CASE Aside
  <2>1. \A u \in Thread : thread'[u].pc \in InsertPcs => Quiet(u)
    BY <1>1, IdleFacts DEF Aside, Begins, InsertPcs
  <2>2. QED
    BY <1>1, <2>1, ListFrame DEF Aside, Quiet
<1>2. CASE ControllerStart
  <2>1. \A u \in Thread : thread'[u].pc \notin InsertPcs /\ thread'[u].pc # "publish"
    BY <1>2 DEF ControllerStart, TypeInv, UpOK, InsertPcs
  <2>2. \A k \in {"ap", "sta"} : DOMAIN list'[k] = {} /\ inserted' = {}
    BY <1>2 DEF ControllerStart
  <2>3. \A k \in {"ap", "sta"} :
           /\ Distinct(list'[k])
           /\ Macs(list'[k]) = {m \in Device : <<k, m>> \in inserted'}
    BY <2>2 DEF Distinct, Macs
  <2>4. QED
    BY <2>1, <2>3 DEF ListInv, Distinct, Macs
<1>3. ASSUME NEW t \in Thread, Inserting(t)
      PROVE  ListInv'
  BY <1>3, GetOneIntfList, InsertFindList, InsertLinkList, InsertPublishList
     DEF Inserting
<1>4. ASSUME NEW t \in Thread, NEW r, MovesOn(t, r)
      PROVE  ListInv'
  <2>1. /\ \A u \in Thread : thread'[u] = IF u = t THEN r ELSE thread[u]
        /\ r.pc \notin InsertPcs
    BY <1>4, ProgressFacts DEF InsertPcs
  <2>2. UNCHANGED <<list, inserted, crossed>>
    BY <1>4 DEF MovesOn, ghosts
  <2>3. QED
    BY <2>1, <2>2, ListFrame
<1>5. QED
  BY <1>1, <1>2, <1>3, <1>4, NextCases

\* ListInv holds in every state of a behaviour.
THEOREM ListsHold == Spec => []ListInv
<1>1. Init => ListInv
  BY InitList
<1>2. TypeInv /\ EntryInv /\ ListInv /\ [Next]_vars => ListInv'
  BY ListStep
<1>3. QED
  BY <1>1, <1>2, TypesHold, EntriesHold, PTL DEF Spec

\* insert_device, which three lines of a thread carry out without a lock: a
\* device is in a list once and is never lost from it, as long as no two
\* servlets inserted into the list at the same time - two insertions into
\* different lists never disturb one another.
THEOREM ListsCorrect == Spec => []ListsSound
<1>1. TypeInv /\ ListInv => ListsSound
  <2>1. TypeInv => DOMAIN list = {"ap", "sta"}
    BY DEF TypeInv, ListOK
  <2>2. QED
    BY <2>1 DEF ListInv, ListsSound, Distinct
<1>2. QED
  BY <1>1, TypesHold, ListsHold, PTL

-----------------------------------------------------------------------------
(* What a report finds out *)

\* A device that is in list_aps stays there as long as the controller runs,
\* unless two insertions overlap.
LEMMA KnownKept ==
    ASSUME TypeInv, EntryInv, ListInv,
           Aside \/ \E t \in Thread : Inserting(t) \/ \E r : MovesOn(t, r),
           NEW m, Known(m)
    PROVE  Known(m)'
<1>1. CASE Aside \/ \E t \in Thread : \E r : MovesOn(t, r)
  BY <1>1 DEF Aside, MovesOn, ghosts, Known
<1>2. ASSUME NEW t \in Thread, get_one_intf(t) \/ insert_link(t)
      PROVE  Known(m)'
  BY <1>2 DEF get_one_intf, insert_link, ghosts, Known
<1>3. ASSUME NEW t \in Thread, insert_find(t)
      PROVE  Known(m)'
  BY <1>3 DEF insert_find, Known
<1>4. ASSUME NEW t \in Thread, insert_publish(t)
      PROVE  Known(m)'
  <2>1. crossed' = crossed /\ thread[t].pc = "publish"
    BY <1>4 DEF insert_publish, At
  <2>2. CASE crossed
    BY <2>1, <2>2 DEF Known
  <2>3. CASE ~crossed
    <3>1. thread[t].seen = list[ListOf(t)] /\ m \in Macs(list["ap"])
      BY <2>1, <2>3 DEF ListInv, Known
    <3>2. CASE ListOf(t) # "ap"
      <4>1. list'["ap"] = list["ap"]
        BY <1>4, <3>2, PublishFacts, Zenon
      <4>2. QED
        BY <3>1, <4>1 DEF Known, Macs
    <3>3. CASE ListOf(t) = "ap"
      <4>1. /\ DOMAIN list'["ap"] = 1..(Len(list["ap"]) + 1)
            /\ Len(list["ap"]) \in Nat
            /\ \A i \in DOMAIN list'["ap"] : i # 1 => list'["ap"][i] = list["ap"][i - 1]
        <5>1. /\ DOMAIN list'[ListOf(t)] = 1..(Len(thread[t].seen) + 1)
              /\ Len(thread[t].seen) \in Nat
              /\ \A i \in DOMAIN list'[ListOf(t)] :
                    list'[ListOf(t)][i] = IF i = 1 THEN thread[t].entry
                                          ELSE thread[t].seen[i - 1]
          BY <1>4, PublishFacts, Zenon
        <5>2. QED
          BY <3>1, <3>3, <5>1
      <4>2. DOMAIN list["ap"] = 1..Len(list["ap"])
        BY DEF TypeInv, ListOK
      <4>3. PICK i \in DOMAIN list["ap"] : m = list["ap"][i].mac
        BY <3>1 DEF Macs
      <4>4. i + 1 \in DOMAIN list'["ap"] /\ i + 1 # 1 /\ (i + 1) - 1 = i
        BY <4>1, <4>2
      <4>5. list'["ap"][i + 1] = list["ap"][i]
        BY <4>1, <4>4
      <4>6. QED
        BY <4>3, <4>4, <4>5 DEF Known, Macs
    <3>4. QED
      BY <3>2, <3>3
  <2>4. QED
    BY <2>2, <2>3
<1>5. QED
  BY <1>1, <1>2, <1>3, <1>4 DEF Inserting

LEMMA ReportKept ==
    ASSUME NEW u \in Thread, ReportSound(thread[u]),
           \A m : Known(m) => Known(m)',
           thread'[u].pc = thread[u].pc, thread'[u].cur = thread[u].cur,
           thread'[u].aps = thread[u].aps, thread'[u].range = thread[u].range,
           thread'[u].answer = thread[u].answer
    PROVE  ReportSound(thread[u])'
<1>1. Pending(thread[u])' = Pending(thread[u])
  BY DEF Pending
<1>2. Found(thread[u]) => Found(thread[u])'
  BY DEF Found, SeenAbove
<1>3. Best(thread[u]) => Best(thread[u])'
  BY DEF Best, SeenAbove
<1>4. QED
  BY <1>1, <1>2, <1>3 DEF ReportSound

\* A servlet that handles no report, or begins to, or has nothing to tell.
LEMMA ReportTrivial ==
    ASSUME NEW u \in Thread,
           \/ thread'[u].pc \notin {"station", "scan", "traffic", "choose", "reply"}
           \/ /\ thread'[u].pc \in {"station", "scan", "reply"}
              /\ thread'[u].range = <<>> /\ thread'[u].answer = thread'[u].cur
    PROVE  ReportSound(thread[u])'
BY DEF ReportSound, Best

LEMMA MovesReport ==
    ASSUME TypeInv, ReportInv, NEW t \in Thread, NEW r, MovesOn(t, r)
    PROVE  ReportSound(thread[t])'
<1> DEFINE h == thread[t]
<1>1. /\ thread'[t] = r /\ UNCHANGED <<list, crossed>>
      /\ h \in ServletType /\ ReportSound(h)
  <2>1. \A u \in Thread : thread'[u] = IF u = t THEN r ELSE thread[u]
    BY ProgressFacts
  <2>2. h \in ServletType
    BY ServletFacts
  <2>3. QED
    BY <2>1, <2>2 DEF MovesOn, ghosts, ReportInv
<1>2. CASE h.pc = "interfaces" /\ r = [h EXCEPT !.pc = "set_snr"]
  <2>1. r.pc = "set_snr"
    BY <1>1, <1>2 DEF ServletType
  <2>2. QED
    BY <1>1, <2>1, ReportTrivial
<1>3. CASE /\ h.pc = "station"
           /\ \E pc \in {"scan", "reply"}, a \in Address \cup {Null} :
                 r = [h EXCEPT !.host = a, !.pc = pc]
  <2>1. /\ r.pc \in {"scan", "reply"} /\ r.range = h.range
        /\ r.answer = h.answer /\ r.cur = h.cur
    BY <1>1, <1>3 DEF ServletType
  <2>2. QED
    BY <1>1, <1>3, <2>1, ReportTrivial DEF ReportSound
<1>4. CASE h.pc = "scan" /\ \E aps \in Scan : r = Scanned(h, aps)
  <2>1. PICK aps \in Scan : r = Scanned(h, aps)
    BY <1>4
  <2>2. /\ r.cur = h.cur /\ r.answer = h.answer /\ r.aps = aps
        /\ r.range \in Seq(Candidates(aps, h.cur))
        /\ r.pc = IF r.range = <<>> THEN "reply" ELSE "traffic"
    BY <1>1, <2>1, ScannedFacts DEF TypeInv
  <2>3. CASE r.range = <<>>
    BY <1>1, <1>4, <2>2, <2>3, ReportTrivial DEF ReportSound
  <2>4. CASE r.range # <<>>
    <3>1. \A i \in DOMAIN r.range : r.range[i] \in Candidates(aps, h.cur)
      BY <2>2, ElementOfSeq, LenProperties
    <3>2. Pending(r) # {}
      <4>1. 1 \in DOMAIN r.range
        BY <2>2, <2>4, EmptySeq, LenProperties
      <4>2. QED
        BY <3>1, <4>1 DEF Pending, Candidates
    <3>3. Found(r)
      <4>1. ASSUME NEW i \in DOMAIN r.range
            PROVE  /\ r.range[i].mac # r.cur
                   /\ Known(r.range[i].mac)
                   /\ SeenAbove(r.aps, r.range[i].mac)
        <5>1. PICK j \in DOMAIN aps : Candidate(aps[j], h.cur)
                                      /\ r.range[i].mac = aps[j].mac
          BY <3>1 DEF Candidates
        <5>2. r.range[i].mac # r.cur /\ SeenAbove(r.aps, r.range[i].mac)
          BY <2>2, <5>1 DEF Candidate, SeenAbove
        <5>3. PICK e : e \in find_device(aps[j].mac, list["ap"])
          BY <5>1 DEF Candidate
        <5>4. aps[j].mac \in Macs(list["ap"])
          BY <5>3, FoundDevice DEF TypeInv, ListOK
        <5>5. QED
          BY <5>1, <5>2, <5>4 DEF Known
      <4>2. QED
        BY <4>1 DEF Found
    <3>4. QED
      BY <1>1, <2>2, <2>4, <3>2, <3>3 DEF ReportSound, Pending, Found, Known, SeenAbove, Macs
  <2>5. QED
    BY <2>3, <2>4
<1>5. CASE h.pc = "traffic" /\ \E v \in {-1} \cup Traffic : r = Priced(h, v)
  <2>1. PICK v \in {-1} \cup Traffic : r = Priced(h, v)
    BY <1>5
  <2>2. /\ r \in ServletType /\ DOMAIN r.range = DOMAIN h.range
        /\ \A i \in DOMAIN h.range :
              r.range[i] = IF i = Asked(h) THEN [h.range[i] EXCEPT !.traffic = v]
                           ELSE h.range[i]
        /\ r.pc = IF Pending(h) = {Asked(h)} THEN "choose" ELSE "traffic"
        /\ r = [h EXCEPT !.range = r.range, !.pc = r.pc]
    <3> HIDE DEF h
    <3>1. h \in ServletType /\ h.pc = "traffic"
      BY <1>1, <1>5
    <3>2. /\ Priced(h, v) \in ServletType
          /\ DOMAIN Priced(h, v).range = DOMAIN h.range
          /\ \A i \in DOMAIN h.range :
                Priced(h, v).range[i] =
                   IF i = Asked(h) THEN [h.range[i] EXCEPT !.traffic = v]
                   ELSE h.range[i]
          /\ Priced(h, v).pc = IF Pending(h) = {Asked(h)} THEN "choose" ELSE "traffic"
          /\ Priced(h, v) = [h EXCEPT !.range = Priced(h, v).range,
                                      !.pc = Priced(h, v).pc]
      BY <3>1, PricedFacts
    <3>3. QED
      BY <2>1, <3>2, Zenon
  <2>3. r.cur = h.cur /\ r.aps = h.aps
    BY <1>1, <2>2 DEF ServletType
  <2>4. v # -2
    BY HandoverConstants
  <2>5. \A i \in DOMAIN h.range :
           /\ r.range[i].mac = h.range[i].mac
           /\ r.range[i].traffic = IF i = Asked(h) THEN v ELSE h.range[i].traffic
    <3>1. \A i \in DOMAIN h.range : h.range[i] \in ApInRange
      <4>1. h.range \in Seq(ApInRange)
        BY <1>1 DEF ServletType
      <4>2. QED
        BY <4>1, ElementOfSeq, LenProperties
    <3>2. QED
      BY <2>2, <3>1 DEF ApInRange
  <2>6. Pending(r) = Pending(h) \ {Asked(h)}
    BY <2>2, <2>4, <2>5 DEF Pending
  <2>7. Found(r) /\ Pending(h) # {}
    BY <1>1, <1>5, <2>2, <2>3, <2>5 DEF ReportSound, Found
  <2>8. ReportSound(r)
    BY <2>2, <2>6, <2>7 DEF ReportSound
  <2>9. QED
    BY <1>1, <2>8 DEF ReportSound, Pending, Found, Best, Known, SeenAbove, Macs
<1>6. CASE /\ h.pc = "choose"
           /\ \E i \in Least(h.range) :
                 r = [h EXCEPT !.answer = h.range[i].mac, !.pc = "reply"]
  <2>1. PICK i \in Least(h.range) : r = [h EXCEPT !.answer = h.range[i].mac, !.pc = "reply"]
    BY <1>6
  <2> DEFINE m == h.range[i].mac
  <2>2. /\ r.answer = m /\ r.pc = "reply" /\ r.range = h.range
        /\ r.cur = h.cur /\ r.aps = h.aps
    BY <1>1, <2>1 DEF ServletType
  <2>3. \A j \in DOMAIN h.range : h.range[j].traffic \in {-1} \cup Nat
    <3>1. \A j \in DOMAIN h.range : h.range[j] \in ApInRange
      <4>1. h.range \in Seq(ApInRange)
        BY <1>1 DEF ServletType
      <4>2. QED
        BY <4>1, ElementOfSeq, LenProperties
    <3>2. \A j \in DOMAIN h.range : h.range[j].traffic # -2
      BY <1>1, <1>6 DEF ReportSound, Pending
    <3>3. QED
      BY <3>1, <3>2, HandoverConstants DEF ApInRange
  <2>4. /\ i \in DOMAIN h.range /\ h.range[i].traffic # -1
        /\ \A j \in DOMAIN h.range : h.range[j].traffic # -1 =>
              h.range[i].traffic <= h.range[j].traffic
    BY DEF Least
  <2>5. /\ h.range[i].traffic >= 0
        /\ \A j \in DOMAIN h.range : h.range[j].traffic >= 0 =>
              h.range[i].traffic <= h.range[j].traffic
    BY <2>3, <2>4
  <2>6. m # h.cur /\ Known(m) /\ SeenAbove(h.aps, m)
    BY <1>1, <1>6, <2>4 DEF ReportSound, Found
  <2>7. Best(r)
    BY <2>2, <2>4, <2>5, <2>6 DEF Best
  <2>8. QED
    BY <1>1, <2>2, <2>7 DEF ReportSound, Best, Known, SeenAbove, Macs
<1>7. QED
  BY <1>2, <1>3, <1>4, <1>5, <1>6 DEF MovesOn, Progress

LEMMA InsertingReport ==
    ASSUME TypeInv, NEW t \in Thread, Inserting(t)
    PROVE  /\ thread'[t].pc \notin ReportPcs
           /\ \A u \in Thread : u # t => thread'[u] = thread[u]
<1>1. \A u \in Thread : u # t => thread'[u] = thread[u]
  BY DEF Inserting, get_one_intf, insert_find, insert_link, insert_publish, TypeInv,
         ServletsOK
<1>2. AfterInsert(t) \notin ReportPcs
  BY AfterInsertType DEF ReportPcs
<1>3. CASE get_one_intf(t) \/ insert_find(t)
  <2>1. thread[t] \in ServletType /\ thread \in [Thread -> ServletType]
    BY DEF TypeInv, ServletsOK
  <2>2. \E en : \E pc \in {"find", "link", AfterInsert(t)} :
            thread' = [thread EXCEPT ![t].entry = en, ![t].pc = pc]
    <3>1. CASE get_one_intf(t)
      <4>1. PICK o \in Outcome(client_addr) :
               thread' = [thread EXCEPT ![t].entry = o.dev,
                                        ![t].pc = IF o.dev = Null THEN AfterInsert(t)
                                                  ELSE "find"]
        BY <3>1 DEF get_one_intf
      <4>2. QED
        BY <4>1
    <3>2. CASE insert_find(t)
      <4> DEFINE new == find_device(thread[t].entry, list[ListOf(t)]) = {}
                 en == IF new THEN thread[t].entry ELSE Null
      <4>1. thread' = [thread EXCEPT ![t].entry = en,
                                     ![t].pc = IF new THEN "link" ELSE AfterInsert(t)]
        BY <2>1, <3>2 DEF insert_find, ServletType
      <4> HIDE DEF new, en
      <4>2. QED
        BY <4>1
    <3>3. QED
      BY <1>3, <3>1, <3>2
  <2>3. thread'[t].pc \in {"find", "link", AfterInsert(t)}
    BY <2>1, <2>2 DEF ServletType
  <2>4. QED
    BY <1>1, <1>2, <2>2, <2>3 DEF ReportPcs
<1>4. CASE insert_link(t)
  BY <1>1, <1>4, LinkedFacts DEF ReportPcs
<1>5. CASE insert_publish(t)
  BY <1>1, <1>5, PublishFacts DEF ReportPcs
<1>6. QED
  BY <1>3, <1>4, <1>5 DEF Inserting

LEMMA InitReport == Init => ReportInv
BY DEF Init, Idle, ReportInv, ReportSound

LEMMA ReportStep ==
    TypeInv /\ EntryInv /\ ListInv /\ ReportInv /\ [Next]_vars => ReportInv'
<1> SUFFICES ASSUME TypeInv, EntryInv, ListInv, ReportInv, [Next]_vars,
                    NEW u \in Thread
             PROVE  ReportSound(thread[u])'
  BY DEF ReportInv
<1>1. ReportSound(thread[u])
  BY DEF ReportInv
<1>2. CASE ControllerStart
  <2>1. thread'[u].pc = "idle"
    BY <1>2 DEF ControllerStart, TypeInv, UpOK
  <2>2. QED
    BY <2>1, ReportTrivial
<1>3. CASE Aside \/ \E t \in Thread : Inserting(t) \/ \E r : MovesOn(t, r)
  <2>1. \A m : Known(m) => Known(m)'
    BY <1>3, KnownKept
  <2>2. CASE Aside
    <3>1. CASE Quiet(u)
      BY <1>1, <2>1, <3>1, ReportKept DEF Quiet
    <3>2. CASE thread'[u] = Idle \/ Begins(u)
      BY <3>2, IdleFacts, ReportTrivial DEF Begins
    <3>3. QED
      BY <2>2, <3>1, <3>2 DEF Aside
  <2>3. ASSUME NEW t \in Thread, Inserting(t)
        PROVE  ReportSound(thread[u])'
    <3>1. thread'[u].pc \notin ReportPcs \/ thread'[u] = thread[u]
      BY <2>3, InsertingReport
    <3>2. QED
      BY <1>1, <2>1, <3>1, ReportTrivial, ReportKept DEF ReportPcs
  <2>4. ASSUME NEW t \in Thread, NEW r, MovesOn(t, r)
        PROVE  ReportSound(thread[u])'
    <3>1. CASE u = t
      BY <2>4, <3>1, MovesReport
    <3>2. CASE u # t
      <4>1. thread'[u] = thread[u]
        BY <2>4, <3>2, ProgressFacts
      <4>2. QED
        BY <1>1, <2>1, <4>1, ReportKept
    <3>3. QED
      BY <3>1, <3>2
  <2>5. QED
    BY <1>3, <2>2, <2>3, <2>4
<1>4. QED
  BY <1>2, <1>3, NextCases

\* ReportInv holds in every state of a behaviour.
THEOREM ReportsHold == Spec => []ReportInv
<1>1. Init => ReportInv
  BY InitReport
<1>2. TypeInv /\ EntryInv /\ ListInv /\ ReportInv /\ [Next]_vars => ReportInv'
  BY ReportStep
<1>3. QED
  BY <1>1, <1>2, TypesHold, EntriesHold, ListsHold, PTL DEF Spec

\* process_msg_snr_threshold_reached: an answer other than the AP reported is
\* an AP that is in the list, was seen above the threshold, and has the least
\* traffic of those that answered - although the list changes and other
\* reports are handled between the scan, the questions and the answer.
THEOREM AnswersBest == Spec => []BestAnswer
<1>1. ReportInv => BestAnswer
  BY DEF ReportInv, ReportSound, Best, Known, SeenAbove, BestAnswer
<1>2. QED
  BY <1>1, ReportsHold, PTL

-----------------------------------------------------------------------------
(* What holds as long as nothing has gone wrong *)

\* A server goes on answering at its address, and collecting.
Keeps(d) ==
    dev[d].serves => /\ dev'[d].serves /\ dev'[d].addr = dev[d].addr
                     /\ dev[d].collects => dev'[d].collects

Still(u) ==
    /\ thread'[u].pc = thread[u].pc /\ thread'[u].mac = thread[u].mac
    /\ thread'[u].entry = thread[u].entry /\ thread'[u].host = thread[u].host
    /\ thread'[u].range = thread[u].range

\* A process that does not serve changes.
LEMMA OtherKeeps ==
    ASSUME TypeInv, NEW s \in Device, NEW r, ~dev[s].serves,
           dev' = [dev EXCEPT ![s] = r]
    PROVE  \A d \in Device : Keeps(d)
BY DEF TypeInv, DevicesOK, Keeps

LEMMA CrashKeeps ==
    ASSUME TypeInv, NEW at, Crash(at)
    PROVE  \A d \in Device : Keeps(d)
<1>1. ASSUME NEW d \in Device
      PROVE  Keeps(d)
  <2> DEFINE r == [dev[d] EXCEPT !.main = "measure", !.cur = Null]
  <2>1. dev[d].serves => dev[d].main # "wait"
    BY DEF TypeInv, DevicesOK, DeviceSound
  <2>2. dev'[d] = IF dev[d].main = "wait" THEN r ELSE dev[d]
    BY DEF Crash, Released
  <2>3. QED
    BY <2>1, <2>2 DEF Keeps
<1>2. QED
  BY <1>1

\* An exchange reaches the device that serves, unless it fails.
LEMMA CalmOutcome ==
    ASSUME TypeInv, EntryInv, NEW a \in Address, NEW d \in Device, Reaches(d, a),
           NEW o \in Outcome(a), faults' = o.faults, Calm'
    PROVE  o.dev = d
<1>1. CountersOK
  BY DEF TypeInv
<1>2. d \in Serving(a)
  BY DEF Reaches, Serving
<1>3. o.dev \in Serving(a)
  BY <1>1, <1>2, OutcomeFacts DEF Calm
<1>4. dev[o.dev].addr = dev[d].addr /\ dev[d].addr # Null /\ o.dev \in Device
  BY <1>2, <1>3, HandoverConstants DEF Serving
<1>5. QED
  BY <1>4 DEF EntryInv, OwnAddress

\* What the servlets keep when a step of one of them or of a device lets
\* the others be.
LEMMA ServletsCalm ==
    ASSUME TypeInv, CalmState, \A d \in Device : Keeps(d),
           \A d \in Device : dev[d].serves /\ Collected(d) => Collected(d)',
           \A u \in Thread :
              \/ CalmHello(thread[u])' /\ CalmReport(thread[u])'
              \/ /\ Still(u)
                 /\ thread[u].pc \in HelloPcs => client_addr' = client_addr
    PROVE  \A u \in Thread : CalmHello(thread[u])' /\ CalmReport(thread[u])'
<1>1. \A d \in Device : \A a : Reaches(d, a) => Reaches(d, a)' /\ dev[d].serves
  BY DEF Keeps, Reaches
<1>2. SUFFICES ASSUME NEW u \in Thread, Still(u),
                      thread[u].pc \in HelloPcs => client_addr' = client_addr
               PROVE  CalmHello(thread[u])' /\ CalmReport(thread[u])'
  OBVIOUS
<1>3. thread[u] \in ServletType /\ ServletSound(thread[u])
  BY ServletFacts
<1>4. CalmHello(thread[u]) /\ CalmReport(thread[u])
  BY DEF CalmState
<1>5. CalmHello(thread[u])'
  <2>1. SUFFICES ASSUME thread[u].pc \in HelloPcs
                 PROVE  CalmHello(thread[u])'
    BY <1>2 DEF CalmHello, Still
  <2>2. thread[u].mac \in Device
    BY <1>3, <2>1 DEF ServletSound
  <2>3. Reaches(thread[u].mac, client_addr)'
    BY <1>1, <1>2, <1>4, <2>1, <2>2 DEF CalmHello, Still
  <2>4. QED
    BY <1>2, <1>4, <2>1, <2>3 DEF CalmHello, Still
<1>6. CalmReport(thread[u])'
  <2>1. thread[u].pc = "scan" => \E d \in Device : Reaches(d, thread[u].host)'
    BY <1>1, <1>2, <1>4 DEF CalmReport, Still
  <2>2. ASSUME thread[u].pc \in {"traffic", "choose"},
               NEW i \in DOMAIN thread[u].range
        PROVE  /\ Reaches(thread[u].range[i].mac, thread[u].range[i].host)'
               /\ Collected(thread[u].range[i].mac)'
               /\ thread[u].range[i].traffic # -1
    <3>1. thread[u].range \in Seq(ApInRange)
      BY <1>3 DEF ServletType
    <3>2. thread[u].range[i] \in ApInRange
      BY <3>1
    <3>3. thread[u].range[i].mac \in Device
      BY <3>2 DEF ApInRange, Device
    <3>4. /\ Reaches(thread[u].range[i].mac, thread[u].range[i].host)
          /\ Collected(thread[u].range[i].mac)
          /\ thread[u].range[i].traffic # -1
      BY <1>4, <2>2 DEF CalmReport
    <3>5. QED
      BY <1>1, <1>2, <3>3, <3>4 DEF Still
  <2>3. QED
    BY <1>2, <1>4, <2>1, <2>2 DEF CalmReport, Still
<1>7. QED
  BY <1>5, <1>6

LEMMA ListsCalm ==
    ASSUME TypeInv, CalmState, \A d \in Device : Keeps(d), list' = list
    PROVE  \A k \in {"ap", "sta"} : \A i \in DOMAIN list'[k] :
              Reaches(list[k][i].mac, list[k][i].host)' /\ Kind(list'[k][i].mac) = k
<1>1. \A d \in Device : \A a : Reaches(d, a) => Reaches(d, a)'
  BY DEF Keeps, Reaches
<1>2. ASSUME NEW k \in {"ap", "sta"}, NEW i \in DOMAIN list[k]
      PROVE  list[k][i].mac \in Device
  <2>1. list[k][i] \in Entry
    BY <1>2 DEF TypeInv, ListOK
  <2>2. QED
    BY <2>1 DEF Entry
<1>3. QED
  BY <1>1, <1>2 DEF CalmState

\* A step that leaves the lists and the configuration under way alone.
LEMMA CalmFrame ==
    ASSUME TypeInv, CalmState, \A d \in Device : Keeps(d),
           \A d \in Device : dev[d].serves /\ Collected(d) => Collected(d)',
           \A u \in Thread :
              \/ CalmHello(thread[u])' /\ CalmReport(thread[u])'
              \/ /\ Still(u)
                 /\ thread[u].pc \in HelloPcs => client_addr' = client_addr,
           OneHello', list' = list, up' => up, ~crossed', wild' = wild
    PROVE  CalmState'
<1>1. \A u \in Thread : CalmHello(thread[u])' /\ CalmReport(thread[u])'
  BY ServletsCalm
<1>2. \A k \in {"ap", "sta"} : \A i \in DOMAIN list'[k] :
         Reaches(list[k][i].mac, list[k][i].host)' /\ Kind(list'[k][i].mac) = k
  BY ListsCalm
<1>3. up' => \A i \in DOMAIN list'["ap"] : Collected(list["ap"][i].mac)'
  <2>1. ASSUME NEW i \in DOMAIN list["ap"]
        PROVE  list["ap"][i].mac \in Device /\ dev[list["ap"][i].mac].serves
    <3>1. list["ap"][i] \in Entry /\ Reaches(list["ap"][i].mac, list["ap"][i].host)
      BY <2>1 DEF TypeInv, ListOK, CalmState
    <3>2. QED
      BY <3>1 DEF Entry, Reaches
  <2>2. QED
    BY <2>1 DEF CalmState
<1>4. QED
  BY <1>1, <1>2, <1>3 DEF CalmState, Kind

\* No AP that is to be asked to collect is forgotten when nobody stops
\* configuring.
LEMMA CollectedKept ==
    ASSUME TypeInv, \A d \in Device : Keeps(d),
           \A u \in Thread : thread[u].pc = "set_statistics" => Still(u)
    PROVE  \A d \in Device : dev[d].serves /\ Collected(d) => Collected(d)'
BY DEF Keeps, Collected, Still

LEMMA CrashCalm ==
    ASSUME TypeInv, CalmState, NEW at, Crash(at), UNCHANGED <<list, crossed>>,
           at \in {"none", "uninitialized", "current", "early"}
    PROVE  CalmState'
<1>1. \A u \in Thread : thread'[u].pc = "idle"
  BY IdleFacts DEF Crash
<1>2. \A u \in Thread : CalmHello(thread[u])' /\ CalmReport(thread[u])'
  BY <1>1 DEF CalmHello, CalmReport, HelloPcs
<1>3. \A k \in {"ap", "sta"} : \A i \in DOMAIN list'[k] :
         Reaches(list[k][i].mac, list[k][i].host)' /\ Kind(list'[k][i].mac) = k
  BY CrashKeeps, ListsCalm
<1>4. OneHello'
  BY <1>1 DEF OneHello, HelloPcs
<1>5. QED
  BY <1>2, <1>3, <1>4 DEF CalmState, Crash, Kind

\* A process that does not serve changes, and the servlets are at most left
\* alone by it.
LEMMA DeviceCalm ==
    ASSUME TypeInv, CalmState, NEW s \in Device, NEW r, ~dev[s].serves,
           dev' = [dev EXCEPT ![s] = r], thread' = thread \/ thread' = Left(s),
           UNCHANGED <<up, client_addr, list, crossed, wild>>
    PROVE  CalmState'
<1>1. \A d \in Device : Keeps(d)
  BY OtherKeeps
<1>2. ASSUME NEW u \in Thread
      PROVE  Still(u)
  <2>1. CASE thread' = thread
    BY <2>1 DEF Still
  <2>2. CASE thread' = Left(s)
    <3> DEFINE e == IF thread[u].dev = s THEN Null ELSE thread[u].dev
               q == [thread[u] EXCEPT !.own = Null, !.dev = e]
    <3>1. thread'[u] = q
      BY <2>2 DEF Left
    <3> HIDE DEF e
    <3>2. /\ q.pc = thread[u].pc /\ q.mac = thread[u].mac /\ q.entry = thread[u].entry
          /\ q.host = thread[u].host /\ q.range = thread[u].range
      BY ServletFacts DEF ServletType
    <3>3. QED
      BY <3>1, <3>2 DEF Still
  <2>3. QED
    BY <2>1, <2>2
<1>3. OneHello'
  BY <1>2 DEF CalmState, OneHello, Still
<1>4. \A d \in Device : dev[d].serves /\ Collected(d) => Collected(d)'
  BY <1>1, <1>2, CollectedKept
<1>5. QED
  BY <1>1, <1>2, <1>3, <1>4, CalmFrame DEF CalmState

LEMMA DeviceStepCalm ==
    ASSUME TypeInv, CalmState, Calm, Calm',
           \/ \E s \in Sta, a \in Address, created \in BOOLEAN, ap \in First :
                 StartStation(s, a, created, ap)
           \/ \E d \in Ap, a \in Address : StartAp(d, a)
           \/ \E d \in Device : Stop(d)
           \/ \E s \in Sta : Compare(s) \/ roam_change_ap(s)
    PROVE  CalmState'
<1>1. \A d \in Device : dev[d].serves => dev[d].main \in {"join", "eloop"}
  BY DEF TypeInv, DevicesOK, DeviceSound
<1>2. Sta \subseteq Device /\ Ap \subseteq Device
  BY DEF Device
<1>3. ASSUME NEW s \in Sta, NEW a \in Address, NEW created \in BOOLEAN, NEW ap \in First,
             StartStation(s, a, created, ap)
      PROVE  CalmState'
  <2>1. ~dev[s].serves /\ UNCHANGED <<thread, up, client_addr, list, crossed, wild>>
    BY <1>1, <1>2, <1>3 DEF StartStation, ghosts
  <2>2. PICK r : dev' = [dev EXCEPT ![s] = r]
    BY <1>3 DEF StartStation
  <2>3. QED
    BY <1>2, <2>1, <2>2, DeviceCalm
<1>4. ASSUME NEW s \in Ap, NEW a \in Address, StartAp(s, a)
      PROVE  CalmState'
  <2>1. ~dev[s].serves /\ UNCHANGED <<thread, up, client_addr, list, crossed, wild>>
    BY <1>1, <1>2, <1>4 DEF StartAp, ghosts
  <2>2. PICK r : dev' = [dev EXCEPT ![s] = r]
    BY <1>4 DEF StartAp
  <2>3. QED
    BY <1>2, <2>1, <2>2, DeviceCalm
<1>5. ASSUME NEW d \in Device, Stop(d)
      PROVE  CalmState'
  BY <1>5 DEF Stop, Calm
<1>6. ASSUME NEW s \in Sta, Compare(s)
      PROVE  CalmState'
  <2>1. ~dev[s].serves /\ UNCHANGED <<up, client_addr, list, crossed, wild>>
    BY <1>1, <1>2, <1>6 DEF Compare, ghosts
  <2>2. PICK r : dev' = [dev EXCEPT ![s] = r] /\ (thread' = thread \/ thread' = Left(s))
    BY <1>6, CompareCases
  <2>3. QED
    BY <1>2, <2>1, <2>2, DeviceCalm
<1>7. ASSUME NEW s \in Sta, roam_change_ap(s)
      PROVE  CalmState'
  <2>1. ~dev[s].serves /\ UNCHANGED <<thread, up, client_addr, list, crossed, wild>>
    BY <1>1, <1>2, <1>7 DEF roam_change_ap, ghosts
  <2>2. PICK ap : dev' = [dev EXCEPT ![s].main = "changed", ![s].ap = ap]
    BY <1>7 DEF roam_change_ap
  <2> DEFINE r == [dev[s] EXCEPT !.main = "changed", !.ap = ap]
  <2>3. dev' = [dev EXCEPT ![s] = r]
    BY <1>2, <2>2 DEF TypeInv, DevicesOK, DeviceType
  <2> HIDE DEF r
  <2>4. QED
    BY <1>2, <2>1, <2>3, DeviceCalm
<1>8. QED
  BY <1>3, <1>4, <1>5, <1>6, <1>7

\* A connection is accepted while no hello is handled; one servlet begins.
LEMMA AcceptedCalm ==
    ASSUME TypeInv, CalmState, Calm', NEW a \in Address, NEW t \in Thread,
           NEW r \in ServletType, ServletSound(r), thread[t].pc = "idle",
           Accepted(a, [thread EXCEPT ![t] = r]),
           r.pc = "station" \/ (r.pc = "one_intf" /\ Reaches(r.mac, a)'),
           \A d \in Device : Keeps(d),
           UNCHANGED <<up, list, crossed, wild>>
    PROVE  CalmState'
<1>1. ~shared'
  BY DEF Calm
<1>2. /\ thread'[t] = r /\ client_addr' = a
      /\ \A u \in Thread \ {t} : thread[u].pc \notin HelloPcs => thread'[u] = thread[u]
      /\ \A u \in Thread : thread[u].pc \notin HelloPcs
  BY <1>1, AcceptedFacts
<1>3. \A u \in Thread \ {t} : Still(u)
  BY <1>2 DEF Still
<1>4. CalmHello(thread[t])' /\ CalmReport(thread[t])'
  BY <1>2 DEF CalmHello, CalmReport, HelloPcs
<1>5. OneHello'
  BY <1>2 DEF OneHello
<1>6. \A d \in Device : dev[d].serves /\ Collected(d) => Collected(d)'
  BY <1>2, CollectedKept DEF HelloPcs
<1>7. QED
  BY <1>2, <1>3, <1>4, <1>5, <1>6, CalmFrame DEF CalmState

LEMMA ConnectionCalm ==
    ASSUME TypeInv, CalmState, Calm',
           \/ \E t \in Thread, d \in Device : process_msg_hello(t, d)
           \/ \E t \in Thread, d \in Device, s \in Sta, cur \in First :
                 Relay(t, d, s, cur)
           \/ \E t \in Thread, s \in Sta : Measure(t, s)
           \/ \E s \in Sta : changed_ap(s)
    PROVE  CalmState'
<1>1. \A d \in Device : dev[d] \in DeviceType /\ DeviceSound(dev[d])
  BY DEF TypeInv, DevicesOK
<1>2. Sta \subseteq Device
  BY DEF Device
<1>3. ASSUME NEW t \in Thread, NEW d \in Device, process_msg_hello(t, d)
      PROVE  CalmState'
  <2>1. /\ dev[d].serves /\ thread[t].pc = "idle"
        /\ Accepted(dev[d].addr, [thread EXCEPT ![t] = Hello(d)])
        /\ UNCHANGED <<dev, up, list, crossed, wild>>
    BY <1>3 DEF process_msg_hello, At, Hello
  <2>2. /\ dev[d].addr \in Address
        /\ Hello(d) \in ServletType /\ ServletSound(Hello(d))
        /\ Hello(d).pc = "one_intf" /\ Hello(d).mac = d
    BY <2>1, HelloFacts
  <2> DEFINE r == Hello(d)
             a == dev[d].addr
  <2>3. \A e \in Device : Keeps(e)
    BY <2>1 DEF Keeps
  <2>4. Reaches(d, dev[d].addr)'
    BY <2>1 DEF Reaches
  <2>5. /\ a \in Address /\ r \in ServletType /\ ServletSound(r) /\ r.pc = "one_intf"
        /\ Accepted(a, [thread EXCEPT ![t] = r])
        /\ Reaches(d, a) /\ r.mac = d
    BY <2>1, <2>2 DEF Reaches
  <2> HIDE DEF r, a
  <2>6. dev'[r.mac].addr = a /\ dev'[r.mac].serves
    BY <2>1, <2>5 DEF Reaches
  <2>7. QED
    BY <2>1, <2>3, <2>5, <2>6, AcceptedCalm DEF Reaches
<1>4. ASSUME NEW t \in Thread, NEW d \in Device, NEW s \in Sta, NEW cur \in First,
             Relay(t, d, s, cur)
      PROVE  CalmState'
  <2> DEFINE r == Reporting(s, cur, Null)
  <2>1. dev[d].serves /\ thread[t].pc = "idle"
        /\ Accepted(dev[d].addr, [thread EXCEPT ![t] = r])
        /\ UNCHANGED <<dev, up, list, crossed, wild>>
    BY <1>4 DEF Relay, At
  <2>2. dev[d].addr \in Address /\ cur \in Mac /\ s \in Device
    BY <2>1, HelloFacts, HandoverConstants DEF Mac, Device
  <2>3. r \in ServletType /\ ServletSound(r) /\ r.pc = "station"
    BY <2>2, ReportingFacts
  <2>4. \A e \in Device : Keeps(e)
    BY <2>1 DEF Keeps
  <2> HIDE DEF r
  <2>5. QED
    BY <2>1, <2>2, <2>3, <2>4, AcceptedCalm
<1>5. ASSUME NEW t \in Thread, NEW s \in Sta, Measure(t, s)
      PROVE  CalmState'
  <2>1. PICK cur \in Link(s) :
           /\ dev' = [dev EXCEPT ![s].main = "wait", ![s].cur = cur]
           /\ Accepted(dev[s].addr, [thread EXCEPT ![t] = Reporting(s, cur, s)])
    BY <1>5 DEF Measure
  <2> DEFINE r == Reporting(s, cur, s)
  <2>2. thread[t].pc = "idle" /\ dev[s].main = "measure"
        /\ UNCHANGED <<up, list, crossed, wild>>
    BY <1>5 DEF Measure, At
  <2>3. dev[s].addr \in Address /\ cur \in Mac
    <3>1. dev[s].ap \in Mac
      BY <1>1, <1>2 DEF DeviceType
    <3>2. QED
      BY <1>1, <1>2, <2>2, <3>1 DEF DeviceSound, Link, Mac
  <2>4. r \in ServletType /\ ServletSound(r) /\ r.pc = "station"
    BY <1>2, <2>3, ReportingFacts
  <2>5. \A d \in Device : Keeps(d)
    <3> DEFINE q == [dev[s] EXCEPT !.main = "wait", !.cur = cur]
    <3>1. dev' = [dev EXCEPT ![s] = q]
      BY <1>1, <1>2, <2>1 DEF DeviceType, TypeInv, DevicesOK
    <3>2. ~dev[s].serves /\ s \in Device
      BY <1>1, <1>2, <2>2 DEF DeviceSound
    <3> HIDE DEF q
    <3>3. QED
      BY <3>1, <3>2, OtherKeeps
  <2> HIDE DEF r
  <2>6. QED
    BY <2>1, <2>2, <2>3, <2>4, <2>5, AcceptedCalm DEF r
<1>6. ASSUME NEW s \in Sta, changed_ap(s)
      PROVE  CalmState'
  <2>1. /\ dev[s].main = "changed" /\ dev' = [dev EXCEPT ![s] = Watching(dev[s])]
        /\ UNCHANGED <<up, list, crossed, wild>>
    BY <1>6 DEF changed_ap
  <2>2. dev[s].addr \in Address /\ ~dev[s].serves /\ s \in Device
    BY <1>1, <1>2, <2>1 DEF DeviceSound
  <2>3. CASE ~up
    <3>1. thread' = thread /\ client_addr' = client_addr
      BY <1>6, <2>3 DEF changed_ap
    <3>2. QED
      BY <2>1, <2>2, <3>1, DeviceCalm
  <2>4. CASE up
    <3>1. Accepted(dev[s].addr, thread) /\ ~shared'
      BY <1>6, <2>4 DEF changed_ap, Calm
    <3>2. /\ \A u \in Thread : thread[u].pc \notin HelloPcs => thread'[u] = thread[u]
          /\ \A u \in Thread : thread[u].pc \notin HelloPcs
      BY <2>2, <3>1, AcceptedQuietly
    <3>3. \A d \in Device : Keeps(d)
      BY <2>1, <2>2, OtherKeeps
    <3>4. \A u \in Thread : Still(u)
      BY <3>2 DEF Still
    <3>5. OneHello'
      BY <3>2 DEF OneHello
    <3>6. \A d \in Device : dev[d].serves /\ Collected(d) => Collected(d)'
      BY <3>3, <3>4, CollectedKept
    <3>7. QED
      BY <2>1, <3>2, <3>3, <3>4, <3>5, <3>6, CalmFrame DEF CalmState
  <2>5. QED
    BY <2>3, <2>4
<1>7. QED
  BY <1>3, <1>4, <1>5, <1>6

\* A servlet goes on while the devices, the name and the lists stay.
LEMMA ServletCalm ==
    ASSUME TypeInv, CalmState, NEW t \in Thread,
           \A u \in Thread : u # t => thread'[u] = thread[u],
           thread'[t].pc \in HelloPcs => thread[t].pc \in HelloPcs,
           thread[t].pc # "set_statistics",
           CalmHello(thread[t])', CalmReport(thread[t])',
           UNCHANGED <<dev, up, client_addr, list, wild>>, ~crossed'
    PROVE  CalmState'
<1>1. \A d \in Device : Keeps(d)
  BY DEF Keeps
<1>2. \A u \in Thread : u # t => Still(u)
  BY DEF Still
<1>3. OneHello'
  BY DEF CalmState, OneHello
<1>4. \A d \in Device : dev[d].serves /\ Collected(d) => Collected(d)'
  BY <1>1, <1>2, CollectedKept
<1>5. \A u \in Thread :
         \/ CalmHello(thread[u])' /\ CalmReport(thread[u])'
         \/ /\ Still(u)
            /\ thread[u].pc \in HelloPcs => client_addr' = client_addr
  BY <1>2
<1>6. QED
  BY <1>1, <1>3, <1>4, <1>5, CalmFrame

\* What a servlet that handles a hello knows while nothing goes wrong.
LEMMA HelloCalm ==
    ASSUME TypeInv, CalmState, NEW t \in Thread, thread[t].pc \in HelloPcs
    PROVE  /\ thread[t] \in ServletType /\ thread[t].mac \in Device
           /\ client_addr \in Address /\ Reaches(thread[t].mac, client_addr)
           /\ CalmHello(thread[t])
<1>1. thread[t] \in ServletType /\ ServletSound(thread[t])
  BY ServletFacts
<1>2. thread[t].mac \in Device /\ CalmHello(thread[t])
  BY <1>1 DEF ServletSound, CalmState
<1>3. client_addr \in Address
  BY DEF TypeInv, UpOK, HelloPcs
<1>4. QED
  BY <1>1, <1>2, <1>3 DEF CalmHello

LEMMA AfterInsertCalm ==
    ASSUME NEW t \in Thread, thread[t].mac \in Device
    PROVE  /\ AfterInsert(t) \in {"set_statistics", "interfaces"}
           /\ AfterInsert(t) = "set_statistics" => thread[t].mac \in Ap
           /\ AfterInsert(t) = "interfaces" => thread[t].mac \in Sta
BY DEF AfterInsert, Device

LEMMA GetOneIntfCalm ==
    ASSUME TypeInv, EntryInv, CalmState, Calm', NEW t \in Thread, get_one_intf(t)
    PROVE  CalmState'
<1>1. PICK o \in Outcome(client_addr) :
         /\ thread' = [thread EXCEPT ![t].entry = o.dev,
                                     ![t].pc = IF o.dev = Null THEN AfterInsert(t)
                                               ELSE "find"]
         /\ faults' = o.faults
  BY DEF get_one_intf
<1>2. thread[t].pc = "one_intf" /\ UNCHANGED <<dev, up, client_addr, list, crossed, wild>>
  BY DEF get_one_intf, At, ghosts
<1>3. /\ thread[t] \in ServletType /\ thread[t].mac \in Device
      /\ client_addr \in Address /\ Reaches(thread[t].mac, client_addr)
  BY <1>2, HelloCalm DEF HelloPcs
<1>4. o.dev = thread[t].mac
  BY <1>1, <1>3, CalmOutcome
<1>5. o.dev # Null
  BY <1>3, <1>4, HandoverConstants
<1> DEFINE r == [thread[t] EXCEPT !.entry = o.dev, !.pc = "find"]
<1>6. thread' = [thread EXCEPT ![t] = r]
  BY <1>1, <1>5 DEF TypeInv, ServletsOK, ServletType
<1>7. r.pc = "find" /\ r.entry = thread[t].mac /\ r.mac = thread[t].mac
  BY <1>3, <1>4 DEF ServletType
<1> HIDE DEF r
<1>8. \A u \in Thread : thread'[u] = IF u = t THEN r ELSE thread[u]
  BY <1>6 DEF TypeInv, ServletsOK
<1>9. CalmHello(thread[t])' /\ CalmReport(thread[t])'
  BY <1>2, <1>3, <1>7, <1>8 DEF CalmHello, CalmReport, Reaches
<1>10. ~crossed'
  BY <1>2 DEF CalmState
<1>11. QED
  BY <1>2, <1>8, <1>9, <1>10, ServletCalm DEF HelloPcs

LEMMA InsertFindCalm ==
    ASSUME TypeInv, CalmState, NEW t \in Thread, insert_find(t)
    PROVE  CalmState'
<1> DEFINE new == find_device(thread[t].entry, list[ListOf(t)]) = {}
           pc == IF new THEN "link" ELSE AfterInsert(t)
           en == IF new THEN thread[t].entry ELSE Null
           r == [thread[t] EXCEPT !.entry = en, !.pc = pc]
<1>1. thread[t].pc = "find" /\ UNCHANGED <<dev, up, client_addr, list, wild>>
  BY DEF insert_find, At, counters
<1>2. /\ thread[t] \in ServletType /\ thread[t].mac \in Device
      /\ Reaches(thread[t].mac, client_addr) /\ CalmHello(thread[t])
  BY <1>1, HelloCalm DEF HelloPcs
<1>3. thread[t].entry = thread[t].mac
  BY <1>1, <1>2 DEF CalmHello, HelloPcs
<1>4. thread' = [thread EXCEPT ![t] = r]
  BY DEF TypeInv, ServletsOK, ServletType, insert_find
<1>5. ~crossed'
  <2>1. \A u \in Thread \ {t} : thread[u].pc \notin HelloPcs
    BY <1>1 DEF CalmState, OneHello, HelloPcs
  <2>2. \A u \in Thread \ {t} : thread[u].pc \notin {"link", "publish"}
    BY <2>1 DEF HelloPcs
  <2>3. QED
    BY <2>2 DEF insert_find, CalmState
<1>6. /\ pc \in {"link", "set_statistics", "interfaces"}
      /\ pc = "link" => en = thread[t].mac
      /\ pc = "set_statistics" => thread[t].mac \in Ap
      /\ pc = "interfaces" => thread[t].mac \in Sta
  BY <1>2, <1>3, AfterInsertCalm
<1> HIDE DEF pc, en
<1>7. r.mac = thread[t].mac /\ r.entry = en /\ r.pc = pc
  BY <1>2 DEF ServletType
<1> HIDE DEF r
<1>8. \A u \in Thread : thread'[u] = IF u = t THEN r ELSE thread[u]
  BY <1>4 DEF TypeInv, ServletsOK
<1>9. CalmHello(thread[t])' /\ CalmReport(thread[t])'
  BY <1>1, <1>2, <1>6, <1>7, <1>8 DEF CalmHello, CalmReport, Reaches
<1>10. QED
  BY <1>1, <1>5, <1>8, <1>9, ServletCalm DEF HelloPcs

LEMMA InsertLinkCalm ==
    ASSUME TypeInv, CalmState, NEW t \in Thread, insert_link(t)
    PROVE  CalmState'
<1> DEFINE r == Linked(t)
<1>1. /\ \A u \in Thread : thread'[u] = IF u = t THEN r ELSE thread[u]
      /\ r.entry = [mac |-> thread[t].entry, host |-> client_addr, of |-> Undisturbed(t)]
      /\ r.pc = "publish" /\ r.mac = thread[t].mac
  BY LinkedFacts
<1>2. thread[t].pc = "link" /\ UNCHANGED <<dev, up, client_addr, list, crossed, wild>>
  BY DEF insert_link, At, ghosts, counters
<1>3. Reaches(thread[t].mac, client_addr) /\ CalmHello(thread[t])
  BY <1>2, HelloCalm DEF HelloPcs
<1>4. r.entry.mac = thread[t].mac /\ r.entry.host = client_addr
  BY <1>1, <1>2, <1>3 DEF CalmHello, HelloPcs
<1> HIDE DEF r
<1>5. CalmHello(thread[t])' /\ CalmReport(thread[t])'
  BY <1>1, <1>2, <1>3, <1>4 DEF CalmHello, CalmReport, Reaches
<1>6. ~crossed'
  BY <1>2 DEF CalmState
<1>7. QED
  BY <1>1, <1>2, <1>5, <1>6, ServletCalm DEF HelloPcs

LEMMA InsertPublishCalm ==
    ASSUME TypeInv, ListInv, CalmState, NEW t \in Thread, insert_publish(t)
    PROVE  CalmState'
<1> DEFINE k == ListOf(t)
           e == thread[t].entry
           l == thread[t].seen
           m == thread[t].mac
<1>1. thread[t].pc = "publish" /\ UNCHANGED <<dev, up, client_addr, crossed, wild>>
  BY DEF insert_publish, At, counters
<1>2. /\ m \in Device /\ Reaches(m, client_addr) /\ CalmHello(thread[t])
  BY <1>1, HelloCalm DEF HelloPcs
<1>3. /\ \A u \in Thread : u # t => thread'[u] = thread[u]
      /\ thread'[t].pc = AfterInsert(t)
      /\ thread'[t].mac = m
      /\ k \in {"ap", "sta"}
      /\ \A j \in {"ap", "sta"} : j # k => list'[j] = list[j]
  BY PublishFacts
<1>4. /\ DOMAIN list'[k] = 1..(Len(l) + 1)
      /\ Len(l) \in Nat
      /\ l \in Seq(Entry)
      /\ \A i \in DOMAIN list'[k] : list'[k][i] = IF i = 1 THEN e ELSE l[i - 1]
  BY PublishFacts, Zenon
<1>5. l = list[k] /\ ~crossed
  BY <1>1 DEF CalmState, ListInv
<1>6. e.mac = m /\ e.host = client_addr
  BY <1>1, <1>2 DEF CalmHello, HelloPcs
<1>7. k = Kind(m)
  BY DEF ListOf
<1>8. /\ AfterInsert(t) \in {"set_statistics", "interfaces"}
      /\ AfterInsert(t) = "set_statistics" => m \in Ap
      /\ AfterInsert(t) = "interfaces" => m \in Sta
      /\ m \in Ap => AfterInsert(t) = "set_statistics"
  BY <1>2, AfterInsertCalm DEF AfterInsert
<1> HIDE DEF k, e, l, m
<1>9. \A d \in Device : Keeps(d)
  BY <1>1 DEF Keeps
<1>10. \A d \in Device : dev[d].serves /\ Collected(d) => Collected(d)'
  <2>1. \A u \in Thread : thread[u].pc = "set_statistics" => Still(u)
    BY <1>1, <1>3 DEF Still
  <2>2. QED
    BY <1>9, <2>1, CollectedKept
<1>11. \A u \in Thread : CalmHello(thread[u])' /\ CalmReport(thread[u])'
  <2>1. CalmHello(thread[t])' /\ CalmReport(thread[t])'
    BY <1>1, <1>2, <1>3, <1>8 DEF CalmHello, CalmReport, Reaches
  <2>2. \A u \in Thread : u # t => Still(u)
    BY <1>3 DEF Still
  <2>3. QED
    BY <1>1, <1>9, <1>10, <2>1, <2>2, ServletsCalm
<1>12. OneHello'
  BY <1>1, <1>3 DEF CalmState, OneHello, HelloPcs
<1>13. \A j \in {"ap", "sta"} : \A i \in DOMAIN list'[j] :
          \/ j = k /\ list'[j][i] = e
          \/ \E h \in DOMAIN list[j] : list'[j][i] = list[j][h]
  <2>1. DOMAIN l = 1..Len(l)
    BY <1>4, LenProperties
  <2>2. ASSUME NEW i \in DOMAIN list'[k]
        PROVE  list'[k][i] = e \/ (i - 1 \in DOMAIN l /\ list'[k][i] = l[i - 1])
    BY <1>4, <2>1
  <2>3. QED
    BY <1>3, <1>5, <2>2
<1>14. \A j \in {"ap", "sta"} : \A i \in DOMAIN list'[j] :
          Reaches(list[j][i].mac, list[j][i].host)' /\ Kind(list'[j][i].mac) = j
  <2>1. ASSUME NEW j \in {"ap", "sta"}, NEW h \in DOMAIN list[j]
        PROVE  dev'[list[j][h].mac].addr = list[j][h].host /\ dev'[list[j][h].mac].serves
               /\ Kind(list[j][h].mac) = j
    BY <1>1 DEF CalmState, Reaches
  <2>2. dev'[e.mac].addr = e.host /\ dev'[e.mac].serves /\ Kind(e.mac) = k
    BY <1>1, <1>2, <1>6, <1>7 DEF Reaches
  <2>3. QED
    BY <1>13, <2>1, <2>2 DEF Reaches
<1>15. ASSUME up', NEW i \in DOMAIN list'["ap"]
       PROVE  Collected(list["ap"][i].mac)'
  <2>1. CASE k = "ap" /\ list'["ap"][i] = e
    <3>1. m \in Ap
      BY <1>7, <2>1 DEF Kind
    <3>2. thread'[t].pc = "set_statistics" /\ thread'[t].mac = list'["ap"][i].mac
      BY <1>3, <1>6, <1>8, <2>1, <3>1
    <3>3. QED
      BY <3>2 DEF Collected
  <2>2. ASSUME NEW h \in DOMAIN list["ap"], list'["ap"][i] = list["ap"][h]
        PROVE  Collected(list["ap"][i].mac)'
    <3>1. list["ap"][h] \in Entry /\ Reaches(list["ap"][h].mac, list["ap"][h].host)
          /\ Collected(list["ap"][h].mac)
      BY <1>1, <1>15, <2>2 DEF TypeInv, ListOK, CalmState
    <3>2. list["ap"][h].mac \in Device /\ dev[list["ap"][h].mac].serves
      BY <3>1 DEF Entry, Reaches
    <3>3. QED
      BY <1>10, <2>2, <3>1, <3>2
  <2>3. QED
    BY <1>13, <2>1, <2>2
<1>16. QED
  BY <1>1, <1>11, <1>12, <1>14, <1>15 DEF CalmState, Kind

LEMMA GetInterfacesCalm ==
    ASSUME TypeInv, EntryInv, CalmState, Calm', NEW t \in Thread, get_interfaces(t)
    PROVE  CalmState'
<1>1. PICK o \in Outcome(client_addr) :
         /\ faults' = o.faults
         /\ IF o.dev = Null
            THEN Crash("interfaces")
            ELSE Goto(t, "set_snr") /\ UNCHANGED <<dev, up, wild>>
  BY DEF get_interfaces
<1>2. thread[t].pc = "interfaces" /\ UNCHANGED <<client_addr, list, crossed>>
  BY DEF get_interfaces, At, ghosts
<1>3. /\ thread[t] \in ServletType /\ thread[t].mac \in Device /\ CalmHello(thread[t])
      /\ client_addr \in Address /\ Reaches(thread[t].mac, client_addr)
  BY <1>2, HelloCalm DEF HelloPcs
<1>4. o.dev = thread[t].mac
  BY <1>1, <1>3, CalmOutcome
<1>5. Goto(t, "set_snr") /\ UNCHANGED <<dev, up, wild>>
  BY <1>1, <1>3, <1>4, HandoverConstants
<1> DEFINE r == [thread[t] EXCEPT !.pc = "set_snr"]
<1>6. thread' = [thread EXCEPT ![t] = r]
  BY <1>5 DEF Goto, TypeInv, ServletsOK, ServletType
<1>7. r.pc = "set_snr" /\ r.mac = thread[t].mac
  BY <1>3 DEF ServletType
<1> HIDE DEF r
<1>8. \A u \in Thread : thread'[u] = IF u = t THEN r ELSE thread[u]
  BY <1>6 DEF TypeInv, ServletsOK
<1>9. thread[t].mac \in Sta
  BY <1>2, <1>3 DEF CalmHello, HelloPcs
<1>10. CalmHello(thread[t])' /\ CalmReport(thread[t])'
  BY <1>2, <1>3, <1>5, <1>7, <1>8, <1>9 DEF CalmHello, CalmReport, Reaches
<1>11. ~crossed'
  BY <1>2 DEF CalmState
<1>12. QED
  BY <1>2, <1>5, <1>8, <1>10, <1>11, ServletCalm DEF HelloPcs

\* A servlet has answered.
LEMMA AnsweredCalm ==
    ASSUME TypeInv, CalmState, NEW t \in Thread, Answered(t),
           \A d \in Device : Keeps(d),
           \/ thread[t].pc # "set_statistics"
           \/ thread[t].mac \in Device => dev'[thread[t].mac].collects,
           UNCHANGED <<up, client_addr, list, crossed, wild>>
    PROVE  CalmState'
<1>1. \A u \in Thread : thread'[u] = IF u = t THEN Idle ELSE thread[u]
  BY DEF Answered, TypeInv, ServletsOK
<1>2. thread'[t].pc = "idle"
  BY <1>1, IdleFacts
<1>3. CalmHello(thread[t])' /\ CalmReport(thread[t])'
  BY <1>2 DEF CalmHello, CalmReport, HelloPcs
<1>4. \A u \in Thread : u # t => Still(u)
  BY <1>1 DEF Still
<1>5. OneHello'
  BY <1>1, <1>2 DEF CalmState, OneHello, HelloPcs
<1>6. \A d \in Device : dev[d].serves /\ Collected(d) => Collected(d)'
  BY <1>4 DEF Collected, Keeps, Still
<1>7. \A u \in Thread :
         \/ CalmHello(thread[u])' /\ CalmReport(thread[u])'
         \/ /\ Still(u)
            /\ thread[u].pc \in HelloPcs => client_addr' = client_addr
  BY <1>3, <1>4
<1>8. QED
  BY <1>5, <1>6, <1>7, CalmFrame DEF CalmState

LEMMA SetSnrCalm ==
    ASSUME TypeInv, CalmState, NEW t \in Thread, set_snr(t)
    PROVE  CalmState'
<1>1. PICK o \in Outcome(client_addr) :
         dev' = [d \in Device |-> IF d = o.dev THEN [dev[d] EXCEPT !.snr = "set"]
                                  ELSE dev[d]]
  BY DEF set_snr
<1>2. ASSUME NEW d \in Device
      PROVE  Keeps(d)
  <2> DEFINE r == [dev[d] EXCEPT !.snr = "set"]
  <2>1. dev'[d] = IF d = o.dev THEN r ELSE dev[d]
    BY <1>1
  <2>2. r.serves = dev[d].serves /\ r.addr = dev[d].addr /\ r.collects = dev[d].collects
    BY DEF TypeInv, DevicesOK, DeviceType
  <2>3. QED
    BY <2>1, <2>2 DEF Keeps
<1>3. QED
  BY <1>2, AnsweredCalm DEF set_snr, At, ghosts

LEMMA SetStatisticsCalm ==
    ASSUME TypeInv, EntryInv, CalmState, Calm', NEW t \in Thread, set_statistics(t)
    PROVE  CalmState'
<1>1. PICK o \in Outcome(client_addr) :
         /\ faults' = o.faults
         /\ dev' = [d \in Device |-> [dev[d] EXCEPT !.collects = Collects(d, o)]]
  BY DEF set_statistics
<1>2. /\ thread[t].pc = "set_statistics" /\ Answered(t)
      /\ UNCHANGED <<up, client_addr, list, crossed, wild>>
  BY DEF set_statistics, At, ghosts
<1>3. /\ thread[t].mac \in Device /\ CalmHello(thread[t])
      /\ client_addr \in Address /\ Reaches(thread[t].mac, client_addr)
  BY <1>2, HelloCalm DEF HelloPcs
<1>4. o.dev = thread[t].mac /\ thread[t].mac \in Ap
  BY <1>1, <1>2, <1>3, CalmOutcome DEF CalmHello, HelloPcs
<1>5. ASSUME NEW d \in Device
      PROVE  /\ dev'[d].collects = Collects(d, o)
             /\ dev'[d].serves = dev[d].serves /\ dev'[d].addr = dev[d].addr
  <2> DEFINE c == Collects(d, o)
             r == [dev[d] EXCEPT !.collects = c]
  <2>1. dev'[d] = r
    BY <1>1
  <2> HIDE DEF c
  <2>2. r.serves = dev[d].serves /\ r.addr = dev[d].addr /\ r.collects = c
    BY DEF TypeInv, DevicesOK, DeviceType
  <2>3. QED
    BY <2>1, <2>2 DEF c
<1>6. \A d \in Device : Keeps(d)
  BY <1>5 DEF Keeps, Collects
<1>7. dev'[thread[t].mac].collects
  BY <1>3, <1>4, <1>5 DEF Collects
<1>8. QED
  BY <1>2, <1>6, <1>7, AnsweredCalm

LEMMA ReplyCalm ==
    ASSUME TypeInv, CalmState, NEW t \in Thread, reply(t)
    PROVE  CalmState'
<1>1. thread[t].pc = "reply" /\ Answered(t)
      /\ UNCHANGED <<up, client_addr, list, crossed, wild>>
  BY DEF reply, At, ghosts
<1>2. ASSUME NEW d \in Device
      PROVE  Keeps(d)
  <2> DEFINE r == [dev[d] EXCEPT !.main = "answer", !.answer = thread[t].answer]
  <2>1. dev'[d] = IF d = thread[t].dev THEN r ELSE dev[d]
    BY DEF reply
  <2>2. d = thread[t].dev => dev[d].main = "wait"
    BY <1>1, HandoverConstants DEF TypeInv, WaitOK, ReportPcs
  <2>3. d = thread[t].dev => ~dev[d].serves
    BY <2>2 DEF TypeInv, DevicesOK, DeviceSound
  <2>4. QED
    BY <2>1, <2>3 DEF Keeps
<1>3. QED
  BY <1>1, <1>2, AnsweredCalm

\* A report goes on as r.
LEMMA ReportCalm ==
    ASSUME TypeInv, CalmState, NEW t \in Thread, NEW r,
           thread' = [thread EXCEPT ![t] = r], thread[t].pc \in ReportPcs,
           r.pc \in {"scan", "traffic", "choose", "reply"}, CalmReport(r),
           UNCHANGED <<dev, up, client_addr, list, crossed, wild>>
    PROVE  CalmState'
<1>1. \A u \in Thread : thread'[u] = IF u = t THEN r ELSE thread[u]
  BY DEF TypeInv, ServletsOK
<1>2. \A u \in Thread : u # t => Still(u)
  BY <1>1 DEF Still
<1>3. \A d \in Device : Keeps(d)
  BY DEF Keeps
<1>4. thread[t].pc \notin HelloPcs /\ r.pc \notin HelloPcs
  BY DEF ReportPcs, HelloPcs
<1>5. \A d : Collected(d) => Collected(d)'
  BY <1>1, <1>4 DEF Collected, HelloPcs
<1>6. CalmHello(thread[t])'
  BY <1>1, <1>4 DEF CalmHello
<1>7. \A d, a : Reaches(d, a) => Reaches(d, a)'
  BY DEF Reaches
<1>8. CalmReport(thread[t])'
  BY <1>1, <1>5, <1>7 DEF CalmReport
<1>9. ~crossed'
  BY DEF CalmState
<1>10. QED
  BY <1>1, <1>4, <1>6, <1>8, <1>9, ServletCalm DEF HelloPcs

LEMMA FindStationCalm ==
    ASSUME TypeInv, CalmState, NEW t \in Thread, find_station(t)
    PROVE  CalmState'
<1> DEFINE found == find_device(thread[t].mac, list["sta"])
<1>1. thread[t].pc = "station" /\ UNCHANGED <<dev, up, client_addr, list, crossed, wild>>
  BY DEF find_station, At, ghosts
<1>2. thread[t] \in ServletType /\ thread \in [Thread -> ServletType]
  BY DEF TypeInv, ServletsOK
<1>3. \/ Goto(t, "reply")
      \/ \E e \in found : thread' = [thread EXCEPT ![t].host = e.host, ![t].pc = "scan"]
  BY DEF find_station
<1>4. CASE Goto(t, "reply")
  <2> DEFINE r == [thread[t] EXCEPT !.pc = "reply"]
  <2>1. thread' = [thread EXCEPT ![t] = r] /\ r.pc = "reply"
    BY <1>2, <1>4 DEF Goto, ServletType
  <2> HIDE DEF r
  <2>2. CalmReport(r)
    BY <2>1 DEF CalmReport
  <2>3. QED
    BY <1>1, <2>1, <2>2, ReportCalm DEF ReportPcs
<1>5. ASSUME NEW e \in found,
             thread' = [thread EXCEPT ![t].host = e.host, ![t].pc = "scan"]
      PROVE  CalmState'
  <2> DEFINE a == e.host
             r == [thread[t] EXCEPT !.host = a, !.pc = "scan"]
  <2>1. thread' = [thread EXCEPT ![t] = r]
    BY <1>2, <1>5 DEF ServletType
  <2>2. list["sta"] \in Seq(Entry)
    BY DEF TypeInv, ListOK
  <2>3. PICK i \in DOMAIN list["sta"] : e = list["sta"][i]
    BY <2>2, FoundDevice
  <2>4. Reaches(e.mac, a) /\ e \in Entry
    BY <2>2, <2>3 DEF CalmState
  <2>5. \E d \in Device : Reaches(d, a)
    BY <2>4 DEF Entry
  <2> HIDE DEF a
  <2>6. r.pc = "scan" /\ r.host = a
    BY <1>2 DEF ServletType
  <2> HIDE DEF r
  <2>7. CalmReport(r)
    BY <2>5, <2>6 DEF CalmReport
  <2>8. QED
    BY <1>1, <2>1, <2>6, <2>7, ReportCalm DEF ReportPcs
<1>6. QED
  BY <1>3, <1>4, <1>5

LEMMA GetApInRangeCalm ==
    ASSUME TypeInv, EntryInv, CalmState, Calm', NEW t \in Thread, get_ap_in_range(t)
    PROVE  CalmState'
<1> DEFINE h == thread[t]
<1>1. h.pc = "scan" /\ up /\ UNCHANGED <<client_addr, list, crossed>>
  BY DEF get_ap_in_range, At, ghosts
<1>2. PICK o \in Outcome(h.host) :
         /\ faults' = o.faults
         /\ \/ o.dev = Null /\ Crash("scan")
            \/ Crash("current")
            \/ \E aps \in Scan :
                  /\ thread' = [thread EXCEPT ![t] = Scanned(h, aps)]
                  /\ UNCHANGED <<dev, up, wild>>
  BY GetApInRangeCases
<1>3. h \in ServletType
  BY ServletFacts
<1>4. o.dev # Null
  <2>1. PICK d \in Device : Reaches(d, h.host)
    BY <1>1 DEF CalmState, CalmReport
  <2>2. Serving(h.host) # {} /\ CountersOK
    BY <2>1 DEF Serving, Reaches, TypeInv
  <2>3. QED
    BY <1>2, <2>2, OutcomeFacts DEF Calm
<1>5. CASE Crash("current")
  BY <1>1, <1>5, CrashCalm
<1>6. ASSUME NEW aps \in Scan, thread' = [thread EXCEPT ![t] = Scanned(h, aps)],
             UNCHANGED <<dev, up, wild>>
      PROVE  CalmState'
  <2> DEFINE r == Scanned(h, aps)
  <2>1. /\ r.range \in Seq(Candidates(aps, h.cur))
        /\ r.pc = IF r.range = <<>> THEN "reply" ELSE "traffic"
    BY <1>3, ScannedFacts DEF TypeInv
  <2> HIDE DEF r
  <2>2. ASSUME NEW i \in DOMAIN r.range
        PROVE  /\ Reaches(r.range[i].mac, r.range[i].host)
               /\ Collected(r.range[i].mac) /\ r.range[i].traffic # -1
    <3>1. r.range[i] \in Candidates(aps, h.cur)
      BY <2>1, ElementOfSeq, LenProperties
    <3>2. PICK j \in DOMAIN aps :
             /\ r.range[i].mac = aps[j].mac
             /\ \E e \in find_device(aps[j].mac, list["ap"]) : r.range[i].host = e.host
      BY <3>1 DEF Candidates
    <3>3. PICK e \in find_device(aps[j].mac, list["ap"]) : r.range[i].host = e.host
      BY <3>2
    <3>4. list["ap"] \in Seq(Entry)
      BY DEF TypeInv, ListOK
    <3>5. e.mac = aps[j].mac /\ \E n \in DOMAIN list["ap"] : e = list["ap"][n]
      BY <3>4, FoundDevice
    <3>6. Reaches(e.mac, e.host) /\ Collected(e.mac)
      BY <1>1, <3>5 DEF CalmState
    <3>7. r.range[i].traffic = -2
      BY <3>1 DEF Candidates
    <3>8. QED
      BY <3>2, <3>3, <3>5, <3>6, <3>7
  <2>3. CalmReport(r)
    BY <2>1, <2>2 DEF CalmReport
  <2>4. QED
    BY <1>1, <1>6, <2>1, <2>3, ReportCalm DEF ReportPcs, r
<1>7. QED
  BY <1>2, <1>4, <1>5, <1>6

\* The next AP to ask is one of those that are yet to be asked.
LEMMA AskedFacts ==
    ASSUME NEW h \in ServletType, Pending(h) # {}
    PROVE  Asked(h) \in Pending(h)
<1>1. h.range \in Seq(ApInRange)
  BY DEF ServletType
<1>2. Pending(h) \subseteq Nat
  BY <1>1, LenProperties DEF Pending
<1>3. \E j \in Pending(h) : \A k \in Pending(h) : j <= k
  BY <1>2, LeastNumber
<1>4. QED
  BY <1>3 DEF Asked

LEMMA GetTrafficCalm ==
    ASSUME TypeInv, EntryInv, ReportInv, CalmState, Calm', NEW t \in Thread, get_traffic(t)
    PROVE  CalmState'
<1> DEFINE h == thread[t]
           x == h.range[Asked(h)]
<1>1. h.pc = "traffic" /\ UNCHANGED <<client_addr, list, crossed>>
  BY DEF get_traffic, At, ghosts
<1>2. h \in ServletType /\ CalmReport(h) /\ Pending(h) # {}
  BY <1>1, ServletFacts DEF CalmState, ReportInv, ReportSound
<1>3. Asked(h) \in Pending(h) /\ Asked(h) \in DOMAIN h.range
  BY <1>2, AskedFacts DEF Pending
<1>4. x \in ApInRange
  <2>1. h.range \in Seq(ApInRange)
    BY <1>2 DEF ServletType
  <2>2. QED
    BY <1>3, <2>1
<1>5. x.mac \in Device /\ x.mac # Null /\ x.host \in Address
  BY <1>4, HandoverConstants DEF ApInRange, Device
<1>6. Reaches(x.mac, x.host) /\ Collected(x.mac)
  BY <1>1, <1>2, <1>3 DEF CalmReport
<1>7. CASE Crash("uninitialized")
  BY <1>1, <1>7, CrashCalm
<1>8. ASSUME NEW o \in Outcome(x.host), faults' = o.faults
      PROVE  o.dev = x.mac
  BY <1>5, <1>6, <1>8, CalmOutcome
<1>9. CASE \E o \in Outcome(x.host) :
             /\ faults' = o.faults /\ o.dev # Null /\ ~dev[o.dev].collects
             /\ Crash(IF \E u \in Thread : thread[u].pc = "set_statistics"
                      THEN "early" ELSE "statistics")
  <2>1. ~dev[x.mac].collects
    BY <1>8, <1>9
  <2>2. \E u \in Thread : thread[u].pc = "set_statistics"
    BY <1>6, <2>1 DEF Collected
  <2>3. Crash("early")
    BY <1>9, <2>2
  <2>4. QED
    BY <1>1, <2>3, CrashCalm
<1>10. ASSUME NEW v \in Traffic, thread' = [thread EXCEPT ![t] = Priced(h, v)],
              UNCHANGED <<dev, up, wild>>
       PROVE  CalmState'
  <2> DEFINE r == Priced(h, v)
  <2>1. v \in {-1} \cup Traffic /\ v # -1
    BY HandoverConstants
  <2>2. /\ r.pc \in {"traffic", "choose"} /\ DOMAIN r.range = DOMAIN h.range
        /\ \A i \in DOMAIN h.range :
              r.range[i] = IF i = Asked(h) THEN [h.range[i] EXCEPT !.traffic = v]
                           ELSE h.range[i]
        /\ r \in ServletType
    BY <1>1, <1>2, <2>1, PricedFacts
  <2> HIDE DEF r
  <2>3. \A i \in DOMAIN h.range : h.range[i] \in ApInRange
    <3>1. h.range \in Seq(ApInRange)
      BY <1>2 DEF ServletType
    <3>2. QED
      BY <3>1
  <2>4. \A i \in DOMAIN h.range :
           /\ r.range[i].mac = h.range[i].mac /\ r.range[i].host = h.range[i].host
           /\ r.range[i].traffic = IF i = Asked(h) THEN v ELSE h.range[i].traffic
    BY <2>2, <2>3 DEF ApInRange
  <2>5. r.range # <<>>
    <3>1. r.range \in Seq(ApInRange)
      BY <2>2 DEF ServletType
    <3>2. Asked(h) \in DOMAIN r.range
      BY <1>3, <2>2
    <3>3. QED
      BY <3>2
  <2>6. CalmReport(r)
    BY <1>1, <1>2, <2>1, <2>2, <2>4, <2>5 DEF CalmReport
  <2>7. QED
    BY <1>1, <1>10, <2>2, <2>6, ReportCalm DEF ReportPcs, r
<1>11. \/ Crash("uninitialized")
       \/ \E o \in Outcome(x.host) :
            /\ faults' = o.faults
            /\ \/ o.dev = Null
               \/ /\ \E v \in Traffic : thread' = [thread EXCEPT ![t] = Priced(h, v)]
                  /\ UNCHANGED <<dev, up, wild>>
               \/ /\ o.dev # Null /\ ~dev[o.dev].collects
                  /\ Crash(IF \E u \in Thread : thread[u].pc = "set_statistics"
                           THEN "early" ELSE "statistics")
  BY GetTrafficCases
<1>12. QED
  BY <1>5, <1>7, <1>8, <1>9, <1>10, <1>11

\* Of candidates that have all answered there is one with the least traffic.
LEMMA LeastExists ==
    ASSUME NEW r \in Seq(ApInRange), r # <<>>,
           \A i \in DOMAIN r : r[i].traffic \in Nat
    PROVE  Least(r) # {}
<1>1. DOMAIN r = 1..Len(r) /\ Len(r) \in Nat
  BY LenProperties
<1>2. 1 \in DOMAIN r
  BY EmptySeq, LenProperties
<1> DEFINE V == {r[i].traffic : i \in DOMAIN r}
<1>3. V \subseteq Nat /\ V # {}
  BY <1>2
<1>4. PICK v \in V : \A w \in V : v <= w
  BY <1>3, LeastNumber
<1> DEFINE I == {i \in DOMAIN r : r[i].traffic = v}
<1>5. I \subseteq Nat /\ I # {}
  BY <1>1, <1>4
<1>6. PICK i \in I : \A j \in I : i <= j
  BY <1>5, LeastNumber
<1>7. \A j \in DOMAIN r : r[i].traffic <= r[j].traffic
                          /\ (r[i].traffic = r[j].traffic => i <= j)
  BY <1>4, <1>6
<1>8. r[i].traffic # -1
  BY <1>6
<1>9. i \in Least(r)
  BY <1>6, <1>7, <1>8 DEF Least
<1>10. QED
  BY <1>9

LEMMA ChooseApCalm ==
    ASSUME TypeInv, ReportInv, CalmState, NEW t \in Thread, choose_ap(t)
    PROVE  CalmState'
<1> DEFINE h == thread[t]
<1>1. h.pc = "choose" /\ UNCHANGED <<client_addr, list, crossed>>
  BY DEF choose_ap, At, ghosts
<1>2. h \in ServletType /\ CalmReport(h) /\ Pending(h) = {}
  BY <1>1, ServletFacts DEF CalmState, ReportInv, ReportSound
<1>3. h.range \in Seq(ApInRange) /\ h.range # <<>>
  BY <1>1, <1>2 DEF ServletType, CalmReport
<1>4. \A i \in DOMAIN h.range : h.range[i].traffic \in Nat
  <2>1. \A i \in DOMAIN h.range : h.range[i] \in ApInRange
    BY <1>3
  <2>2. \A i \in DOMAIN h.range : h.range[i].traffic # -1 /\ h.range[i].traffic # -2
    BY <1>1, <1>2 DEF CalmReport, Pending
  <2>3. QED
    BY <2>1, <2>2, HandoverConstants DEF ApInRange
<1>5. Least(h.range) # {}
  BY <1>3, <1>4, LeastExists
<1>6. PICK i \in Least(h.range) :
         thread' = [thread EXCEPT ![t].answer = h.range[i].mac, ![t].pc = "reply"]
  BY <1>5 DEF choose_ap
<1>7. UNCHANGED <<dev, up, wild>>
  BY <1>5 DEF choose_ap
<1> DEFINE m == h.range[i].mac
           r == [h EXCEPT !.answer = m, !.pc = "reply"]
<1>8. thread' = [thread EXCEPT ![t] = r]
  BY <1>6 DEF TypeInv, ServletsOK, ServletType
<1> HIDE DEF m
<1>9. r.pc = "reply"
  BY <1>2 DEF ServletType
<1> HIDE DEF r
<1>10. CalmReport(r)
  BY <1>9 DEF CalmReport
<1>11. QED
  BY <1>1, <1>7, <1>8, <1>9, <1>10, ReportCalm DEF ReportPcs

\* What has gone wrong stays wrong.
LEMMA ServletCalmBefore ==
    ASSUME TypeInv, NEW t \in Thread, ServletStep(t), Calm'
    PROVE  Calm
<1>1. CountersOK
  BY DEF TypeInv
<1>2. restarts' = restarts /\ shared' = shared
  BY DEF ServletStep, get_one_intf, insert_find, insert_link, insert_publish,
         get_interfaces, set_snr, set_statistics, find_station, get_ap_in_range,
         get_traffic, choose_ap, reply, ghosts, counters
<1>3. faults' = faults \/ \E a : \E o \in Outcome(a) : faults' = o.faults
  BY Zenon DEF ServletStep, get_one_intf, insert_find, insert_link, insert_publish,
         get_interfaces, set_snr, set_statistics, find_station, get_ap_in_range,
         get_traffic, choose_ap, reply, counters
<1>4. faults = 0
  <2>1. \A a : \A o \in Outcome(a) : o.faults \in faults..MaxFaults
    BY <1>1, OutcomeFacts
  <2>2. faults' = faults \/ faults' \in faults..MaxFaults
    BY <1>3, <2>1
  <2>3. faults \in Nat /\ MaxFaults \in Nat
    BY <1>1, HandoverConstants DEF CountersOK
  <2>4. QED
    BY <2>2, <2>3 DEF Calm
<1>5. QED
  BY <1>2, <1>4 DEF Calm

LEMMA CalmBefore ==
    ASSUME TypeInv, [Next]_vars, Calm'
    PROVE  Calm /\ ~ControllerStart
<1>1. restarts \in Nat
  BY HandoverConstants DEF TypeInv, CountersOK
<1>2. ASSUME NEW s \in Sta, NEW a \in Address, NEW created \in BOOLEAN, NEW ap \in First,
             StartStation(s, a, created, ap)
      PROVE  Calm
  BY <1>2 DEF StartStation, counters, ghosts, Calm
<1>3. ASSUME NEW d \in Ap, NEW a \in Address, StartAp(d, a)
      PROVE  Calm
  BY <1>3 DEF StartAp, counters, ghosts, Calm
<1>4. ASSUME NEW d \in Device, Stop(d)
      PROVE  Calm
  BY <1>1, <1>4 DEF Stop, ghosts, Calm
<1>5. ~ControllerStart
  BY <1>1 DEF ControllerStart, Calm
<1>6. \A a, ths : Accepted(a, ths) => ~shared
  BY DEF Accepted, Calm
<1>7. ASSUME NEW t \in Thread, NEW d \in Device, process_msg_hello(t, d)
      PROVE  Calm
  BY <1>6, <1>7 DEF process_msg_hello, Calm
<1>8. ASSUME NEW t \in Thread, NEW d \in Device, NEW s \in Sta, NEW cur \in First,
             Relay(t, d, s, cur)
      PROVE  Calm
  BY <1>6, <1>8 DEF Relay, Calm
<1>9. ASSUME NEW t \in Thread, NEW s \in Sta, Measure(t, s)
      PROVE  Calm
  BY <1>6, <1>9 DEF Measure, Calm
<1>10. ASSUME NEW s \in Sta, Compare(s) \/ roam_change_ap(s)
       PROVE  Calm
  BY <1>10 DEF Compare, roam_change_ap, counters, ghosts, Calm
<1>11. ASSUME NEW s \in Sta, changed_ap(s)
       PROVE  Calm
  BY <1>6, <1>11 DEF changed_ap, Calm
<1>12. CASE UNCHANGED vars
  BY <1>5, <1>12 DEF vars, Calm
<1>13. CASE Next
  BY <1>2, <1>3, <1>4, <1>5, <1>7, <1>8, <1>9, <1>10, <1>11, <1>13, ServletCalmBefore
     DEF Next
<1>14. QED
  BY <1>5, <1>12, <1>13

LEMMA InitCalm == Init => CalmInv
<1>1. SUFFICES ASSUME Init
               PROVE  CalmState
  BY DEF CalmInv
<1>2. \A t \in Thread : thread[t].pc = "idle"
  BY <1>1, IdleFacts DEF Init
<1>3. OneHello /\ \A t \in Thread : CalmHello(thread[t]) /\ CalmReport(thread[t])
  BY <1>2 DEF OneHello, CalmHello, CalmReport, HelloPcs
<1>4. \A k \in {"ap", "sta"} : DOMAIN list[k] = {}
  BY <1>1 DEF Init
<1>5. QED
  BY <1>1, <1>3, <1>4 DEF Init, CalmState

LEMMA CalmStep ==
    TypeInv /\ EntryInv /\ ListInv /\ ReportInv /\ CalmInv /\ [Next]_vars => CalmInv'
<1> SUFFICES ASSUME TypeInv, EntryInv, ListInv, ReportInv, CalmInv, [Next]_vars, Calm'
             PROVE  CalmState'
  BY DEF CalmInv
<1>1. Calm /\ CalmState /\ ~ControllerStart
  BY CalmBefore DEF CalmInv
<1>2. CASE UNCHANGED vars
  <2>1. \A u \in Thread : Still(u)
    BY <1>2 DEF vars, Still
  <2>2. \A d \in Device : Keeps(d)
    BY <1>2 DEF vars, Keeps
  <2>3. \A d \in Device : dev[d].serves /\ Collected(d) => Collected(d)'
    BY <2>1, <2>2, CollectedKept
  <2>4. OneHello'
    BY <1>1, <2>1 DEF CalmState, OneHello, Still
  <2>5. client_addr' = client_addr /\ list' = list /\ (up' => up) /\ ~crossed' /\ wild' = wild
    BY <1>1, <1>2 DEF vars, CalmState
  <2>6. QED
    BY <1>1, <2>1, <2>2, <2>3, <2>4, <2>5, CalmFrame
<1>3. ASSUME NEW t \in Thread, ServletStep(t)
      PROVE  CalmState'
  BY <1>1, <1>3, GetOneIntfCalm, InsertFindCalm, InsertLinkCalm, InsertPublishCalm,
     GetInterfacesCalm, SetSnrCalm, SetStatisticsCalm, FindStationCalm,
     GetApInRangeCalm, GetTrafficCalm, ChooseApCalm, ReplyCalm DEF ServletStep
<1>4. CASE Next
  BY <1>1, <1>3, <1>4, DeviceStepCalm, ConnectionCalm DEF Next
<1>5. QED
  BY <1>2, <1>4

\* CalmInv holds in every state of a behaviour.
THEOREM CalmHolds == Spec => []CalmInv
<1>1. Init => CalmInv
  BY InitCalm
<1>2. TypeInv /\ EntryInv /\ ListInv /\ ReportInv /\ CalmInv /\ [Next]_vars => CalmInv'
  BY CalmStep
<1>3. QED
  BY <1>1, <1>2, TypesHold, EntriesHold, ListsHold, ReportsHold, PTL DEF Spec

\* process_msg_snr_threshold_reached and configure_experiment, which use the
\* results of their exchanges without looking at them: as long as nobody was
\* restarted, no exchange failed and no connection came while a hello was
\* handled, the controller only ends by the pointer it never assigns, by a
\* report of a station on no AP, or by asking an AP that it has yet to ask
\* to collect statistics.
THEOREM NoWildAccessEver == Spec => []NoWildAccess
<1>1. TypeInv /\ CalmInv => NoWildAccess
  <2> SUFFICES ASSUME TypeInv, CalmInv, ~NoWildAccess
               PROVE  FALSE
    OBVIOUS
  <2>1. restarts \in Nat /\ faults \in Nat
    BY HandoverConstants DEF TypeInv, CountersOK
  <2>2. Calm
    BY <2>1 DEF NoWildAccess, Calm
  <2>3. QED
    BY <2>2 DEF CalmInv, CalmState, NoWildAccess
<1>2. QED
  BY <1>1, TypesHold, CalmHolds, PTL
=============================================================================
