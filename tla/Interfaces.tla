------------------------------ MODULE Interfaces ------------------------------
(***************************************************************************)
(* How the servlet threads of Ethanol reach hostapd's own data.            *)
(*                                                                         *)
(* main() of hostapd/main.c keeps the table "interfaces" (an array of      *)
(* pointers and a count).  load_ethanol publishes its address and starts   *)
(* the server thread before the interfaces are set up; from then on the    *)
(* threads read and write the table through ap/global_var.c while the      *)
(* event loop adds, removes, enables, disables and reloads interfaces and  *)
(* handles channel switches, all of it without a lock.                     *)
(*                                                                         *)
(* A channel stands for its number and its frequency.  An interface has    *)
(* one BSS.  A call of a thread is a sequence of steps: one for each       *)
(* pointer it fetches and one for each use of what it fetched.  The two    *)
(* halves of an addition and of a removal are steps of the event loop.     *)
(***************************************************************************)
EXTENDS Integers, Sequences, FiniteSets

CONSTANTS Name,        \* interfaces named in the configuration
          Started,     \* the ones on the command line, in order
          Csa,         \* the ones whose driver announces channel switches
          Named,       \* the ones the requests name
          Thread,      \* servlet threads
          Request,     \* messages the threads handle
          Channel,     \* channels of the radio
          Initial,     \* the channel in the configuration files
          Asked,       \* channels asked for; outside Channel: no frequency
                       \* that 802.11 knows
          Background,  \* values of the option -B
          MaxObject,   \* bound: struct hostapd_iface allocated
          MaxEvents    \* bound: administrative events

ASSUME InterfacesConstants ==
    /\ Started \in Seq(Name) /\ Len(Started) <= MaxObject
    /\ Csa \subseteq Name /\ Named \subseteq Name
    /\ Initial \in Channel /\ 0 \notin Channel \cup Asked
    /\ Background \subseteq BOOLEAN
    /\ MaxObject \in Nat /\ MaxEvents \in Nat

VARIABLES phase,      \* control state of main()
          next,       \* index of its loops over the interfaces
          daemonize,  \* the option -B
          slots,      \* interfaces.iface, as long as it is allocated
          count,      \* interfaces.count
          obj,        \* the structures hostapd_iface
          busy,       \* what the event loop is in the middle of
          thread,     \* the servlet threads
          toe,        \* interfaces.terminate_on_error
          events,     \* ghost: administrative events so far
          wild        \* ghost: the access that ended the process

vars == <<phase, next, daemonize, slots, count, obj, busy, thread, toe,
          events, wild>>

Getters == {"MSG_GET_CURRENTCHANNEL", "MSG_GET_FREQUENCY",
            "MSG_GET_AP_SSID", "MSG_WLAN_INFO"}

Setters == {"MSG_SET_CURRENTCHANNEL", "MSG_SET_FREQUENCY"}

\* The null pointer.
Null == 0

Object == 1..MaxObject

\* The accessors a handler calls, in its order.
Reads(op) ==
    CASE op = "MSG_GET_CURRENTCHANNEL" -> <<"channel", "frequency">>
      [] op = "MSG_GET_FREQUENCY" -> <<"frequency">>
      [] op = "MSG_GET_AP_SSID" -> <<"ssid", "channel", "frequency">>
      [] op = "MSG_WLAN_INFO" -> <<"phy", "ssid", "frequency",
                                   "secondary_ch", "mac", "vht_chwidth">>
      [] OTHER -> <<>>

\* What is read through iface->conf, and what through iface->bss.
InConf == {"name", "channel", "ssid", "vht_chwidth"}

InBss == {"mac", "switch"}

NoObject == [name |-> "none", st |-> "unused", mode |-> "none", chan |-> 0,
             freq |-> 0, csa |-> FALSE, cs |-> 0, drv |-> 0, file |-> FALSE,
             odd |-> {}]

Freed(r) == [NoObject EXCEPT !.name = r.name, !.st = "freed"]

\* An interface that has been configured from a file and not set up.
Configured(n) ==
    [NoObject EXCEPT !.name = n, !.st = "configured", !.chan = Initial,
                     !.file = TRUE]

IdleThread == [pc |-> "idle", op |-> "none", name |-> "none", arg |-> 0,
               i |-> 0, wiphy |-> -1, todo |-> <<>>, at |-> Null,
               conf |-> "none", old |-> 0, ret |-> 0, during |-> {},
               other |-> FALSE]

Alive == wild = "no" /\ phase # "exit"

\* The event loop handles one event at a time, once main() has entered it.
EventLoop == Alive /\ phase = "run" /\ busy = <<>>

Event == EventLoop /\ events < MaxEvents /\ events' = events + 1

\* Every call under way sees that k happened.
Disturb(T, k) ==
    [t \in Thread |-> IF T[t].pc = "idle" THEN T[t]
                      ELSE [T[t] EXCEPT !.during = @ \cup {k}]]

\* The configurations of the interfaces of S have been replaced and freed.
FreeConf(T, S) ==
    [t \in Thread |-> IF T[t].conf = "held" /\ T[t].at \in S
                      THEN [T[t] EXCEPT !.conf = "freed"] ELSE T[t]]

\* Some call has put a channel into the configuration for a moment.
Filling(o) == \E t \in Thread : thread[t].pc = "restore" /\ thread[t].at = o

\* A write of the channel, or of channel and frequency, of an interface; it
\* is lost if a call is about to write back the channel it saw before.
Mixed(o) == IF Filling(o) THEN {"channel"} ELSE {}

-----------------------------------------------------------------------------
(* main() *)

Init ==
    /\ phase = "setup"
    /\ next = 1
    /\ daemonize \in Background
    /\ slots = [i \in 1..Len(Started) |-> i]
    /\ count = Len(Started)
    /\ obj = [o \in Object |-> IF o <= Len(Started)
                               THEN Configured(Started[o]) ELSE NoObject]
    /\ busy = <<>>
    /\ thread = [t \in Thread |-> IdleThread]
    /\ toe = Len(Started)
    /\ events = 0
    /\ wild = "no"

\* hostapd_hw_get_freq: what the modes say of the configured channel.  Without
\* modes that is 0; what freed ones say is not known.
Frequency(r, m) == CASE m = "valid" -> {r.chan}
                     [] m = "none" -> {0}
                     [] OTHER -> {0, r.chan}

\* hostapd_setup_interface_complete_sync: the interface operates on the
\* configured channel.  Of a driver that does not describe its modes nothing is
\* asked: current_mode stays what it was.
Complete(r, o) ==
    UNION {{[r EXCEPT !.st = "up", !.mode = m, !.freq = f,
                      !.odd = (@ \ {"channel"}) \cup Mixed(o)] :
               f \in Frequency(r, m)} : m \in {r.mode, "valid"}}

\* The outcomes of driver_init and hostapd_setup_interface.  The setup may
\* wait for the list of channels, or for a scan once the mode is selected.  A
\* setup that fails ends the process during start-up; without its driver an
\* interface is as it was configured.
SetupResults(r, o) ==
    [done : {TRUE}, ok : {TRUE}, quit : {FALSE}, r : Complete(r, o)]
      \cup [done : {FALSE}, ok : {TRUE}, quit : {FALSE},
            r : {[r EXCEPT !.st = "starting", !.mode = m] :
                    m \in {r.mode, "valid"}}]
      \cup [done : {FALSE}, ok : {FALSE}, quit : {FALSE}, r : {r}]
      \cup [done : {FALSE}, ok : {FALSE}, quit : {TRUE},
            r : {[r EXCEPT !.st = "configured", !.mode = m] :
                    m \in {r.mode, "none", "valid"}}]

SetupNext ==
    /\ Alive /\ phase = "setup" /\ next <= count
    /\ \E s \in SetupResults(obj[slots[next]], slots[next]) :
          /\ obj' = [obj EXCEPT ![slots[next]] = s.r]
          /\ phase' = IF s.ok THEN "setup" ELSE "out"
          /\ next' = IF s.ok THEN next + 1 ELSE 1
          /\ toe' = IF s.done THEN toe - 1 ELSE toe
    /\ UNCHANGED <<daemonize, slots, count, busy, thread, events, wild>>

\* The same in the event loop.
Setup(r, o) ==
    \E s \in SetupResults(r, o) :
       /\ obj' = [obj EXCEPT ![o] = s.r]
       /\ toe' = IF s.done /\ toe > 0 THEN toe - 1 ELSE toe
       /\ phase' = IF s.quit /\ toe > 0 THEN "out" ELSE phase

\* hostapd_global_run: with -B the process forks, and of the threads only the
\* one that calls fork goes on in the child.
hostapd_global_run ==
    /\ Alive /\ phase = "setup" /\ next > count
    /\ phase' = "run" /\ next' = 1
    /\ thread' = IF daemonize
                 THEN [t \in Thread |-> [IdleThread EXCEPT !.pc = "lost"]]
                 ELSE thread
    /\ obj' = [o \in Object |->
                 IF daemonize /\ \E t \in Thread : thread[t].at = o
                 THEN [obj[o] EXCEPT !.odd = @ \cup {"channel", "switch"}]
                 ELSE obj[o]]
    /\ UNCHANGED <<daemonize, slots, count, busy, toe, events, wild>>

Terminate ==
    /\ Event
    /\ phase' = "out" /\ next' = 1
    /\ UNCHANGED <<daemonize, slots, count, obj, busy, thread, toe, wild>>

\* The loop after "out": the interfaces are freed one by one, the table stays.
DeinitNext ==
    /\ Alive /\ phase = "out"
    /\ IF next <= count
       THEN /\ obj' = [obj EXCEPT ![slots[next]] = Freed(@)]
            /\ next' = next + 1
            /\ thread' = Disturb(thread, "end")
            /\ UNCHANGED phase
       ELSE phase' = "exit" /\ UNCHANGED <<obj, next, thread>>
    /\ UNCHANGED <<daemonize, slots, count, busy, toe, events, wild>>

-----------------------------------------------------------------------------
(* The event loop *)

Unused == {o \in Object : obj[o].st = "unused"}

Table == {slots[i] : i \in 1..count}

\* Mutant: the array does not grow.
hostapd_iface_alloc_NoRoom(o) ==
    /\ slots' = slots
    /\ count' = count + 1

\* The array grows to count + 1 and the interface is in the table before it
\* has a configuration.
hostapd_iface_alloc(o) ==
    /\ slots' = Append(SubSeq(slots, 1, count), o)
    /\ count' = count + 1

AddBegin(n) ==
    /\ Event
    /\ \A o \in Table : obj[o].name # n
    /\ Unused # {}
    /\ LET o == CHOOSE u \in Unused : \A v \in Unused : u <= v
       IN /\ hostapd_iface_alloc(o)
          /\ obj' = [obj EXCEPT ![o] = [NoObject EXCEPT !.name = n,
                                                        !.st = "noconf"]]
          /\ busy' = <<"add", o>>
    /\ UNCHANGED <<phase, next, daemonize, thread, toe, wild>>

\* The rest of hostapd_add_iface: hostapd_data_alloc, or the label fail.
AddEnd ==
    /\ Alive /\ busy # <<>> /\ busy[1] = "add"
    /\ \/ /\ obj' = [obj EXCEPT ![busy[2]].st = "configured",
                                ![busy[2]].chan = Initial]
          /\ UNCHANGED <<slots, count>>
       \/ /\ obj' = [obj EXCEPT ![busy[2]] = Freed(@)]
          /\ count' = count - 1
          /\ slots' = [slots EXCEPT ![count] = Null]
    /\ busy' = <<>>
    /\ UNCHANGED <<phase, next, daemonize, thread, toe, events, wild>>

\* hostapd_remove_iface: hostapd_interface_deinit_free, then the loop that
\* moves the later interfaces down; the last entry is not cleared.
RemoveFree(n) ==
    /\ Event
    /\ \E i \in 1..count :
          /\ obj[slots[i]].name = n
          /\ obj' = [obj EXCEPT ![slots[i]] = Freed(@)]
          /\ busy' = <<"remove", i>>
    /\ thread' = Disturb(thread, "remove")
    /\ UNCHANGED <<phase, next, daemonize, slots, count, toe, wild>>

RemoveShift ==
    /\ Alive /\ busy # <<>> /\ busy[1] = "remove"
    /\ slots' = [i \in 1..Len(slots) |->
                   IF i \in busy[2]..(count - 1) THEN slots[i + 1]
                   ELSE slots[i]]
    /\ count' = count - 1
    /\ busy' = <<>>
    /\ thread' = Disturb(thread, "remove")
    /\ UNCHANGED <<phase, next, daemonize, obj, toe, events, wild>>

\* drv_priv is set.
HasDriver(r) == r.st \in {"starting", "failed", "up"}

hostapd_enable_iface(o) ==
    /\ Event
    /\ o \in Table /\ obj[o].st \in {"configured", "disabled"}
    /\ Setup(obj[o], o)
    /\ UNCHANGED <<next, daemonize, slots, count, busy, thread, wild>>

\* The interface loses its driver and its list of modes; current_mode still
\* points into that list.  An announced switch stays announced.
Disabled(r) ==
    [r EXCEPT !.st = "disabled", !.drv = 0,
              !.mode = IF @ = "valid" THEN "freed" ELSE @,
              !.odd = IF r.csa THEN @ \cup {"switch"} ELSE @]

hostapd_disable_iface(o) ==
    /\ Event
    /\ o \in Table /\ HasDriver(obj[o])
    /\ obj' = [obj EXCEPT ![o] = Disabled(@)]
    /\ UNCHANGED <<phase, next, daemonize, slots, count, busy, thread, toe,
                   wild>>

\* What a setup waited for arrives, or fails to.
SetupComplete(o) ==
    /\ EventLoop
    /\ o \in Table /\ obj[o].st = "starting"
    /\ \/ /\ \E r \in Complete(obj[o], o) : obj' = [obj EXCEPT ![o] = r]
          /\ toe' = IF toe > 0 THEN toe - 1 ELSE toe
          /\ UNCHANGED phase
       \/ /\ obj' = [obj EXCEPT ![o].st = "failed"]
          /\ phase' = IF toe > 0 THEN "out" ELSE phase
          /\ UNCHANGED toe
    /\ UNCHANGED <<next, daemonize, slots, count, busy, thread, events, wild>>

\* handle_reload (SIGHUP): every interface that has a file whose contents can
\* be read gets a new configuration, with the channel of the old one.
handle_reload ==
    /\ Event
    /\ \E S \in SUBSET {o \in Table : obj[o].file} :
          thread' = Disturb(FreeConf(thread, S), "reload")
    /\ UNCHANGED <<phase, next, daemonize, slots, count, obj, busy, toe, wild>>

\* hostapd_cleanup_cs_params.
CleanCs(r) == [r EXCEPT !.csa = FALSE, !.cs = 0,
                        !.odd = @ \ {"switch"}]

\* Mutant: the announcement does not end.
Switched_KeepsFlag(r, o) ==
    [r EXCEPT !.freq = r.drv, !.chan = r.drv, !.drv = 0,
              !.odd = (@ \ {"channel"}) \cup Mixed(o)]

\* The driver has switched; the announcement ends if it was for this channel.
Switched(r, o) ==
    LET q == [r EXCEPT !.freq = r.drv, !.chan = r.drv, !.drv = 0,
                       !.odd = (@ \ {"channel"}) \cup Mixed(o)]
    IN IF r.csa /\ r.cs = r.drv THEN CleanCs(q) ELSE q

\* "driver switched to bad channel!": the modes do not know it.
BadChannel(r) ==
    [r EXCEPT !.freq = r.drv, !.drv = 0, !.odd = {"channel", "switch"}]

\* Without modes every channel is bad; freed ones may say anything.
hostapd_event_ch_switch(o) ==
    /\ EventLoop
    /\ obj[o].st = "up" /\ obj[o].drv # 0
    /\ \/ /\ obj[o].mode # "none"
          /\ obj' = [obj EXCEPT ![o] = Switched(@, o)]
       \/ /\ obj[o].mode # "valid"
          /\ obj' = [obj EXCEPT ![o] = BadChannel(@)]
    /\ UNCHANGED <<phase, next, daemonize, slots, count, busy, thread, toe,
                   events, wild>>

\* hostapd_event_iface_unavailable, hostapd_switch_channel_fallback: the
\* interface restarts on the channel of the announcement.
hostapd_event_iface_unavailable(o) ==
    /\ Event
    /\ obj[o].st = "up" /\ obj[o].csa
    /\ LET r == [obj[o] EXCEPT !.freq = obj[o].cs, !.chan = obj[o].cs]
       IN Setup(Disabled(CleanCs(r)), o)
    /\ UNCHANGED <<next, daemonize, slots, count, busy, thread, wild>>

-----------------------------------------------------------------------------
(* The servlet threads *)

ServerRuns == Alive /\ \A t \in Thread : thread[t].pc # "lost"

Begin(t, op, n, c) ==
    /\ ServerRuns /\ thread[t].pc = "idle"
    /\ thread' = [thread EXCEPT ![t] =
         [IdleThread EXCEPT !.pc = "lookup", !.op = op, !.name = n, !.arg = c,
                            !.todo = Reads(op)]]
    /\ UNCHANGED <<phase, next, daemonize, slots, count, obj, busy, toe,
                   events, wild>>

ThreadAt(t, pc) == Alive /\ thread[t].pc = pc

\* What t does next; only its own record changes.
To(t, r) ==
    /\ thread' = [thread EXCEPT ![t] = r]
    /\ UNCHANGED <<phase, next, daemonize, slots, count, obj, busy, toe,
                   events, wild>>

\* An access that ends the process, or takes it nowhere known.
Crash(t, k) ==
    /\ wild' = k
    /\ thread' = [thread EXCEPT ![t].pc = "wild"]
    /\ UNCHANGED <<phase, next, daemonize, slots, count, obj, busy, toe,
                   events>>

\* ethanol_had_interfaces->iface[w].
SlotAt(w) == IF w + 1 <= Len(slots) THEN slots[w + 1] ELSE -1

\* The test at the head of every accessor.
InTable(w) == w >= 0 /\ w <= count

\* What is wrong with an access to a field of an interface.
Wild(o, field) ==
    IF o = -1 THEN "outside"
    ELSE IF o = Null THEN "null"
    ELSE IF obj[o].st = "freed" THEN "freed"
    ELSE IF field \in InConf \cup InBss /\ obj[o].st = "noconf" THEN "noconf"
    ELSE IF field = "mode" /\ obj[o].mode = "none" THEN "nomode"
    ELSE IF field = "mode" /\ obj[o].mode = "freed" THEN "mode"
    ELSE "no"

\* The same through a pointer to the configuration that was fetched before.
WildHeld(t, field) ==
    IF Wild(thread[t].at, field) # "no" THEN Wild(thread[t].at, field)
    ELSE IF thread[t].conf = "freed" THEN "conf" ELSE "no"

\* The interface found is not the one asked for.
Other(t, o) == obj[o].name # thread[t].name

\* After get_wiphy: the handler that goes on.
Handler(op) == CASE op = "MSG_SET_CURRENTCHANNEL" -> "convert"
                 [] op = "MSG_SET_FREQUENCY" -> "fill"
                 [] OTHER -> "get"

Done(t, ret) ==
    LET r == thread[t]
    IN [IdleThread EXCEPT !.pc = "done", !.op = r.op, !.arg = r.arg,
                          !.wiphy = r.wiphy, !.at = r.at, !.ret = ret]

Found(t, w) ==
    [thread[t] EXCEPT !.pc = Handler(thread[t].op), !.wiphy = w, !.i = 0,
                      !.at = Null, !.conf = "none"]

\* Mutant: i <= count.
get_wiphy_Past(t) ==
    /\ ThreadAt(t, "lookup")
    /\ LET i == thread[t].i
           o == SlotAt(i)
       IN IF i > count THEN To(t, Found(t, -1))
          ELSE IF Wild(o, "name") # "no" THEN Crash(t, Wild(o, "name"))
          ELSE To(t, [thread[t] EXCEPT !.pc = "compare", !.at = o,
                                       !.conf = "held"])

\* get_wiphy: fetch iface[i]->conf, ...
get_wiphy(t) ==
    /\ ThreadAt(t, "lookup")
    /\ LET i == thread[t].i
           o == SlotAt(i)
       IN IF i >= count THEN To(t, Found(t, -1))
          ELSE IF Wild(o, "name") # "no" THEN Crash(t, Wild(o, "name"))
          ELSE To(t, [thread[t] EXCEPT !.pc = "compare", !.at = o,
                                       !.conf = "held"])

\* Mutant: strcmp() is taken for true when the names are equal.
get_wiphy_compare_Inverted(t) ==
    /\ ThreadAt(t, "compare")
    /\ IF WildHeld(t, "name") # "no" THEN Crash(t, WildHeld(t, "name"))
       ELSE IF Other(t, thread[t].at) THEN To(t, Found(t, thread[t].i))
       ELSE To(t, [thread[t] EXCEPT !.pc = "lookup", !.at = Null,
                                    !.conf = "none", !.i = @ + 1])

\* ... compare the name in it, and go on with i + 1.
get_wiphy_compare(t) ==
    /\ ThreadAt(t, "compare")
    /\ IF WildHeld(t, "name") # "no" THEN Crash(t, WildHeld(t, "name"))
       ELSE IF ~Other(t, thread[t].at) THEN To(t, Found(t, thread[t].i))
       ELSE To(t, [thread[t] EXCEPT !.pc = "lookup", !.at = Null,
                                    !.conf = "none", !.i = @ + 1])

\* The next accessor of a handler: its test, then iface[wiphy] (and conf).
\* Outside the table it returns an error; without an SSID the handler of
\* MSG_GET_AP_SSID asks for nothing else.
Fetch(t) ==
    /\ ThreadAt(t, "get")
    /\ LET r == thread[t]
           o == SlotAt(r.wiphy)
       IN IF r.todo = <<>> THEN To(t, Done(t, 0))
          ELSE IF ~InTable(r.wiphy)
          THEN To(t, [r EXCEPT !.todo =
                        IF r.op = "MSG_GET_AP_SSID" /\ Head(@) = "ssid"
                        THEN <<>> ELSE Tail(@)])
          ELSE IF Wild(o, Head(r.todo)) # "no"
          THEN Crash(t, Wild(o, Head(r.todo)))
          ELSE To(t, [r EXCEPT !.pc = "read", !.at = o,
                        !.conf = IF Head(r.todo) \in InConf THEN "held"
                                 ELSE "none"])

\* ... and the use of what was fetched.
Read(t) ==
    /\ ThreadAt(t, "read")
    /\ LET r == thread[t]
           k == WildHeld(t, Head(r.todo))
       IN IF k # "no" THEN Crash(t, k)
          ELSE To(t, [r EXCEPT !.pc = "get", !.todo = Tail(@), !.at = Null,
                        !.conf = "none", !.other = @ \/ Other(t, r.at)])

Finish(t) ==
    /\ ThreadAt(t, "done")
    /\ To(t, IdleThread)

\* set_current_channel: convert_chan_to_freq.
set_current_channel(t) ==
    /\ ThreadAt(t, "convert")
    /\ LET w == thread[t].wiphy
           k == Wild(SlotAt(w), "mode")
       IN IF ~InTable(w) THEN To(t, Done(t, 0))
          ELSE IF k # "no" THEN Crash(t, k)
          ELSE IF thread[t].arg \notin Channel THEN To(t, Done(t, -1))
          ELSE To(t, [thread[t] EXCEPT !.pc = "fill"])

\* A step of t that also changes an interface.
Write(t, r, o, q) ==
    /\ thread' = [thread EXCEPT ![t] = r]
    /\ obj' = [obj EXCEPT ![o] = q]
    /\ UNCHANGED <<phase, next, daemonize, slots, count, busy, toe, events,
                   wild>>

\* hostapd_switch_channel refuses at once.
NoCsa(r, c) == \/ r.name \notin Csa \/ r.freq = 0 \/ r.csa
               \/ c \notin Channel

\* set_current_frequency, hostapd_switch_channel, hostapd_fill_csa_settings:
\* the new channel is put into the configuration to build the beacon ...
set_current_frequency(t) ==
    /\ ThreadAt(t, "fill")
    /\ LET r == thread[t]
           o == SlotAt(r.wiphy)
           k == Wild(o, "switch")
       IN IF ~InTable(r.wiphy) THEN To(t, Done(t, 0))
          ELSE IF k # "no" THEN Crash(t, k)
          ELSE IF NoCsa(obj[o], r.arg)
          THEN To(t, [r EXCEPT !.pc = "force", !.other = @ \/ Other(t, o)])
          ELSE IF obj[o].mode = "freed" THEN Crash(t, "mode")
          ELSE Write(t, [r EXCEPT !.pc = "restore", !.at = o,
                                  !.old = obj[o].chan,
                                  !.other = @ \/ Other(t, o)],
                     o, [obj[o] EXCEPT !.chan = r.arg,
                                       !.odd = @ \cup Mixed(o)])

\* Mutant: the configuration is not changed back.
ChangedBack_Not(t) == obj[thread[t].at]

\* ... and the old one is put back.
ChangedBack(t) == [obj[thread[t].at] EXCEPT !.chan = thread[t].old]

\* Neither the beacon after the switch nor, with the parameters of the
\* switch in place, the one that announces it need succeed.
hostapd_fill_csa_settings(t) ==
    /\ ThreadAt(t, "restore")
    /\ LET r == thread[t]
           k == Wild(r.at, "switch")
           filled == [ChangedBack(t) EXCEPT
                        !.cs = r.arg,
                        !.odd = IF obj[r.at].csa /\ obj[r.at].cs # r.arg
                                THEN @ \cup {"switch"} ELSE @]
       IN IF k # "no" THEN Crash(t, k)
          ELSE \/ Write(t, [r EXCEPT !.pc = "switch", !.old = 0], r.at, filled)
               \/ \E q \in {filled, ChangedBack(t)} :
                     Write(t, [r EXCEPT !.pc = "force", !.old = 0], r.at, q)

\* hostapd_drv_switch_channel: the driver takes one switch at a time.
hostapd_drv_switch_channel(t) ==
    /\ ThreadAt(t, "switch")
    /\ LET r == thread[t]
           o == r.at
           k == Wild(o, "switch")
       IN IF k # "no" THEN Crash(t, k)
          ELSE IF ~HasDriver(obj[o]) THEN Crash(t, "driver")
          ELSE \/ /\ obj[o].drv = 0 /\ obj[o].st = "up"
                  /\ Write(t, [r EXCEPT !.pc = "flag"],
                           o, [obj[o] EXCEPT !.drv = r.arg])
               \/ Write(t, [r EXCEPT !.pc = "force"], o, CleanCs(obj[o]))

\* csa_in_progress = 1.
hostapd_switch_channel(t) ==
    /\ ThreadAt(t, "flag")
    /\ LET r == thread[t]
           o == r.at
       IN IF Wild(o, "switch") # "no" THEN Crash(t, Wild(o, "switch"))
          ELSE Write(t, Done(t, 0), o,
                     [obj[o] EXCEPT !.csa = TRUE,
                        !.odd = IF obj[o].drv # r.arg \/ obj[o].cs # r.arg
                                THEN @ \cup {"switch"} ELSE @])

\* The "brute force": the channel goes into the configuration ...
BruteForce(t) ==
    /\ ThreadAt(t, "force")
    /\ LET r == thread[t]
           o == SlotAt(r.wiphy)
           k == Wild(o, "mode")
       IN IF ~InTable(r.wiphy) THEN To(t, Done(t, -1))
          ELSE IF k # "no" THEN Crash(t, k)
          ELSE IF r.arg \notin Channel THEN To(t, Done(t, -1))
          ELSE Write(t, [r EXCEPT !.pc = "reload", !.at = o,
                                  !.other = @ \/ Other(t, o)],
                     o, [obj[o] EXCEPT !.chan = r.arg,
                                       !.odd = @ \cup {"channel"}])

\* ... and the configuration is read again, if the interface has a file.
hostapd_reload_config(t) ==
    /\ ThreadAt(t, "reload")
    /\ LET r == thread[t]
           o == SlotAt(r.wiphy)
           k == Wild(o, "switch")
       IN IF k # "no" THEN Crash(t, k)
          ELSE \/ obj[o].file /\ To(t, Done(t, -1))
               \/ To(t, [r EXCEPT !.pc = "flush", !.at = o])

\* Calls other than t that are freeing the stations of the same interface.
Flushing(t) ==
    {u \in Thread \ {t} : thread[u].pc = "flush" /\ thread[u].at = thread[t].at}

\* hostapd_clear_old frees every station, without a lock.  Two calls that do
\* may free one station twice.  A configuration that has been read is to
\* replace hapd->iconf, which is fetched now.
hostapd_clear_old(t) ==
    /\ ThreadAt(t, "flush")
    /\ LET r == thread[t]
           k == Wild(r.at, "switch")
       IN IF k # "no" THEN Crash(t, k)
          ELSE \/ /\ HasDriver(obj[r.at]) /\ Flushing(t) # {}
                  /\ Crash(t, "station")
               \/ ~obj[r.at].file /\ To(t, Done(t, 0))
               \/ obj[r.at].file /\ To(t, [r EXCEPT !.pc = "swap",
                                                    !.conf = "held"])

\* The new configuration takes over the channel of the old one, which is
\* freed; another reload may have freed it before.
ReplaceConf(t) ==
    /\ ThreadAt(t, "swap")
    /\ LET k == WildHeld(t, "switch")
       IN IF k # "no" THEN Crash(t, k)
          ELSE /\ thread' = [Disturb(FreeConf(thread, {thread[t].at}), "reload")
                               EXCEPT ![t] = Done(t, 0)]
               /\ UNCHANGED <<phase, next, daemonize, slots, count, obj, busy,
                              toe, events, wild>>

\* The array has been moved since the call fetched its address.
ArrayMoved(t) ==
    /\ Alive /\ busy # <<>> /\ busy[1] = "add"
    /\ thread[t].pc \in {"lookup", "get", "convert", "fill", "force", "reload"}
    /\ Crash(t, "moved")

\* Some call frees the stations, or replaces the configuration, of o.
Reloading(o) ==
    \E t \in Thread : thread[t].pc \in {"flush", "swap"} /\ thread[t].at = o

\* The event loop, too, is in the middle of something with o: a frame or a
\* timer of a station, or a reload.  What it holds is freed.
StationLost(o) ==
    /\ EventLoop /\ HasDriver(obj[o]) /\ Reloading(o)
    /\ wild' = "station"
    /\ UNCHANGED <<phase, next, daemonize, slots, count, obj, busy, thread, toe,
                   events>>

-----------------------------------------------------------------------------

Step(t) == \/ get_wiphy(t) \/ get_wiphy_compare(t) \/ Fetch(t) \/ Read(t)
           \/ Finish(t) \/ set_current_channel(t) \/ set_current_frequency(t)
           \/ hostapd_fill_csa_settings(t) \/ hostapd_drv_switch_channel(t)
           \/ hostapd_switch_channel(t) \/ BruteForce(t)
           \/ hostapd_reload_config(t) \/ hostapd_clear_old(t)
           \/ ReplaceConf(t) \/ ArrayMoved(t)

Main == SetupNext \/ hostapd_global_run \/ Terminate \/ DeinitNext

Loop ==
    \/ AddEnd \/ RemoveShift \/ handle_reload
    \/ \E n \in Name : AddBegin(n) \/ RemoveFree(n)
    \/ \E o \in Object : \/ hostapd_enable_iface(o) \/ hostapd_disable_iface(o)
                         \/ SetupComplete(o) \/ hostapd_event_ch_switch(o)
                         \/ hostapd_event_iface_unavailable(o)
                         \/ StationLost(o)

Next ==
    \/ Main \/ Loop
    \/ \E t \in Thread : Step(t)
    \/ \E t \in Thread, op \in Request, n \in Named, c \in Asked :
          /\ op \in Getters => c = CHOOSE x \in Asked : TRUE
          /\ Begin(t, op, n, c)

Spec == Init /\ [][Next]_vars

-----------------------------------------------------------------------------
(* Properties *)

\* The table never counts more entries than the array has, and the fields of
\* interfaces and calls hold the values the code gives them.
TypeOK ==
    /\ phase \in {"setup", "run", "out", "exit"}
    /\ next \in 1..(MaxObject + 1) /\ toe \in 0..MaxObject
    /\ daemonize \in BOOLEAN /\ events \in 0..MaxEvents
    /\ slots \in Seq(Object \cup {Null}) /\ count \in 0..Len(slots)
    /\ \A o \in Object :
          /\ obj[o].st \in {"unused", "noconf", "configured", "starting",
                            "failed", "up", "disabled", "freed"}
          /\ obj[o].mode \in {"none", "valid", "freed"}
          /\ {obj[o].chan, obj[o].freq, obj[o].cs, obj[o].drv}
                \subseteq Channel \cup {0}
    /\ \A t \in Thread : thread[t].at \in Object \cup {Null}
                         /\ thread[t].wiphy \in -1..(MaxObject - 1)

\* What can make an access go wrong, at the moment it does.
Cause(t) ==
    [outside |-> "remove" \in thread[t].during,
     null    |-> "remove" \in thread[t].during,
     freed   |-> \/ "remove" \in thread[t].during
                 \/ "end" \in thread[t].during
                 \/ phase = "out" \/ (busy # <<>> /\ busy[1] = "remove"),
     noconf  |-> busy # <<>> /\ busy[1] = "add",
     conf    |-> "reload" \in thread[t].during,
     moved   |-> busy # <<>> /\ busy[1] = "add",
     station |-> thread[t].op \in Setters /\ Flushing(t) # {},
     nomode  |-> thread[t].op \in Setters
                 /\ \E o \in Table : obj[o].mode = "none",
     mode    |-> thread[t].op \in Setters
                 /\ \E o \in Table : obj[o].mode = "freed",
     driver  |-> thread[t].op \in Setters
                 /\ \E o \in Table : ~HasDriver(obj[o])]

\* A servlet uses memory of the table, an interface, its configuration, modes,
\* driver or stations that it must not use only when an interface is removed,
\* added or reloaded, or the process ends, while the servlet runs, or when a
\* channel is set on an interface whose driver or modes are not there (not yet
\* set up, not enabled, disabled, or not described by the driver).  In
\* particular the test "wiphy > count", which lets the index count pass, is
\* harmless as long as no interface is removed between get_wiphy and the
\* accessor; after two removals hostapd_iface_alloc shrinks the array, and the
\* index count is outside of it.  The event loop loses what it holds only to a
\* servlet that sets a channel of the radio and reloads the configuration.
NoWildAccess ==
    /\ \A t \in Thread : thread[t].pc = "wild" => Cause(t)[wild]
    /\ wild # "no" /\ (\A t \in Thread : thread[t].pc # "wild") =>
         \E t \in Thread :
            /\ thread[t].pc \in {"flush", "swap"} /\ thread[t].op \in Setters
            /\ thread[t].arg \in Channel /\ HasDriver(obj[thread[t].at])

\* What a servlet reads and sets belongs to the interface the request names,
\* unless an interface was removed while the servlet ran: the index that
\* get_wiphy returns is used several times and may have come to mean another
\* interface.
RightInterface ==
    \A t \in Thread : thread[t].other => "remove" \in thread[t].during

\* An interface that operates on a known frequency is configured for the
\* channel its radio is on, unless a channel was "forced" on it, its driver
\* switched without describing its modes, or two writers of the channel (calls
\* of servlets, a switch, a restart) overlapped: hostapd_fill_csa_settings
\* writes back the channel that it saw before it started.
ChannelMatchesRadio ==
    \A o \in Object :
       obj[o].st = "up" /\ obj[o].freq # 0 /\ ~Filling(o)
       /\ obj[o].chan # obj[o].freq => "channel" \in obj[o].odd

\* A channel switch that has been announced is over once the driver has
\* switched (csa_in_progress keeps later switches and every update of the
\* beacon from happening), unless the driver's event overtook the assignment
\* in the servlet, another servlet put the parameters of its own switch in
\* place meanwhile (it need not get further), the interface was disabled or
\* has no modes, or the fork of -B killed the servlet.
SwitchEnds ==
    \A o \in Object : obj[o].csa /\ obj[o].drv = 0 => "switch" \in obj[o].odd

\* global_var.h: "set the frequency of the radio, if the frequency is invalid
\* returns an error".  A call that returns 0 for an interface that operates has
\* put its radio on the frequency or has asked the driver to.
SetsTheRadio ==
    \A t \in Thread :
       LET r == thread[t]
       IN (r.pc = "done" /\ r.op \in Setters /\ r.ret = 0 /\ r.at # Null
           /\ obj[r.at].st = "up")
             => r.arg \in {obj[r.at].freq, obj[r.at].drv}
=============================================================================
