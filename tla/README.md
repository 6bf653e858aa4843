# Verification of ethanol_hostapd

`ethanol_hostapd` is hostapd 2.6 extended by *Ethanol*, an agent through which
a controller (SDN for wireless networks) observes and steers an access point:
it is asked before stations are admitted, gets reports of beacons and
statistics, and changes settings of the radio. This directory holds TLA+ models
of the parts of the program that carry state, the TLC configurations that check
them, and TLAPS proofs. Source paths below are relative to the repository's
`hostapd-2.6/src/` unless they say otherwise.

Parse, check and prove from this directory:

    tlasany StationMgmt.tla
    tlc -workers 2 -config MCStation.cfg MCStationMgmt
    tlapm StationMgmtProofs.tla

`PROJECT.json` lists components, runs, the mutants that show each property can
fail, the source lines behind each definition, the findings, the hazards and
the theorems.

## 1. Inventory

### Threads and how the parts meet

A hostapd process with Ethanol enabled has

* the **event loop** (`utils/eloop.c`), one thread: frames, TX status reports of
  the driver, timers and the control interface. The Ethanol questions to the
  controller are asked *inside* its handlers, over a blocking SSL connection;
* the **accept loop** of the message server (`messaging/ssl-server.c`) and one
  **servlet thread** for each connection, which runs the handler of one message;
* a **hello thread**, which sends a hello message to the controller and sleeps;
* **collector threads** for mean statistics (`ethanol_functions/net_statistics.c`).

The servlet threads call `net_statistics.c`, `ap/global_var.c` and the wrappers of
`ethanol_functions/` directly. There is no lock anywhere in Ethanol's code.

The repository also builds two programs from `messaging/`: a *station agent*
(`run-station.c`, the same server and hello thread, and a loop that watches the
signal) and, with `make handover`, a *controller* (`run-server.c`) that configures
every device that says hello and chooses an AP for every station that reports a
poor signal. An AP passes a request that names a station on to that station's
agent, with the same message.

### Components

| Component | State | Operations | Hard behaviour | Module |
|---|---|---|---|---|
| Neighbour AP table, `ap/ap_list.c` | LRU list, hash, `num_ap`, `olbc`, `olbc_ht` | beacon, clean-up timer, reset, channel switch | long mixes of eviction, expiry, reset; cached protection flags | `ApList` |
| Station management, `ap/ieee802_11.c`, `ap/sta_info.c` | `sta_list`, flags, AID bitmap, counters, timers, driver entry | authentication, association, leaving, TX callbacks, commands, timers | late or lost TX reports, timers after a stall, denial by the controller | `StationMgmt` |
| Message server, `messaging/ssl-server.c` | `params`, open connections, servlet threads | accept, create, handshake, read, dispatch, write, free | parameters shared through the stack, failure at each step | `EthanolServer` |
| Message codec, `messaging/buffer_handler_fun.c`, `msg_*.c` | none | size, encode, decode | announced and written lengths differ | `Layouts` |
| Senders, handlers, SSL connections, `messaging/msg_*.c`, `ssl_common.c` | connection, buffers, message number | connect, write, read, decode, relay, close | no timeouts, results not looked at, relays that fail | `Exchange` |
| Interface access, `ap/global_var.c`, with start-up, interface table and channel switch, `hostapd/main.c`, `ap/hostapd.c`, `ap/drv_callbacks.c` | `interfaces`, configuration, channel and frequency, `csa_in_progress` | look-up by name, getters, setters; add, remove, enable, disable, reload, switch | servlets against the event loop; threads before set-up and across the fork of `-B` | `Interfaces` |
| Handover and SNR settings, `messaging/msg_snr_threshold_reached.c`, `run-server.c`, `run-station.c`, `list_*.c`, `ethanol_functions/change_ap.c` | lists of APs and stations, thresholds | hello, configuration, report, choice of AP, relay, roaming | one name buffer for all peers, unlocked lists, restarts and failures half way | `Handover` |
| Mean statistics, `ethanol_functions/net_statistics.c`, `messaging/msg_mean_sta_stats.c` | linked list, `collect_usec`, `running_thread` | add, remove, get, set time, collector | unlocked sharing, threads started and stopped | `NetStatistics`, `InterfaceSet` |
| Configuration, `ini/` | one structure | read at start | defaults | as constants |
| Wrappers, `ethanol_functions/` | none | one system call or command each | none | no (section 6) |
| Stock hostapd: WPA, EAP, RADIUS, WPS, P2P, TLS, crypto, drivers | | | | no |
| `iw-4.9/`, `certificate/`, `documentation/`, `doxygen/` | | | | no |

### What makes them correct

* *Neighbour table*: hash and list hold the same entries, the list is in LRU
  order (the timer and the eviction rely on it), protection is on when a listed
  AP needs it and ends when none does.
* *Station management*: a station is removed once and completely (timers, AID,
  counters, driver entry); the port is open only while associated; a station the
  controller denies is not associated, however late a report arrives; a silent
  station goes away.
* *Message server*: every accepted connection is served by one thread, is
  released once, and its client gets an answer or the end of the connection.
* *Messages and exchanges*: a message fits into the buffer allocated for it; a
  sender gets the value of the node it asked, or knows that it did not; only that
  node acts; no handler is brought down by a failure; an exchange ends.
* *Interface access*: a servlet uses only memory that is there, reads and sets the
  interface it was asked for, and leaves configuration and radio on one channel.
* *Handover*: the lists hold the devices that said hello with their own address;
  a station is sent to the known AP in range with the least traffic; the
  controller survives.
* *Mean statistics*: the list is a set of interfaces; nothing freed is read;
  requests and, after a stop, collectors end.

## 2. The modules

Definitions keep the names of the C functions they translate. A definition
`X_Something` right before `X`, commented "Mutant", is a plausible bug of `X`
that some property must catch; no specification uses it.

### ApList

`ap_list` is the list, head first; `ap_hash[a]` the number of entries for `a` in
the chain of its slot (the order in a chain cannot be observed); `info` the
fields of the entries. A beacon is reduced to what the table tells apart:
whether the BSS needs ERP protection, its channel, whether it has HT. Actions:
`ap_list_process_beacon` (look-up through the hash, move to the head or add with
eviction, flags, report to the controller), `ap_list_timer`, `ap_list_deinit`,
`hostapd_event_ch_switch`, and `Tick` for the clock. `heard` and `forwarded` are
ghosts for the properties. `MaxClock` bounds the clock.

### StationMgmt

One BSS of an open network. For each address: the entry (`sta`, flags, AID,
`timeout_next`, the last sequence number and subtype, `added_unassoc`,
`nonerp_set`), the driver's entry (`drv`), the registrations of its four
timeouts (`timer`, a count, because `eloop_register_timeout` does not replace an
earlier registration) and the frames whose TX status is outstanding (`tx`).

* Frames: `handle_auth_refused`, `handle_auth`, `handle_assoc_class2`,
  `handle_assoc_refused`, `handle_assoc`, `handle_disassoc`, `handle_deauth`.
  The Ethanol questions give `dont_auth`; without an answer the handlers go on
  as if the controller had agreed, as the code does.
* TX reports: `handle_auth_cb`, `handle_assoc_cb` (and `_failed`),
  `handle_deauth_cb`, `handle_disassoc_cb`, and `mgmt_cb_not_found` when the
  station is gone. A report may be negative, late, or never come (`Sent`).
* Timers: `ap_handle_timer` with every answer of the driver about inactivity,
  `ap_handle_session_timer`, the two disconnect timeouts. They are enabled
  whenever registered: the event loop may have stalled in a question to the
  controller and runs expired timers before pending reports.
* Commands: `ap_sta_deauthenticate`, `ap_sta_disassociate` (with and without a
  frame) and `hostapd_free_stas`.

`admitted` and `granted` are ghosts: the stations the controller has let pass.
The report of a disassociation to the controller is left out of the state, since
it has no answer. The code makes it when `enabled_msg_reassociation` is set;
`enabled_msg_disassociation` is read from the configuration and never used.

### EthanolServer

`run_ethanol_server` is `Accept` and `CreateThread`; the servlet is one action
per call that can fail. `params` is the structure on the accept loop's stack
whose address every thread receives. A message is one of each kind of reply:
its own, none (asynchronous), bye, and unknown (also any message of another
version, which is answered with `ERROR_UNKNOWN`). Clients connect at any time. Two
ghosts record what the code does not guard against: `overtaken`, the accept loop
has replaced `params` before the thread of the connection before had read it, and
`starved`, `pthread_create` had no thread to give.

### Layouts, Messages and Exchange

`Layouts` holds the layout of each message: the kinds of its fields, of the entries
of its list and of the lists in those. `Announced` and `Written` are the lengths
that the `size_` function counts and the `encode_` function writes for it.

`Messages` is one table with a row for each of the message types: its layout, what
its handler does (work here, pass on to the station the message names, answer or
not) and what its sender does (wait or not, the types it takes for an answer).

`Exchange` is one exchange over two hops, controller to AP and AP to station; `Ask` is
what a controller can ask, `None` that nothing is under way. It has the
steps that the senders have in common (`Connect`, write, read, `Check`, `Close`) and
those of the servlet (`servlet_read`, `process_local`, `process_relay`,
`process_relayed`, `servlet_write`, `servlet_free`). Values are abstracted to where
they come from: a node, a constant, the question itself, or whatever the
uninitialised buffer on the stack held. Connections are refused (`Connect`) or
break (`Break`), nodes fall silent (`FallSilent`), and a query may find nothing
(`process_missing`, `CrashMissing`).

Some handlers and senders use memory they must not: a null pointer, an uninitialised one,
or one they have freed. The row of a type says where (`null`, `wild` of the handler, `slip`
of the sender): always, with an empty string, when the request names a station, after a
relay that succeeded or failed, or when a query finds nothing. A null pointer ends the
process (`Crash`, `CallerEnds`); with other such memory it may also go on, with the right
value or a stale one. The ghost `misused` records it and `ended` is the process that is
gone, which refuses connections. The rows hold what a reading of every handler has found.
They are not claimed to be every misuse there is, and no property says that they are.

### Interfaces

`main()` publishes the table of interfaces (`slots`, `count`) and starts the server thread
before it sets the interfaces up. A servlet is a sequence of steps, one for each pointer
it fetches and each use of what it fetched: `get_wiphy`, then accesses by index (`Fetch`,
`Read`, `Finish`), or `set_current_frequency` with `hostapd_fill_csa_settings`,
`hostapd_drv_switch_channel`, `hostapd_switch_channel` and, when that fails, `BruteForce`
a reload in the servlet's own thread: `hostapd_reload_config` reads the new configuration,
`hostapd_clear_old` flushes the stations, `ReplaceConf` frees the old configuration and
publishes the new one. Meanwhile the event loop may lose the station it is working on
(`StationLost`), and two reloads may free one configuration. The event loop adds and removes (two steps each; the first of an addition may move the array, `ArrayMoved`), enables,
disables and reloads interfaces and handles the driver's events. An interface may come up
although the driver describes no modes (`Complete`); modes that were freed hold an unknown
value. `wild` is the access that
ended the process, with its kind (`Wild` tests in the order in which the code would go
through the pointers). Each call keeps in the ghost `during` what happened to it
meanwhile, and each interface in `odd` which writers have overlapped on it: of the
channel, or of the parameters of an announced switch.

### Handover

Devices (`dev`) start with an address, stop and start again with another; the
controller keeps `list`, and its servlets (`thread`) run `configure_experiment` for
a hello and `process_msg_snr_threshold_reached` for a report. `client_addr` is the
one buffer of `inet_ntoa`: the accept loop fills it for every connection, and
`configure_experiment` reads it again for every call it makes. A report keeps the APs
in range (`ApInRange`) in the order of `insert_ap_range`. `inserted` is a ghost: the
devices that were put into a list. An exchange is one
step that reaches whoever serves the address, or fails (`Outcome`). The kinds of
`wild` tell the null, uninitialised and freed pointers apart that can end the
controller. Two facts of the code shape the module: `run-station.c:111` waits for
the server thread, which never ends, so the watching loop only runs in a station
whose server could not be started (`run_threaded_server`); and of the line
"Connected to <address>" that `iw` 4.9 prints, `get_iw_link` takes the word after
"Connected" (`Link`), unless the output is the one quoted in its comment.

### NetStatistics and InterfaceSet

One step per access to shared memory. Cells are allocated from `Node`; reading a
cell that has been freed may give any contents (`Read`) and sets the ghost
`undefined`. `th` holds control state and locals of each thread. `msec * 1000`
is computed with wrap-around of the width `IntMax` (`Wrap`). The ghost `overlap`
records which kinds of requests have met (`Met`): two that change the list, a
removal and a walk, a get and a change, two settings of the period. What the head
leads to (`Listed`) is computed by a recursive function (`Reached`), so that the proofs
can use it. `overrun` says that a get found the list longer or shorter than it had counted:
it writes past its arrays, or sends entries that were never filled. `InterfaceSet`
is the abstract specification: a set with add, remove and get-all, until callers
have disturbed each other (`damaged`); `NetStatistics` implements it under
`added <- ListedNames`.

## 3. Runs

| Run | Bounds | Result |
|---|---|---|
| `ap_list` | 3 APs, table of 2, two channels with overlapping 40 MHz, clock to 2, expiry 1 | hash and list agree, eviction and expiry take the oldest, protection on when needed and off in the end |
| `station` | 1 station, 1 outstanding report, all questions, commands and timers | timers, driver entry, port and verdict consistent; silent stations removed |
| `station_table` | 3 stations, table of 2, 2 AIDs, symmetric | AIDs and counters agree with the table |
| `station_auth` | as `station` | **violated**: a late ACK associates a station that is no longer authenticated |
| `server` | 3 clients at a time, 2 threads, backlog 2, one message of each kind | connections served once and released whatever step fails, unless `overtaken` or `starved` |
| `server_params` | 2 clients, 2 threads | **violated**: two threads serve one connection |
| `exchange` | every type, for the AP and for a station, strings of 0 and 17 characters, lists of 0 and 2 entries, 2 pings, 1 fault | what fits, who answers, who acts, which relays the AP outlives; every exchange ends |
| `exchange_relay` | MSG_GET_SNR | **violated**: the AP returns the question as the station's answer |
| `interfaces` | 2 interfaces at start and a third, one with channel switch announcement, 2 servlets, a valid and an invalid channel, up to 3 administrative events, with and without `-B`, symmetric | which accesses go wrong and only then; right interface; channel and radio agree; switches end |
| `interfaces_radio` | 1 interface without announcements, 1 servlet | **violated**: on an interface that operates success is reported and the radio stays |
| `handover` | 2 APs, 1 station, 3 addresses, 2 servlets, 4 connections, 3 scans; one of restart, failed exchange, connection during a hello | lists sound, best AP chosen, what ends the controller |
| `net` | 2 interfaces, 2 cells, 2 connections, 1 collector, a period and one that overflows; one kind of meeting | which requests may meet without harm; requests and stops end |

Several properties have the form "*bad* only if *cause*". The code has no locks and
tests few results, so the plain statement is false in it, and each cause names one
thing that the code leaves open; the run shows that nothing else leads there. The
causes are ghosts, and none is idle: with its cause removed `ListSound`,
`NoWildAccess`, `ImplementsSet` and `StopEnds` of `NetStatistics` are violated. The exceptions of
`WithinAnnounced` and `Answered` are equivalences, so that a type listed there
without need would be found. In sum:

* *`server`*: overlapping connections do no harm as long as each thread reads
  `params` before the next connection is accepted.
* *`exchange`*: of all layouts only `MSG_GET_NOISEINFO` outgrows its buffer; seven
  types never get an answer of their own and four get none from a station; nine are
  applied to the AP although they name a station. A relay can end the AP's process for
  three types only, scan, statistics and routes, and for a request of WLAN information
  without an interface name.
* *`interfaces`*: the test `wiphy > count` that lets one index too many pass is
  harmless until an interface is removed between look-up and access; setting a channel
  on an interface that is not up, or that is up without modes, goes through pointers that
  are not there; forcing a channel reloads the configuration in the servlet's thread, under
  the event loop and other servlets that hold a station or the old configuration.
* *`handover`*: without restarts, failed exchanges and connections during a hello the
  controller is ended only by the pointer it never assigns in
  `send_msg_mean_sta_statistics`, by a report of a station on no AP, or by a report
  while an AP is listed and not yet asked to collect. With one of them also by the
  results it does not test (`run-server.c:65`, `msg_snr_threshold_reached.c:108`,
  `:127`) and by the address it frees too early (`:149`).
* *`net`*: additions and collectors, gets and gets, and anything and a setting of the
  period may meet. A freed item is read only if a removal meets a walk, the arrays of a
  get are overrun or sent half filled only if a change meets it or the list has led into freed memory, an
  item is lost only if two changes meet,
  a collector outlives a stop only if two settings of the period met. Every request
  ends, unless a removal and another change or a get meet: the cell a walk stands on
  can then be freed and used again at the head of the list, for ever.

Why the bounds are enough. The neighbour table needs one AP more than entries
for eviction, and three clock values for "fresh", "at the limit" and "expired".
One station with one outstanding report shows every order of frame, report,
timer and command, since handlers of different stations share only the table:
its limit, AIDs and counters, which `station_table` checks with one station more
than entries (and the proofs for any number). Three clients and two threads give
the race for `params`, a lack of threads and a full backlog. An exchange is
independent of others but for what `EthanolServer` models; one fault can hit either hop
at every step. Two servlets on one interface show every overlap of two writers; one
interface more than at the start lets additions fail and removals shift the table.
Two APs give a choice, two servlets the shared name and the crossed insertions; a
third address lets a device come back elsewhere or take another's place. Two list
items give head, inner and last position. `INT_MAX` is scaled to 31 and the factor
1000 to 3; with 11 ms the product is negative as it is above 2147483 ms.

State constraints (`Bounded`): in `interfaces` two calls at a time while all interfaces
are set up and nothing has been administered, one call with up to three administrative
events, or one call with one event while some interface waits for its set-up or operates
without modes; in `handover` one disturbance; in `net` one kind of
meeting, nothing after an access to freed memory, and no addition without a free cell.
They cut behaviours off; the temporal properties of `net` are checked on what is left. The
theorems of section 5 show the invariants without these bounds. Symmetry is used only in
runs without temporal properties.

Deadlock is checked except in `ap_list` (the bounded clock stops the behaviour) and in
`server*`, `exchange*`, `interfaces*` and `handover` (the process may end, a peer may
fall silent, and the bounds on events stop the behaviour).

### Fairness

* `ApList`: weak fairness of `ap_list_timer`, which `hostapd_periodic` re-arms
  for ever.
* `StationMgmt`: weak fairness of `ap_handle_timer` for each station: the event
  loop runs every timeout that expired. No fairness of frames or reports.
* `NetStatistics`: weak fairness of each thread: threads that can run do.
* `EthanolServer`: weak fairness of the accept loop and of each servlet. A client that
  has gone has closed its connection, so that the read fails.
* `Exchange`: weak fairness of every step but the faults. There is no timeout in the
  code, so a node that falls silent while it holds its connections blocks its caller for
  good; `ExchangeEnds` excepts exactly that. The questions of `StationMgmt` are such
  exchanges, asked inside the event loop: a silent controller stops the AP.
* `Interfaces`, `Handover`: none; their properties are invariants.

`SilentStationRemoved` assumes that the driver's answers for a silent station are
not "active" or "error" for ever (`Quiet`); an error makes the code try again
without end. `ProtectionEnds` assumes a table that is not empty, since
`ap_list_timer` returns early on an empty one.

## 4. Findings

Runs with an expected violation, with the quoted line in `PROJECT.json`:

1. `handle_assoc_cb` associates and authorizes any known station, authenticated
   or not (stock hostapd; `station_auth`).
2. The accept loop overwrites the parameters of a thread that has not read them
   (`server_params`).
3. An AP that does not reach a station returns the question as the station's answer
   (`exchange_relay`).
4. Setting the channel on a driver without channel switch announcements reports
   success, changes the configuration and leaves the radio (`interfaces_radio`).

Seen in the models, without a run of their own:

* `forward_beacon = -1`, documented as disabled and the default, forwards every
  beacon: `ap_list.c:259` tests for the value 1 only (`ap_list_process_beacon`).
* Operator precedence makes the test for a repeated association request compare
  `last_subtype` with 0 or 1 (`ieee802_11.c:2172`, stock hostapd; `RepeatedAssoc`).
* The DISASSOC case reports to the controller when `enabled_msg_reassociation` is set;
  `enabled_msg_disassociation` is never used (`ieee802_11.c:2846`).
* `set_timed_net_statistics` starts the collector before it assigns the period the
  collector tests: the thread may end at once, and none is started later; a stop and a
  start within one period may leave two collectors (`net_statistics.c:187`, `:227`).
* `process_msg_bye` decodes from a pointer it has just set to NULL; `unload_ethanol`,
  the sender of the bye, has no caller.
* A relayed scan shares its list with the station's answer, and a relayed statistics
  message its time stamp; both are freed with the answer, used and freed again
  (`msg_scan.c:361-370`, `msg_statistics.c:123-191`).
* The local branch of `process_msg_ap_routes` fills routes in memory that was never
  initialised (`msg_routes.c:122-129`).
* The handlers of IP addresses compare a null pointer when the address is empty
  (`msg_ipv4_address.c:344`, `:483`, `buffer_handler_fun.c:225`).
* Setting a channel that falls back to a reload flushes the station list and frees the
  configuration from a servlet's thread (`hostapd.c:164-201`; `NoWildAccess`).
* `roam_change_ap` returns 0 whether the station has moved or not, where its comment
  says ":return if the station change to the new ap or not" (`change_ap.c:22`).
* `snr = -1 * (signal - noise)` in `run-station.c:122` is the negated SNR.

## 5. Proofs

Every invariant, action property and refinement that a passing run checks is also a
theorem, for every value of the constants that the named assumptions allow
(`ConstantsOK`, `StationConstants`, `ServerConstants`, `ExchangeConstants`,
`NoneAssumption`, `HandoverConstants`, `InterfacesConstants`, `NetConstants`). The
assumptions give types, say that null values are not among the values, that there is an
interface at all, and that memory is finite. So the theorems hold without the bounds and
the state constraints of section 3: any number of stations, connections, servlets,
devices, interfaces, collectors, faults, restarts and events.

**`ApListProofs`.** `TableCorrect`, `ProtectionCorrect`, `TimerCorrect`, `TypeCorrect`
and the action property `DropsOldestEver`, from one inductive invariant: hash and list
agree, the count, the LRU order, the protection flags, and that no entry is stamped
later than the clock (`StampsPast`, which keeps the order when an entry moves to the
head). The order is needed for the timer: from "the tail has not expired" it gives "none
has". Agreement of hash and list is needed for everything else, because the look-up
walks the hash and decides whether an entry is added.

**`StationMgmtProofs`.** `Invariant`: `Spec => []IInv`, where `IInv` joins `TypeOK`,
`StationsCounted`, `AidsUnique`, `TimersFollowStation`, `DriverEntriesKnown`,
`AuthorizedIsAssociated` and `ControllerDecides` with three facts that make them
inductive:

* the table is finite, so that adding and removing entries moves its cardinality
  by one;
* `FreedIsNew`: an address without an entry is in the state of a new one, so an
  entry added later starts without AID, flags and counted rates;
* `GrantsInFlight`: a successful response in a queue of TX reports belongs to a
  station the controller has let pass. `handle_assoc_cb` asks nobody: without this
  `ControllerDecides` is not preserved by a late acknowledgement.

Most actions change one entry in place, so the argument has two levels: `PutKeeps`,
`AddKeeps` and `FreeKeeps` show what a change of one entry must satisfy
(`GoodEntry`), and one lemma per action shows that the handler satisfies it.
`GetAid` shows that the AID is the station's own or a free one for every size of
the AID space; `AssocKeeps` and `FreeKeeps` carry uniqueness and the counters. A
corollary theorem names each property.

**`EthanolServerProofs`.** `ServedOnce` says nothing of who owns a connection that is
accepted and not yet read from `params`. `Owned` does: queue, `params` while a thread is
pending, and threads hold disjoint connections, and at most one thread is pending, as
long as `params` was not `overtaken`. `NoneLeaksEver` goes further than a run: no
accepted connection is without a thread, present or pending.

**`ExchangeProofs`.** Four layers.

* `TypeInv`: the types, and that nothing is left of an exchange when it is over.
* `OrderInv` and `TraceInv`: the second hop is only used while the first waits for it,
  and every value of a node, wherever it is on its way, was read there. They give
  `OnlyTheNodeAsked`.
* `CleanInv`: without faults every step of both hops carries one of the values that the
  table predicts. It gives `Answered`, with `TableSound`: what every row of the table of messages says
  of its handler and sender, type by type. `RelaySurvived` follows from the rows in the same
  way, with faults: which types may misuse memory after or while they pass a request on.
* `WithinAnnounced` needs no invariant but the types. It is an induction over the fields
  of a layout (`SumsDiffer`): `size_` counts no less than `encode_` writes for every field,
  and three more for a bool. Two bools make up for what the size of a scanned BSS lacks
  (`ScanRoomy`); in the noise message nothing does, and with one entry it is too long for
  every length of its strings (`NoiseFits`).

**`InterfacesProofs`.** Four layers: types; the table and what the event loop is in the
middle of (`TableInv`: the entries up to `count` are the interfaces that exist, each
once); what a call knows of the interface it has looked up and fetched (`CallInv`);
channel and announced switch (`ChanInv`, `FlagInv`: while no two writers have met, at most one
call has its channel in the configuration and has kept the one of the radio). Each step of
a call is shown to be of one of three kinds (it changes the call only, ends the process for a
known cause, or writes an interface soundly; the reload writes soundly when it publishes its
configuration), and each kind to preserve the invariant.

**`HandoverProofs`.** Five layers: types and control states; `EntryInv`, that a hello that
nothing disturbed is handled under its own address, gives `EntryTrue`; `ListInv`, that an
insertion under way saw the list as it is unless two crossed, gives `ListsSound`;
`ReportInv`, what a report has found out at each step, gives `BestAnswer`; `CalmInv`, that
without disturbances every listed device serves its address and every listed AP collects or is
being asked to, gives `NoWildAccess`.

**`NetStatisticsProofs`.** The list is its length `m` and the function `L` from `1..m` to
cells. `ListInv`: while changes do not meet, or removals meet no walk, the head leads along a
list that ends. `WalkInv`: while no removal meets a walk, every walk stands on a list that ends
(not necessarily the one the head leads to). `GetInv`: while no change meets a get, it goes twice
along one path. `ImplementsSetEver` shows step by step that `NetStatistics` implements
`InterfaceSet`: the writes of `insert` and `unlink` are the addition and the removal, the last
read of a get is the answer, every other step is a stutter, and after a harmful meeting the
abstract specification allows anything.

**`NatLemmas`.** The library's induction theorems take an operator as a parameter, which no
installed prover can instantiate. `NumberInduction` takes the set of the numbers that have the
property instead. It is proved from the well-foundedness of finite sets under inclusion.
With it the recursive functions of the models are shown to exist (the sums of `Bytes`,
the list of APs in range that `insert_ap_range` builds, the cells `Reached` from the head),
so that their `CHOOSE` is known to satisfy the recursion, and facts about lists of any
length follow.

What the proofs found. Each of these was outside the bounds of the runs at the time; the
models and properties have been corrected, and the runs enlarged where they can show it:

* `NoWildAccess` of `Interfaces` excluded an index outside the array: after two removals
  and an addition the array shrinks, and the index `count` that `get_wiphy`'s test lets pass
  is outside. `SwitchEnds` missed that a second servlet that only fills in the parameters of its
  switch already spoils the first one's.
* `NetStatistics`: a get can count more items than there are cells once a removal has met a
  walk; it can overrun its arrays after the list has led into freed memory; and a
  request need not end when the cell it stands on is freed and used again.
* Two `CASE` expressions with overlapping guards (`LocalValue`, `Wild`), whose value TLA+
  leaves open and TLC takes from the first; they are disjoint or `IF` chains now.

Only model-checked: everything temporal with fairness (`ProtectionEnds`,
`LostEntryResolved`, `SilentStationRemoved`, `RequestsEnd`, `StopEnds`,
`ConnectionEnds`, `ExchangeEnds`), since the installed provers handle neither fairness nor
`ENABLED`; and, by their nature, the four properties that the code violates.

## 6. Not modelled

* *Of modelled parts*: shared-key, FT and SAE authentication, WPA and 802.1X
  authorization, SA Query, several BSSs, VLANs beyond success and failure; `bss_config=`,
  DFS, ACS and the control interface's RELOAD and CHAN_SWITCH; the arithmetic of the
  means; the values in messages; the length of sleeps.
* *Of modelled parts, single outcomes*: a driver that fails to remove a station it was
  asked to remove (`sta_info.c:689`) or that watches inactivity itself
  (`WPA_DRIVER_FLAGS_INACTIVITY_TIMER`, `sta_info.c:651`, `hostapd.c:2837`); `accept()`
  returning an error (`ssl-server.c:928`), and that servlet threads, which nobody joins or
  detaches, keep their stacks (the model uses a finished thread again); a channel that is an
  802.11 channel and none of the radio's, which `hostapd_fill_csa_settings` writes to the
  configuration before the driver refuses it (`hostapd.c:3097-3116`); an insertion between
  the comparison with the head and its assignment in `remove_intf` (`net_statistics.c:269`),
  which is one step here (two changes have then met, and the properties claim nothing).
* *Strings*: `copy_string` allocates fewer bytes than it writes (`utils_str.c:8-16`); its
  buffers are not modelled. `msg_ipv4_address.c` holds merge-conflict markers and does not
  compile as it is. The two sides of each conflict do the same, except that one repeats
  `process_msg_ipv6_address`, and the model is of what they do.
* *Wrappers of `ethanol_functions/`*: some seventy functions that make one system call,
  read one file of `/proc` or `/sys` or run one command and convert the result. They keep
  no state; in `Exchange` each is the step in which a node reads or sets its value.
* *Code that no target links or no function calls*: `set_snr_information.c` and
  `sleep_intervals.c`; `return_connected_sta` (whose walk does not advance) and
  `survey_with_hostapd` of `global_var.c`; `remove_device`; `get_mean_net_statistics`.
* *Stock hostapd, `iw-4.9`, generated documentation*: some 900 implementation files, of
  which Ethanol changed or added fewer than two hundred. Supplicant state machines, EAP,
  RADIUS, WPS, P2P, TLS, crypto and the drivers are unchanged, take no part in what
  Ethanol does with an open network, and would each be a project of their own. This is
  why the map names a small share of the repository's lines, and nearly all of those in
  `messaging/`, `ap/ap_list.c`, `ap/global_var.c` and `ethanol_functions/net_statistics.c`.

## 7. Plan

Every safety property of every passing run is a theorem. What is left:

1. Safety facts that liveness needs and that are provable: in `EthanolServer` that every
   step of a servlet brings it nearer to its end, in `NetStatistics` a measure that each
   step of a walk decreases unless a removal meets it.
2. Action properties of the components that have none yet: that a station entry leaves
   the table only through `ap_free_sta`, that an exchange's slot is written once.
3. Shorter proofs, where a lemma can be shared by several actions.
