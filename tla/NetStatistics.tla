---------------------------- MODULE NetStatistics ----------------------------
(***************************************************************************)
(* Mean interface statistics, ethanol_functions/net_statistics.c: a linked *)
(* list of interfaces, collector threads that walk it periodically, and    *)
(* the requests of the controller that change it, served by the threads of *)
(* messaging/ssl-server.c (process_msg_mean_sta_statistics).               *)
(*                                                                         *)
(* Nothing is locked.  A step of a thread reads or writes the shared       *)
(* variables at one place of the code.  The requests other than            *)
(* MSG_MEAN_STA_STATISTICS_GET have no reply, so that even a controller    *)
(* that sends one message after the other has several served at a time.    *)
(* Reading a cell after it has been freed may give anything.               *)
(***************************************************************************)
EXTENDS Integers, FiniteSets

CONSTANTS Intf,        \* interface names
          Servlet,     \* bound: requests served at a time
          Collector,   \* bound: the threads pthread_create can provide
          Node,        \* bound: memory cells for list items
          Request,     \* the requests the controller makes
          Msec,        \* values of msec in MSG_MEAN_STA_STATISTICS_SET_TIME
          IntMax,      \* INT_MAX
          Factor,      \* microseconds in a millisecond
          NULL

ASSUME NetConstants ==
    /\ Request \subseteq {"add", "remove", "get", "time"}
    /\ Msec \subseteq Int
    /\ IntMax \in Nat /\ Factor \in Nat
    /\ NULL \notin Node /\ IsFiniteSet(Node) /\ Intf # {}

VARIABLES list_net_statistics,  \* head of the list
          heap,                 \* struct t_list_net_statistics of each cell
          allocated,            \* the cells malloc'ed and not freed
          collect_usec,
          running_thread,
          th,                   \* control state and locals of each thread
          overlap,              \* ghost: the kinds of requests that have met
          undefined,            \* ghost: a freed cell has been accessed
          got,                  \* ghost: what a "get" has returned
          overrun               \* ghost: its arrays were too short or too long

shared == <<list_net_statistics, heap, allocated, collect_usec,
            running_thread>>
ghosts == <<undefined, got, overrun>>
vars == <<shared, th, overlap, ghosts>>

Thread == Servlet \cup Collector

Pointer == Node \cup {NULL}

Cell == [intf_name : Intf, next : Pointer]

\* A cell nobody may read: what it holds does not matter (see Read).
Blank == [intf_name |-> CHOOSE i \in Intf : TRUE, next |-> NULL]

\* A thread that does nothing: a servlet between requests, or no thread.
\* p, q: its pointers into the list; n, i: the counters of the "get";
\* names: the result array.
Idle == [pc |-> "idle", intf |-> NULL, usec |-> 0, p |-> NULL, q |-> NULL,
         n |-> 0, i |-> 0, names |-> {}]

Collecting == {c \in Collector : th[c].pc # "idle"}

\* Which activities of two threads are going on at the same time in th: two
\* requests that change the list; a removal and any walk of the list; a "get"
\* and a change; two settings of the period.
Met(f) ==
    LET In(pcs) == {t \in Thread : f[t].pc \in pcs}
        removal == In({"remove", "unlink", "jump", "free"})
        change  == removal \cup In({"add", "insert", "publish"})
        get     == In({"count", "fill"})
        walk    == change \cup get \cup In({"update", "store"})
        period  == In({"time", "stopped", "start", "create", "assign"})
        Meet(kind, one, other) ==
            IF \E t \in one : other \ {t} # {} THEN {kind} ELSE {}
    IN  Meet("changes", change, change) \cup Meet("removal", removal, walk)
        \cup Meet("get", get, change) \cup Meet("period", period, period)

\* The threads go on as f, and what meets is recorded.
Threads(f) == th' = f /\ overlap' = overlap \cup Met(f)

Become(t, r) == Threads([th EXCEPT ![t] = r])

At(t, pc) == th[t].pc = pc

\* The values that reading cell x can give.
Read(x) == IF x \in allocated THEN {heap[x]} ELSE Cell

Access(x) == undefined' = (undefined \/ x \notin allocated)

\* A signed 32-bit multiplication as the build performs it.
Wrap(x) == ((x + IntMax + 1) % (2 * (IntMax + 1))) - (IntMax + 1)

-----------------------------------------------------------------------------
(* The collector: thread_get_net_statistics and update_means. *)

\* "if (collect_usec <= 0) return NULL", read when the thread gets to run.
thread_get_net_statistics(c) ==
    /\ At(c, "created")
    /\ Become(c, IF collect_usec <= 0 THEN Idle
                                      ELSE [Idle EXCEPT !.pc = "loop"])
    /\ UNCHANGED <<shared, ghosts>>

KeepsRunning == running_thread

collector_loop(c) ==
    /\ At(c, "loop")
    /\ Become(c, IF KeepsRunning
                 THEN [Idle EXCEPT !.pc = "update", !.p = list_net_statistics]
                 ELSE Idle)
    /\ UNCHANGED <<shared, ghosts>>

\* The name is read, then the counters of the interface from /sys.
update_means_read(c) ==
    /\ At(c, "update")
    /\ IF th[c].p = NULL
       THEN Become(c, [Idle EXCEPT !.pc = "sleep"]) /\ UNCHANGED undefined
       ELSE Become(c, [th[c] EXCEPT !.pc = "store"]) /\ Access(th[c].p)
    /\ UNCHANGED <<shared, got, overrun>>

\* The means are stored and the walk goes on.
update_means_store(c) ==
    /\ At(c, "store")
    /\ \E x \in Read(th[c].p) :
          Become(c, [th[c] EXCEPT !.pc = "update", !.p = x.next])
    /\ Access(th[c].p)
    /\ UNCHANGED <<shared, got, overrun>>

collector_sleep(c) ==
    /\ At(c, "sleep")
    /\ Become(c, [Idle EXCEPT !.pc = "loop"])
    /\ UNCHANGED <<shared, ghosts>>

-----------------------------------------------------------------------------
(* set_timed_net_statistics *)

\* Mutant: stopping leaves the flag of the loop alone.
StopLoop_Forgotten == running_thread

StopLoop == FALSE

\* "stop loop in thread"
set_timed_stop(s) ==
    /\ At(s, "time") /\ th[s].usec <= 0
    /\ running_thread' = StopLoop
    /\ Become(s, [th[s] EXCEPT !.pc = "stopped"])
    /\ UNCHANGED <<list_net_statistics, heap, allocated, collect_usec, ghosts>>

\* "set as stopped"
set_timed_stopped(s) ==
    /\ At(s, "stopped")
    /\ collect_usec' = -1
    /\ Become(s, Idle)
    /\ UNCHANGED <<list_net_statistics, heap, allocated, running_thread,
                   ghosts>>

set_timed_check(s) ==
    /\ At(s, "time") /\ th[s].usec > 0
    /\ Become(s, [th[s] EXCEPT !.pc = IF collect_usec <= 0 THEN "start"
                                                           ELSE "assign"])
    /\ UNCHANGED <<shared, ghosts>>

set_timed_start(s) ==
    /\ At(s, "start")
    /\ running_thread' = TRUE
    /\ Become(s, [th[s] EXCEPT !.pc = "create"])
    /\ UNCHANGED <<list_net_statistics, heap, allocated, collect_usec, ghosts>>

\* pthread_create; it fails, unnoticed, when there is no thread left.
set_timed_create(s) ==
    /\ At(s, "create")
    /\ IF \E c \in Collector : At(c, "idle")
       THEN \E c \in Collector :
               /\ At(c, "idle")
               /\ Threads([th EXCEPT ![c].pc = "created",
                                     ![s].pc = "assign"])
       ELSE Become(s, [th[s] EXCEPT !.pc = "assign"])
    /\ UNCHANGED <<shared, ghosts>>

\* "change the time between collections"
set_timed_assign(s) ==
    /\ At(s, "assign")
    /\ collect_usec' = th[s].usec
    /\ Become(s, Idle)
    /\ UNCHANGED <<list_net_statistics, heap, allocated, running_thread,
                   ghosts>>

-----------------------------------------------------------------------------
(* add_intf_net_statistics *)

\* Mutant: an interface that is listed already is not recognised.
Searching_Always(x, i) == TRUE

\* "while (p && (strcmp(p->intf_name, intf_name) != 0)) p = p->next"
Searching(x, i) == x.intf_name # i

add_intf_find(s) ==
    /\ At(s, "add")
    /\ IF th[s].p = NULL
       THEN Become(s, [th[s] EXCEPT !.pc = "insert"]) /\ UNCHANGED undefined
       ELSE /\ Access(th[s].p)
            /\ \E x \in Read(th[s].p) :
                 Become(s, IF Searching(x, th[s].intf)
                           THEN [th[s] EXCEPT !.p = x.next] ELSE Idle)
    /\ UNCHANGED <<shared, got, overrun>>

\* Mutant: the item is linked to itself (list_net_statistics is set first).
LinkTo_Self(x) == x

\* Mutant: the rest of the list is forgotten.
LinkTo_Null(x) == NULL

\* p->next = list_net_statistics
LinkTo(x) == list_net_statistics

add_intf_insert(s) ==
    /\ At(s, "insert")
    /\ \E x \in Node \ allocated :
          /\ allocated' = allocated \cup {x}
          /\ heap' = [heap EXCEPT ![x] = [intf_name |-> th[s].intf,
                                          next |-> LinkTo(x)]]
          /\ Become(s, [th[s] EXCEPT !.pc = "publish", !.p = x])
    /\ UNCHANGED <<list_net_statistics, collect_usec, running_thread, ghosts>>

add_intf_publish(s) ==
    /\ At(s, "publish")
    /\ list_net_statistics' = th[s].p
    /\ Become(s, Idle)
    /\ UNCHANGED <<heap, allocated, collect_usec, running_thread, undefined,
                   got, overrun>>

-----------------------------------------------------------------------------
(* remove_intf_net_statistics: p is p1, q the position before it. *)

\* Not in the list: nothing to remove.
remove_intf_absent(s) ==
    /\ At(s, "remove") /\ th[s].p = NULL
    /\ Become(s, Idle)
    /\ UNCHANGED <<shared, undefined, got, overrun>>

remove_intf_find(s) ==
    /\ At(s, "remove") /\ th[s].p # NULL
    /\ Access(th[s].p)
    /\ \E x \in Read(th[s].p) :
          Become(s, IF x.intf_name # th[s].intf
                    THEN [th[s] EXCEPT !.q = th[s].p, !.p = x.next]
                    ELSE [th[s] EXCEPT !.pc = "unlink"])
    /\ UNCHANGED <<shared, got, overrun>>

remove_intf_unlink_head(s) ==
    /\ At(s, "unlink")
    /\ IF th[s].p = list_net_statistics
       THEN /\ Access(th[s].p)
            /\ \E x \in Read(th[s].p) : list_net_statistics' = x.next
       ELSE UNCHANGED <<list_net_statistics, undefined>>
    /\ Become(s, [th[s] EXCEPT !.pc = "jump"])
    /\ UNCHANGED <<heap, allocated, collect_usec, running_thread, got,
                   overrun>>

\* "makes the link jump over p1"
JumpOver(s) == IF th[s].q \in allocated
               THEN [heap EXCEPT ![th[s].q].next = heap[th[s].p].next]
               ELSE heap

remove_intf_jump(s) ==
    /\ At(s, "jump")
    /\ heap' = JumpOver(s)
    /\ undefined' = (\/ undefined
                     \/ th[s].q # NULL /\ ~({th[s].q, th[s].p} \subseteq allocated))
    /\ Become(s, [th[s] EXCEPT !.pc = "free"])
    /\ UNCHANGED <<list_net_statistics, allocated, collect_usec,
                   running_thread, got, overrun>>

remove_intf_free(s) ==
    /\ At(s, "free")
    /\ Access(th[s].p)
    /\ allocated' = allocated \ {th[s].p}
    /\ heap' = [heap EXCEPT ![th[s].p] = Blank]
    /\ Become(s, Idle)
    /\ UNCHANGED <<list_net_statistics, collect_usec, running_thread,
                   got, overrun>>

-----------------------------------------------------------------------------
(* get_all_mean_net_statistics: count, allocate, fill. *)

get_all_count(s) ==
    /\ At(s, "count") /\ th[s].p # NULL
    /\ Access(th[s].p)
    /\ \E x \in Read(th[s].p) :
          Become(s, [th[s] EXCEPT !.p = x.next, !.n = @ + 1])
    /\ UNCHANGED <<shared, got, overrun>>

\* An empty list gives no result; otherwise the walk starts again.
get_all_alloc(s) ==
    /\ At(s, "count") /\ th[s].p = NULL
    /\ IF th[s].n = 0
       THEN Become(s, Idle) /\ got' = {}
       ELSE /\ Become(s, [th[s] EXCEPT !.pc = "fill",
                                       !.p = list_net_statistics])
            /\ UNCHANGED got
    /\ UNCHANGED <<shared, undefined, overrun>>

\* Mutant: the arrays are allocated one item short.
Room_OffByOne(n) == n - 1

\* malloc(n * sizeof(...))
Room(n) == n

get_all_fill(s) ==
    /\ At(s, "fill") /\ th[s].p # NULL
    /\ Access(th[s].p)
    /\ \E x \in Read(th[s].p) :
          Become(s, [th[s] EXCEPT !.p = x.next, !.i = @ + 1,
                                  !.names = @ \cup {x.intf_name}])
    /\ overrun' = (overrun \/ th[s].i >= Room(th[s].n))
    /\ UNCHANGED <<shared, got>>

\* All n entries are encoded, filled or not.
get_all_return(s) ==
    /\ At(s, "fill") /\ th[s].p = NULL
    /\ got' = th[s].names
    /\ overrun' = (overrun \/ th[s].i < th[s].n)
    /\ Become(s, Idle)
    /\ UNCHANGED <<shared, undefined>>

-----------------------------------------------------------------------------
Init ==
    /\ list_net_statistics = NULL
    /\ heap = [x \in Node |-> Blank]
    /\ allocated = {}
    /\ collect_usec = -1
    /\ running_thread = TRUE
    /\ th = [t \in Thread |-> Idle]
    /\ overlap = {}
    /\ undefined = FALSE
    /\ got = {}
    /\ overrun = FALSE

\* A request arrives, the answer to the one before has been used; a "get" and the searches begin at the list's head.
process_msg_mean_sta_statistics(s) ==
    /\ At(s, "idle")
    /\ \/ \E i \in Intf, r \in Request \cap {"add", "remove"} :
             Become(s, [Idle EXCEPT !.pc = r, !.intf = i,
                                    !.p = list_net_statistics])
       \/ /\ "get" \in Request
          /\ Become(s, [Idle EXCEPT !.pc = "count", !.p = list_net_statistics])
       \/ /\ "time" \in Request
          /\ \E msec \in Msec :
                Become(s, [Idle EXCEPT !.pc = "time",
                                       !.usec = Wrap(msec * Factor)])
    /\ got' = {}
    /\ UNCHANGED <<shared, undefined, overrun>>

\* A servlet thread in the middle of a request.
Serve(s) ==
    \/ set_timed_stop(s) \/ set_timed_stopped(s) \/ set_timed_check(s)
    \/ set_timed_start(s) \/ set_timed_create(s) \/ set_timed_assign(s)
    \/ add_intf_find(s) \/ add_intf_insert(s) \/ add_intf_publish(s)
    \/ remove_intf_absent(s) \/ remove_intf_find(s)
    \/ remove_intf_unlink_head(s) \/ remove_intf_jump(s)
    \/ remove_intf_free(s)
    \/ get_all_count(s) \/ get_all_alloc(s) \/ get_all_fill(s)
    \/ get_all_return(s)

Collect(c) ==
    \/ thread_get_net_statistics(c)
    \/ collector_loop(c)
    \/ update_means_read(c) \/ update_means_store(c)
    \/ collector_sleep(c)

Next ==
    \/ \E s \in Servlet : process_msg_mean_sta_statistics(s) \/ Serve(s)
    \/ \E c \in Collector : Collect(c)

Spec == Init /\ [][Next]_vars

\* The kernel runs every thread that can run; no request has to come.
FairSpec ==
    /\ Spec
    /\ \A s \in Servlet : WF_vars(Serve(s))
    /\ \A c \in Collector : WF_vars(Collect(c))

-----------------------------------------------------------------------------
(* Properties. *)

\* The cells that the pointers of h lead to from cell a, in k steps at most.
Reached(a, h) ==
    LET to[k \in Nat] == IF k = 0 THEN {a} \ {NULL}
                         ELSE to[k - 1]
                              \cup ({h[x].next : x \in to[k - 1]} \ {NULL})
    IN  to

Listed == Reached(list_net_statistics, heap)[Cardinality(Node)]

ListedNames == {heap[x].intf_name : x \in Listed}

\* The requests of different connections have met in one of the ways in k.
MetIn(k) == overlap \cap k # {}

\* Every variable keeps the type of its C declaration, and a "get" counts no
\* more items than there are, unless a removal has met a walk.
TypeOK ==
    /\ list_net_statistics \in Pointer
    /\ heap \in [Node -> Cell]
    /\ allocated \subseteq Node
    /\ collect_usec \in -1..IntMax
    /\ running_thread \in BOOLEAN
    /\ \A t \in Thread :
          /\ th[t].p \in Pointer /\ th[t].q \in Pointer
          /\ th[t].n \in Nat /\ th[t].i \in Nat
          /\ th[t].n > Cardinality(Node) \/ th[t].i > Cardinality(Node)
                => MetIn({"removal"})
          /\ th[t].names \subseteq Intf
          /\ th[t].usec \in (-IntMax - 1)..IntMax
    /\ undefined \in BOOLEAN /\ overrun \in BOOLEAN
    /\ got \subseteq Intf
    /\ overlap \subseteq {"changes", "removal", "get", "period"}

\* As long as no two connections change the list at the same time, no interface
\* is listed twice, and every item is either in the list or in the hands of the
\* one request that is inserting or freeing it: none leaks.
ListSound ==
    \/ MetIn({"changes"}) \/ undefined
    \/ /\ \A x, y \in Listed : heap[x].intf_name = heap[y].intf_name => x = y
       /\ \A x \in allocated \ Listed :
             \E s \in Servlet :
                th[s].p = x /\ th[s].pc \in {"publish", "jump", "free"}

\* net_statistics.c: a thread follows a pointer to an item that has been freed
\* only if a removal has met a walk of the list (additions, the collectors and
\* any other requests do not disturb one another's walks), and the arrays that
\* a "get" allocated for the items it counted are only overrun, or encoded with
\* entries that were never filled, if the list was changed by another
\* connection before it copied them, or led into freed memory.
NoWildAccess ==
    /\ undefined => MetIn({"removal"})
    /\ overrun => MetIn({"get"}) \/ undefined

\* Seen by a controller the list is a set of interfaces, until two connections
\* meet that change it, or one that changes it and one that reads it.
Interfaces == INSTANCE InterfaceSet
    WITH added <- ListedNames, got <- got,
         damaged <- MetIn({"changes", "get"}) \/ undefined

ImplementsSet == Interfaces!Spec

\* Every request ends, the servlet is idle again and again: the walks over a
\* list that changes meanwhile stop, unless a removal meets another request.
\* (Then the cell a walk stands on can be freed and used again at the head.)
RequestsEnd ==
    \A s \in Servlet :
       []<>(\/ At(s, "idle") \/ undefined
            \/ MetIn({"removal"}) /\ MetIn({"changes", "get"}))

NoRequests == \A s \in Servlet : At(s, "idle")

\* "msec <= 0, disabled the collection of statistics": when the last request
\* has stopped the collection, every collector ends, unless two connections
\* have set the period at the same time or a walk led into freed memory.
StopEnds ==
    <>[](/\ NoRequests /\ collect_usec <= 0
         /\ ~MetIn({"period"}) /\ ~undefined)
        => <>[](Collecting = {})
=============================================================================
