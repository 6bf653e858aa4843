------------------------- MODULE EthanolServerProofs -------------------------
(***************************************************************************)
(* Proofs about the message server: for any number of connections, any     *)
(* number of threads and any backlog, every variable keeps its type and,   *)
(* until params is replaced too early, every connection is served by one   *)
(* thread, which is the only one that uses it before it is released.       *)
(***************************************************************************)
EXTENDS EthanolServer, SequenceTheorems, TLAPS

\* The servlets as the provers need them: total functions and full records.
ServletRecord ==
    [pc : {"idle", "created", "handshake", "read", "process", "write", "free"},
     ssl : Conn \cup {None}, type : AllTypes \cup {None},
     reply : Reply \cup {None}]

\* A servlet holds an SSL object exactly while it serves, and one that is
\* dispatched has read a message.
Sound(r) ==
    /\ r.pc \in {"idle", "created"} <=> r.ssl = None
    /\ r.pc = "process" => r.type \in AllTypes

Scalars ==
    /\ up \in BOOLEAN
    /\ loop \in {"start", "accept", "create"}
    /\ params \in Conn \cup {None}
    /\ queue \in Seq(Conn) /\ Len(queue) <= Backlog
    /\ open \subseteq Conn
    /\ client \in [Conn -> {"idle", "waiting", "gone"}]

GhostType == undefined \in BOOLEAN /\ overtaken \in BOOLEAN /\ starved \in BOOLEAN

\* TypeOK made inductive: params is assigned before a thread is created.
TypeInv ==
    /\ Scalars
    /\ GhostType
    /\ thread \in [Thread -> ServletRecord]
    /\ \A t \in Thread : Sound(thread[t])
    /\ params = None => loop # "create" /\ \A t \in Thread : thread[t].pc = "idle"

InQueue(c) == \E i \in DOMAIN queue : queue[i] = c

\* The connection in params has been accepted and no thread has read it.
Pending == loop = "create" \/ \E t \in Thread : thread[t].pc = "created"

\* Who owns which connection while the process lives and params has never
\* been replaced too early.
Owned ==
    /\ \A i, j \in DOMAIN queue : queue[i] = queue[j] => i = j
    /\ \A c \in open : ~InQueue(c)
    /\ \A t \in Thread : thread[t].ssl # None => thread[t].ssl \in open
    /\ \A t, u \in Thread :
          thread[t].ssl = thread[u].ssl /\ thread[t].ssl # None => t = u
    /\ \A t, u \in Thread :
          thread[t].pc = "created" /\ thread[u].pc = "created" => t = u
    /\ loop = "create" => \A t \in Thread : thread[t].pc # "created"
    /\ Pending => params \in open /\ \A t \in Thread : thread[t].ssl # params

\* The inductive invariant.  A process that has ended has no threads left.
OwnerInv ==
    overtaken \/ /\ ~undefined
                 /\ up => Owned
                 /\ ~up => \A t \in Thread : thread[t] = NoThread

\* No connection leaks: every open connection has a thread, or one that is
\* about to read it from params.  Nothing is said once pthread_create has
\* failed or params has been replaced too early.
NoneLeaks ==
    overtaken \/ starved \/ \A c \in open :
        (c = params /\ Pending) \/ \E t \in Thread : thread[t].ssl = c

IInv == TypeInv /\ OwnerInv /\ NoneLeaks

-----------------------------------------------------------------------------
(* Types *)

LEMMA NoThreadSound == NoThread \in ServletRecord /\ Sound(NoThread)
  BY DEF NoThread, ServletRecord, Sound

LEMMA TypeInvTypes == TypeInv => TypeOK
  BY DEF TypeInv, Scalars, GhostType, TypeOK, ServletRecord, Sound

LEMMA InitType == Init => TypeInv
<1> SUFFICES ASSUME Init PROVE TypeInv
  OBVIOUS
<1>1. Scalars
  BY ServerConstants DEF Init, Scalars
<1>2. GhostType
  BY DEF Init, GhostType
<1> QED
  BY <1>1, <1>2, NoThreadSound DEF Init, TypeInv, NoThread

\* A step that changes one servlet, and leaves params and the loop alone.
LEMMA OneServlet ==
    ASSUME TypeInv, NEW t \in Thread, NEW r \in ServletRecord, Sound(r),
           r.pc = "idle" \/ thread[t].pc # "idle",
           thread' = [thread EXCEPT ![t] = r],
           UNCHANGED <<loop, params>>, Scalars', GhostType'
    PROVE  TypeInv'
<1>1. thread' \in [Thread -> ServletRecord]
  BY DEF TypeInv
<1>2. \A u \in Thread : thread'[u] = IF u = t THEN r ELSE thread[u]
  BY DEF TypeInv
<1>3. \A u \in Thread : Sound(thread'[u])
  BY <1>2 DEF TypeInv
<1>4. params' = None => loop' # "create" /\ \A u \in Thread : thread'[u].pc = "idle"
  BY <1>2 DEF TypeInv
<1> QED
  BY <1>1, <1>3, <1>4 DEF TypeInv

LEMMA DieType ==
    ASSUME TypeInv, Die, UNCHANGED <<loop, params, ghosts>>, loop # "create" \/ params # None
    PROVE  TypeInv'
<1>1. Scalars'
  <2>1. up' \in BOOLEAN /\ open' \subseteq Conn
    BY DEF Die
  <2>2. queue' \in Seq(Conn) /\ Len(queue') <= Backlog
    BY ServerConstants DEF Die
  <2>3. client' \in [Conn -> {"idle", "waiting", "gone"}]
    BY DEF Die
  <2>4. loop' \in {"start", "accept", "create"} /\ params' \in Conn \cup {None}
    BY DEF TypeInv, Scalars
  <2> QED
    BY <2>1, <2>2, <2>3, <2>4 DEF Scalars
<1>2. GhostType'
  BY DEF TypeInv, GhostType, ghosts
<1> QED
  BY <1>1, <1>2, NoThreadSound DEF TypeInv, Die, NoThread

\* The variables that the steps of a servlet leave alone, open excepted.
LEMMA ServletScalars ==
    ASSUME TypeInv, UNCHANGED <<up, loop, params, queue>>, open' \subseteq open,
           client' \in [Conn -> {"idle", "waiting", "gone"}]
    PROVE  Scalars'
  BY DEF TypeInv, Scalars

LEMMA ServletType ==
    ASSUME TypeInv, NEW t \in Thread, Servlet(t)
    PROVE  TypeInv'
<1>0. /\ Scalars /\ GhostType /\ thread[t] \in ServletRecord /\ Sound(thread[t])
      /\ thread \in [Thread -> ServletRecord]
      /\ client \in [Conn -> {"idle", "waiting", "gone"}]
  BY DEF TypeInv, Scalars
<1>1. CASE call_servlet(t)
  <2> DEFINE r == [thread[t] EXCEPT !.ssl = params, !.pc = "handshake"]
  <2>1. thread' = [thread EXCEPT ![t] = r] /\ thread[t].pc = "created"
    BY <1>0, <1>1 DEF call_servlet, At
  <2>2. params \in Conn
    BY <2>1 DEF TypeInv, Scalars
  <2>3. r \in ServletRecord /\ Sound(r)
    BY <1>0, <2>2, ServerConstants DEF ServletRecord, Sound
  <2>4. Scalars' /\ GhostType'
    BY <1>0, <1>1, ServletScalars DEF call_servlet, GhostType, ghosts
  <2> QED
    BY <1>1, <2>1, <2>3, <2>4, OneServlet DEF call_servlet
<1>2. ASSUME NEW ok \in BOOLEAN, servlet_accept(t, ok) PROVE TypeInv'
  <2> DEFINE r == [thread[t] EXCEPT !.pc = AfterHandshake(ok)]
  <2>1. thread' = [thread EXCEPT ![t] = r] /\ thread[t].pc = "handshake"
    BY <1>0, <1>2 DEF servlet_accept, At, Goto
  <2>2. r \in ServletRecord /\ Sound(r)
    BY <1>0, <2>1 DEF ServletRecord, Sound, AfterHandshake
  <2>3. Scalars' /\ GhostType'
    BY <1>0, <1>2, ServletScalars DEF servlet_accept, GhostType, Use
  <2> QED
    BY <1>2, <2>1, <2>2, <2>3, OneServlet DEF servlet_accept
<1>3. ASSUME NEW ok \in BOOLEAN, servlet_read(t, ok) PROVE TypeInv'
  <2>1. PICK q \in Request :
          thread' = [thread EXCEPT ![t].pc = AfterRead(ok),
                                   ![t].type = IF ok THEN Dispatched(q) ELSE None]
    BY <1>3 DEF servlet_read
  <2> DEFINE r == [thread[t] EXCEPT !.pc = AfterRead(ok),
                                    !.type = IF ok THEN Dispatched(q) ELSE None]
  <2>2. thread' = [thread EXCEPT ![t] = r] /\ thread[t].pc = "read"
    BY <1>0, <1>3, <2>1 DEF servlet_read, At
  <2>3. Dispatched(q) \in AllTypes
    BY ServerConstants DEF Dispatched, Request, AllTypes
  <2>4. r \in ServletRecord /\ Sound(r)
    BY <1>0, <2>2, <2>3 DEF ServletRecord, Sound, AfterRead
  <2>5. Scalars' /\ GhostType'
    BY <1>0, <1>3, ServletScalars DEF servlet_read, GhostType, Use
  <2> QED
    BY <1>3, <2>2, <2>4, <2>5, OneServlet DEF servlet_read
<1>4. CASE servlet_process(t)
  <2> DEFINE reply == ReplyTo(thread[t].type)
             r == [thread[t] EXCEPT !.reply = reply, !.type = None,
                      !.pc = IF reply = None THEN "free" ELSE "write"]
  <2>1. thread' = [thread EXCEPT ![t] = r] /\ thread[t].pc = "process"
        /\ thread[t].type # "bye"
    BY <1>0, <1>4 DEF servlet_process, At
  <2>2. reply \in Reply \cup {None}
    BY <1>0, <2>1 DEF Sound, AllTypes, ReplyTo, Reply
  <2>3. r \in ServletRecord /\ Sound(r)
    <3> HIDE DEF reply
    <3> QED
      BY <1>0, <2>1, <2>2 DEF ServletRecord, Sound
  <2>4. Scalars' /\ GhostType'
    BY <1>0, <1>4, ServletScalars DEF servlet_process, GhostType, ghosts
  <2> QED
    BY <1>4, <2>1, <2>3, <2>4, OneServlet DEF servlet_process
<1>5. CASE process_msg_bye(t)
  BY <1>5, DieType DEF process_msg_bye, TypeInv
<1>6. CASE servlet_write(t)
  <2> DEFINE r == [thread[t] EXCEPT !.pc = "free"]
  <2>1. thread' = [thread EXCEPT ![t] = r] /\ thread[t].pc = "write"
    BY <1>0, <1>6 DEF servlet_write, At, Goto
  <2>2. r \in ServletRecord /\ Sound(r)
    BY <1>0, <2>1 DEF ServletRecord, Sound
  <2>3. Scalars' /\ GhostType'
    BY <1>0, <1>6, ServletScalars DEF servlet_write, OpenAfterWrite, GhostType, Use
  <2> QED
    BY <1>6, <2>1, <2>2, <2>3, OneServlet DEF servlet_write
<1>7. CASE servlet_free(t)
  <2>1. Scalars' /\ GhostType'
    <3>1. client' \in [Conn -> {"idle", "waiting", "gone"}]
      BY <1>0, <1>7 DEF servlet_free
    <3> QED
      BY <1>0, <1>7, <3>1, ServletScalars DEF servlet_free, GhostType, Use
  <2> QED
    BY <1>7, <2>1, NoThreadSound, OneServlet DEF servlet_free, NoThread
<1> QED
  BY <1>1, <1>2, <1>3, <1>4, <1>5, <1>6, <1>7 DEF Servlet

LEMMA NextType == TypeInv /\ [Next]_vars => TypeInv'
<1> SUFFICES ASSUME TypeInv, [Next]_vars PROVE TypeInv'
  OBVIOUS
<1>0. Scalars /\ GhostType
  BY DEF TypeInv
<1>1. ASSUME NEW c \in Conn, Connect(c) PROVE TypeInv'
  <2>1. queue' \in Seq(Conn) /\ Len(queue') <= Backlog
    BY <1>0, <1>1, ServerConstants DEF Connect, Scalars
  <2>2. client' \in [Conn -> {"idle", "waiting", "gone"}]
    BY <1>0, <1>1 DEF Connect, Scalars
  <2>3. Scalars' /\ GhostType'
    BY <1>0, <1>1, <2>1, <2>2 DEF Connect, Scalars, GhostType, ghosts
  <2> QED
    BY <1>1, <2>3 DEF Connect, TypeInv
<1>2. ASSUME NEW c \in Conn, Vanish(c) PROVE TypeInv'
  <2>1. client' \in [Conn -> {"idle", "waiting", "gone"}]
    BY <1>0, <1>2 DEF Vanish, Scalars
  <2>2. Scalars' /\ GhostType'
    BY <1>0, <1>2, <2>1 DEF Vanish, Scalars, GhostType, ghosts
  <2> QED
    BY <1>2, <2>2 DEF Vanish, TypeInv
<1>3. CASE StartFails
  BY <1>3, DieType DEF StartFails
<1>4. CASE OpenListener
  <2>1. Scalars' /\ GhostType'
    BY <1>0, <1>4 DEF OpenListener, Scalars, GhostType, ghosts
  <2> QED
    BY <1>4, <2>1 DEF OpenListener, TypeInv
<1>5. CASE Accept
  <2>1. Head(queue) \in Conn /\ Tail(queue) \in Seq(Conn)
        /\ Len(Tail(queue)) <= Backlog
    BY <1>0, <1>5, ServerConstants DEF Accept, Scalars
  <2>2. Scalars' /\ GhostType'
    BY <1>0, <1>5, <2>1 DEF Accept, Scalars, GhostType
  <2> QED
    BY <1>5, <2>1, <2>2, ServerConstants DEF Accept, TypeInv
<1>6. CASE CreateThread
  <2>1. Scalars'
    BY <1>0, <1>6 DEF CreateThread, Scalars
  <2>2. GhostType'
    BY <1>0, <1>6 DEF CreateThread, GhostType
  <2>3. params # None
    BY <1>6 DEF CreateThread, TypeInv
  <2>4. CASE UNCHANGED thread
    BY <1>6, <2>1, <2>2, <2>3, <2>4 DEF CreateThread, TypeInv
  <2>5. ASSUME NEW t \in Thread, At(t, "idle"), Goto(t, "created") PROVE TypeInv'
    <3> DEFINE r == [thread[t] EXCEPT !.pc = "created"]
    <3>0. thread[t] \in ServletRecord /\ Sound(thread[t])
          /\ thread \in [Thread -> ServletRecord]
      BY DEF TypeInv
    <3>1. r \in ServletRecord /\ Sound(r)
      BY <2>5, <3>0 DEF At, ServletRecord, Sound
    <3>2. thread' = [thread EXCEPT ![t] = r]
      BY <2>5, <3>0 DEF Goto
    <3>3. thread' \in [Thread -> ServletRecord]
      BY <3>0, <3>1, <3>2
    <3>4. \A u \in Thread : Sound(thread'[u])
      <4>1. \A u \in Thread : thread'[u] = IF u = t THEN r ELSE thread[u]
        BY <3>0, <3>2
      <4> QED
        BY <3>1, <4>1 DEF TypeInv
    <3> QED
      BY <1>6, <2>1, <2>2, <2>3, <3>3, <3>4 DEF CreateThread, TypeInv
  <2> QED
    BY <1>6, <2>4, <2>5 DEF CreateThread
<1>7. ASSUME NEW t \in Thread, Servlet(t) PROVE TypeInv'
  BY <1>7, ServletType
<1>8. CASE UNCHANGED vars
  <2>1. Scalars' /\ GhostType'
    BY <1>0, <1>8 DEF vars, Scalars, GhostType, ghosts
  <2> QED
    BY <1>8, <2>1 DEF vars, TypeInv
<1> QED
  BY <1>1, <1>2, <1>3, <1>4, <1>5, <1>6, <1>7, <1>8 DEF Next, Serve

-----------------------------------------------------------------------------
(* Ownership *)

LEMMA InitOwner == Init => OwnerInv
  BY DEF Init, OwnerInv, Owned, InQueue, Pending, NoThread

LEMMA DieOwner == ASSUME OwnerInv, Die, UNCHANGED ghosts PROVE OwnerInv'
  BY DEF OwnerInv, Die, ghosts

\* A step that moves one servlet on and keeps what it owns, or releases it.
LEMMA ServletOwned ==
    ASSUME TypeInv, Owned, NEW t \in Thread, NEW r \in ServletRecord,
           thread' = [thread EXCEPT ![t] = r], thread[t].pc # "created",
           r.pc # "created",
           \/ r.ssl = thread[t].ssl /\ open' = open
           \/ r.ssl = None /\ thread[t].ssl # None
              /\ open' = open \ {thread[t].ssl},
           UNCHANGED <<loop, params, queue>>
    PROVE  Owned'
<1>1. \A u \in Thread : thread'[u] = IF u = t THEN r ELSE thread[u]
  BY DEF TypeInv
<1>2. \A c \in open' : ~InQueue(c)'
  BY DEF Owned, InQueue
<1>3. \A u \in Thread : thread'[u].ssl # None => thread'[u].ssl \in open'
  BY <1>1 DEF Owned
<1>4. \A u, v \in Thread :
        thread'[u].ssl = thread'[v].ssl /\ thread'[u].ssl # None => u = v
  BY <1>1 DEF Owned
<1>5. Pending' => Pending
  BY <1>1 DEF Pending
<1>6. Pending' => params' \in open' /\ \A u \in Thread : thread'[u].ssl # params'
  <2> SUFFICES ASSUME Pending'
               PROVE  params' \in open' /\ \A u \in Thread : thread'[u].ssl # params'
    OBVIOUS
  <2>1. params \in open /\ \A u \in Thread : thread[u].ssl # params
    BY <1>5 DEF Owned
  <2>2. params # None
    BY <2>1, ServerConstants DEF TypeInv, Scalars
  <2> QED
    BY <1>1, <2>1, <2>2
<1>7. /\ \A u, v \in Thread :
           thread'[u].pc = "created" /\ thread'[v].pc = "created" => u = v
      /\ loop' = "create" => \A u \in Thread : thread'[u].pc # "created"
  BY <1>1 DEF Owned
<1> QED
  BY <1>2, <1>3, <1>4, <1>6, <1>7 DEF Owned

LEMMA ServletOwner ==
    ASSUME TypeInv, OwnerInv, NEW t \in Thread, Servlet(t)
    PROVE  OwnerInv'
<1>0. /\ Scalars /\ thread[t] \in ServletRecord /\ Sound(thread[t])
      /\ thread \in [Thread -> ServletRecord]
  BY DEF TypeInv
<1>a. CASE overtaken
  BY <1>a DEF OwnerInv, Servlet, call_servlet, servlet_accept, servlet_read,
              servlet_process, process_msg_bye, servlet_write, servlet_free, ghosts
<1>b. CASE ~overtaken /\ ~up
  BY <1>b DEF Servlet, call_servlet, servlet_accept, servlet_read, At,
              servlet_process, process_msg_bye, servlet_write, servlet_free
<1>c. CASE ~overtaken /\ up
  <2>0. ~undefined /\ Owned
    BY <1>c DEF OwnerInv
  <2>1. CASE call_servlet(t)
    <3> DEFINE r == [thread[t] EXCEPT !.ssl = params, !.pc = "handshake"]
    <3>1. /\ thread' = [thread EXCEPT ![t] = r] /\ thread[t].pc = "created"
          /\ UNCHANGED <<up, loop, params, queue, open, ghosts>>
      BY <1>0, <2>1 DEF call_servlet, At
    <3>2. r.ssl = params /\ r.pc = "handshake"
      BY <1>0 DEF ServletRecord
    <3>3. \A u \in Thread : thread'[u] = IF u = t THEN r ELSE thread[u]
      BY <1>0, <3>1
    <3>4. Pending /\ params \in open /\ \A u \in Thread : thread[u].ssl # params
      BY <2>0, <3>1 DEF Pending, Owned
    <3> HIDE DEF r
    <3>5. ~Pending'
      BY <2>0, <3>1, <3>2, <3>3 DEF Pending, Owned
    <3>6. \A c \in open' : ~InQueue(c)'
      BY <2>0, <3>1 DEF Owned, InQueue
    <3>7. \A u \in Thread : thread'[u].ssl # None => thread'[u].ssl \in open'
      BY <2>0, <3>1, <3>2, <3>3, <3>4 DEF Owned
    <3>8. \A u, v \in Thread :
            thread'[u].ssl = thread'[v].ssl /\ thread'[u].ssl # None => u = v
      BY <2>0, <3>2, <3>3, <3>4 DEF Owned
    <3>9. Owned'
      BY <2>0, <3>1, <3>5, <3>6, <3>7, <3>8 DEF Owned, Pending
    <3> QED
      BY <1>c, <2>0, <3>1, <3>9 DEF OwnerInv, ghosts
  <2>2. ASSUME NEW ok \in BOOLEAN, servlet_accept(t, ok) PROVE OwnerInv'
    <3> DEFINE r == [thread[t] EXCEPT !.pc = AfterHandshake(ok)]
    <3>1. /\ thread' = [thread EXCEPT ![t] = r] /\ thread[t].pc = "handshake"
          /\ UNCHANGED <<up, loop, params, queue, open, overtaken>>
      BY <1>0, <2>2 DEF servlet_accept, At, Goto
    <3>2. r \in ServletRecord /\ r.ssl = thread[t].ssl /\ r.pc # "created"
      BY <1>0 DEF ServletRecord, AfterHandshake
    <3>3. Owned'
      BY <2>0, <3>1, <3>2, ServletOwned
    <3>4. ~undefined'
      BY <1>0, <2>0, <2>2, <3>1 DEF servlet_accept, Use, Owned, Sound
    <3> QED
      BY <1>c, <3>1, <3>3, <3>4 DEF OwnerInv
  <2>3. ASSUME NEW ok \in BOOLEAN, servlet_read(t, ok) PROVE OwnerInv'
    <3>1. PICK q \in Request :
            thread' = [thread EXCEPT ![t].pc = AfterRead(ok),
                                     ![t].type = IF ok THEN Dispatched(q) ELSE None]
      BY <2>3 DEF servlet_read
    <3> DEFINE r == [thread[t] EXCEPT !.pc = AfterRead(ok),
                                      !.type = IF ok THEN Dispatched(q) ELSE None]
    <3>2. /\ thread' = [thread EXCEPT ![t] = r] /\ thread[t].pc = "read"
          /\ UNCHANGED <<up, loop, params, queue, open, overtaken>>
      BY <1>0, <2>3, <3>1 DEF servlet_read, At
    <3>3. Dispatched(q) \in AllTypes
      BY ServerConstants DEF Dispatched, Request, AllTypes
    <3>4. r \in ServletRecord /\ r.ssl = thread[t].ssl /\ r.pc # "created"
      BY <1>0, <3>3 DEF ServletRecord, AfterRead
    <3>5. Owned'
      BY <2>0, <3>2, <3>4, ServletOwned
    <3>6. ~undefined'
      BY <1>0, <2>0, <2>3, <3>2 DEF servlet_read, Use, Owned, Sound
    <3> QED
      BY <1>c, <3>2, <3>5, <3>6 DEF OwnerInv
  <2>4. CASE servlet_process(t)
    <3> DEFINE reply == ReplyTo(thread[t].type)
               r == [thread[t] EXCEPT !.reply = reply, !.type = None,
                        !.pc = IF reply = None THEN "free" ELSE "write"]
    <3>1. /\ thread' = [thread EXCEPT ![t] = r] /\ thread[t].pc = "process"
          /\ thread[t].type # "bye"
          /\ UNCHANGED <<up, loop, params, queue, open, ghosts>>
      BY <1>0, <2>4 DEF servlet_process, At
    <3>2. reply \in Reply \cup {None}
      BY <1>0, <3>1 DEF Sound, AllTypes, ReplyTo, Reply
    <3> HIDE DEF reply
    <3>3. r \in ServletRecord /\ r.ssl = thread[t].ssl /\ r.pc # "created"
      BY <1>0, <3>2 DEF ServletRecord
    <3>4. Owned'
      BY <2>0, <3>1, <3>3, ServletOwned
    <3> QED
      BY <1>c, <2>0, <3>1, <3>4 DEF OwnerInv, ghosts
  <2>5. CASE process_msg_bye(t)
    BY <2>5, DieOwner DEF process_msg_bye
  <2>6. CASE servlet_write(t)
    <3> DEFINE r == [thread[t] EXCEPT !.pc = "free"]
    <3>1. /\ thread' = [thread EXCEPT ![t] = r] /\ thread[t].pc = "write"
          /\ UNCHANGED <<up, loop, params, queue, open, overtaken>>
      BY <1>0, <2>6 DEF servlet_write, At, Goto, OpenAfterWrite
    <3>2. r \in ServletRecord /\ r.ssl = thread[t].ssl /\ r.pc # "created"
      BY <1>0 DEF ServletRecord
    <3>3. Owned'
      BY <2>0, <3>1, <3>2, ServletOwned
    <3>4. ~undefined'
      BY <1>0, <2>0, <2>6, <3>1 DEF servlet_write, Use, Owned, Sound
    <3> QED
      BY <1>c, <3>1, <3>3, <3>4 DEF OwnerInv
  <2>7. CASE servlet_free(t)
    <3>1. /\ thread' = [thread EXCEPT ![t] = NoThread] /\ thread[t].pc = "free"
          /\ open' = open \ {thread[t].ssl}
          /\ UNCHANGED <<up, loop, params, queue, overtaken>>
      BY <2>7 DEF servlet_free, At
    <3>2. thread[t].ssl # None /\ NoThread.ssl = None /\ NoThread.pc # "created"
      BY <1>0, <3>1 DEF Sound, NoThread
    <3>3. Owned'
      BY <2>0, <3>1, <3>2, ServletOwned, NoThreadSound
    <3>4. ~undefined'
      BY <2>0, <2>7, <3>2 DEF servlet_free, Use, Owned
    <3> QED
      BY <1>c, <3>1, <3>3, <3>4 DEF OwnerInv
  <2> QED
    BY <2>1, <2>2, <2>3, <2>4, <2>5, <2>6, <2>7 DEF Servlet
<1> QED
  BY <1>a, <1>b, <1>c DEF TypeInv, GhostType, Scalars

LEMMA NextOwner == TypeInv /\ OwnerInv /\ [Next]_vars => OwnerInv'
<1> SUFFICES ASSUME TypeInv, OwnerInv, [Next]_vars PROVE OwnerInv'
  OBVIOUS
<1>0. Scalars /\ queue \in Seq(Conn) /\ thread \in [Thread -> ServletRecord]
  BY DEF TypeInv, Scalars
<1>1. ASSUME NEW c \in Conn, Connect(c) PROVE OwnerInv'
  <2>1. CASE overtaken
    BY <1>1, <2>1 DEF OwnerInv, Connect, ghosts
  <2>2. CASE ~overtaken
    <3>0. /\ up /\ ~undefined /\ Owned /\ queue' = Append(queue, c)
          /\ ~InQueue(c) /\ c \notin open
          /\ UNCHANGED <<up, loop, params, open, thread, undefined, overtaken>>
      BY <1>1, <2>2 DEF OwnerInv, Connect, Busy, InQueue, ghosts
    <3>1. /\ DOMAIN queue' = 1..(Len(queue) + 1) /\ DOMAIN queue = 1..Len(queue)
          /\ \A i \in DOMAIN queue' :
                queue'[i] = IF i <= Len(queue) THEN queue[i] ELSE c
      BY <1>0, <3>0
    <3>2. \A i, j \in DOMAIN queue' : queue'[i] = queue'[j] => i = j
      BY <1>0, <3>0, <3>1 DEF Owned, InQueue
    <3>3. \A d \in open' : ~InQueue(d)'
      BY <1>0, <3>0, <3>1 DEF Owned, InQueue
    <3>4. Owned'
      BY <3>0, <3>2, <3>3 DEF Owned, Pending
    <3> QED
      BY <3>0, <3>4 DEF OwnerInv
  <2> QED
    BY <2>1, <2>2
<1>2. ASSUME NEW c \in Conn, Vanish(c) PROVE OwnerInv'
  <2>1. UNCHANGED <<up, loop, params, queue, open, thread, undefined, overtaken>>
    BY <1>2 DEF Vanish, ghosts
  <2> QED
    BY <2>1 DEF OwnerInv, Owned, InQueue, Pending
<1>3. CASE StartFails
  BY <1>3, DieOwner DEF StartFails
<1>4. CASE OpenListener
  <2>1. /\ loop = "start" /\ loop' = "accept"
        /\ UNCHANGED <<up, params, queue, open, thread, undefined, overtaken>>
    BY <1>4 DEF OpenListener, ghosts
  <2> QED
    BY <2>1 DEF OwnerInv, Owned, InQueue, Pending
<1>5. CASE Accept
  <2>1. CASE overtaken'
    BY <2>1 DEF OwnerInv
  <2>2. CASE ~overtaken'
    <3> DEFINE c == Head(queue)
    <3>0. /\ up /\ up' /\ ~undefined' /\ Owned /\ loop = "accept" /\ loop' = "create"
          /\ queue # <<>> /\ queue' = Tail(queue) /\ open' = open \cup {c}
          /\ params' = c /\ thread' = thread
          /\ \A t \in Thread : thread[t].pc # "created"
      BY <1>5, <2>2 DEF OwnerInv, Accept, At
    <3>1. /\ c = queue[1] /\ 1 \in DOMAIN queue
          /\ DOMAIN queue' = 1..(Len(queue) - 1) /\ DOMAIN queue = 1..Len(queue)
          /\ \A i \in DOMAIN queue' : queue'[i] = queue[i + 1]
      BY <1>0, <3>0
    <3>2. \A i \in DOMAIN queue' : i + 1 \in DOMAIN queue /\ i + 1 # 1
      BY <1>0, <3>1
    <3>3. \A i, j \in DOMAIN queue' : queue'[i] = queue'[j] => i = j
      BY <1>0, <3>0, <3>1, <3>2 DEF Owned
    <3>4. \A d \in open' : ~InQueue(d)'
      BY <3>0, <3>1, <3>2 DEF Owned, InQueue
    <3>5. \A t \in Thread : thread[t].ssl # c
      BY <1>0, <3>0, <3>1, ServerConstants DEF Owned, InQueue
    <3> HIDE DEF c
    <3>6. Owned'
      BY <3>0, <3>3, <3>4, <3>5 DEF Owned, Pending
    <3> QED
      BY <3>0, <3>6 DEF OwnerInv
  <2> QED
    BY <2>1, <2>2
<1>6. CASE CreateThread
  <2>1. CASE overtaken
    BY <1>6, <2>1 DEF OwnerInv, CreateThread
  <2>2. CASE ~overtaken
    <3>0. /\ up /\ ~undefined /\ Owned /\ loop = "create" /\ loop' = "accept"
          /\ UNCHANGED <<up, params, queue, open, undefined, overtaken>>
      BY <1>6, <2>2 DEF OwnerInv, CreateThread
    <3>1. CASE UNCHANGED thread
      <4>1. Owned'
        BY <3>0, <3>1 DEF Owned, InQueue, Pending
      <4> QED
        BY <3>0, <4>1 DEF OwnerInv
    <3>2. ASSUME NEW t \in Thread, At(t, "idle"), Goto(t, "created") PROVE OwnerInv'
      <4>1. \A u \in Thread : /\ thread'[u].ssl = thread[u].ssl
                              /\ thread'[u].pc = IF u = t THEN "created" ELSE thread[u].pc
        BY <1>0, <3>2 DEF Goto, ServletRecord
      <4>2. \A d \in open' : ~InQueue(d)'
        BY <3>0 DEF Owned, InQueue
      <4>3. Owned'
        BY <3>0, <4>1, <4>2 DEF Owned, Pending
      <4> QED
        BY <3>0, <4>3 DEF OwnerInv
    <3> QED
      BY <1>6, <3>1, <3>2 DEF CreateThread
  <2> QED
    BY <2>1, <2>2
<1>7. ASSUME NEW t \in Thread, Servlet(t) PROVE OwnerInv'
  BY <1>7, ServletOwner
<1>8. CASE UNCHANGED vars
  BY <1>8 DEF vars, ghosts, OwnerInv, Owned, InQueue, Pending
<1> QED
  BY <1>1, <1>2, <1>3, <1>4, <1>5, <1>6, <1>7, <1>8 DEF Next, Serve

-----------------------------------------------------------------------------
(* Leaks *)

\* A step of a servlet that has read its parameters and keeps them.
LEMMA ServletKeeps ==
    ASSUME TypeInv, NoneLeaks, NEW t \in Thread, NEW r \in ServletRecord,
           thread' = [thread EXCEPT ![t] = r], thread[t].pc # "created",
           r.ssl = thread[t].ssl,
           UNCHANGED <<loop, params, open, overtaken, starved>>
    PROVE  NoneLeaks'
<1>1. \A u \in Thread : thread'[u] = IF u = t THEN r ELSE thread[u]
  BY DEF TypeInv
<1>2. Pending => Pending'
  BY <1>1 DEF Pending
<1> QED
  BY <1>1, <1>2 DEF NoneLeaks

LEMMA NextLeaks == TypeInv /\ NoneLeaks /\ [Next]_vars => NoneLeaks'
<1> SUFFICES ASSUME TypeInv, NoneLeaks, [Next]_vars PROVE NoneLeaks'
  OBVIOUS
<1>0. Scalars /\ thread \in [Thread -> ServletRecord]
  BY DEF TypeInv, Scalars
<1>1. CASE \E c \in Conn : Connect(c) \/ Vanish(c)
  BY <1>1 DEF Connect, Vanish, ghosts, NoneLeaks, Pending
<1>2. CASE StartFails \/ \E t \in Thread : process_msg_bye(t)
  BY <1>2 DEF StartFails, process_msg_bye, Die, NoneLeaks
<1>3. CASE OpenListener
  BY <1>3 DEF OpenListener, ghosts, NoneLeaks, Pending
<1>4. CASE Accept
  BY <1>4 DEF Accept, At, NoneLeaks, Pending
<1>5. CASE CreateThread
  <2>1. CASE starved'
    BY <2>1 DEF NoneLeaks
  <2>2. CASE ~starved'
    <3>1. PICK t \in Thread : At(t, "idle") /\ Goto(t, "created")
      BY <1>5, <2>2 DEF CreateThread
    <3>2. \A u \in Thread : /\ thread'[u].ssl = thread[u].ssl
                            /\ u = t => thread'[u].pc = "created"
      BY <1>0, <3>1 DEF Goto, ServletRecord
    <3> QED
      BY <1>5, <3>2 DEF CreateThread, NoneLeaks, Pending
  <2> QED
    BY <2>1, <2>2
<1>6. ASSUME NEW t \in Thread, call_servlet(t) PROVE NoneLeaks'
  <2>1. \A u \in Thread :
          thread'[u].ssl = IF u = t THEN params ELSE thread[u].ssl
    BY <1>0, <1>6 DEF call_servlet, ServletRecord
  <2>2. thread[t].ssl = None
    BY <1>6 DEF call_servlet, At, TypeInv, Sound
  <2>3. \A c \in open : c # None
    BY <1>0, ServerConstants DEF Scalars
  <2> QED
    BY <1>6, <2>1, <2>2, <2>3 DEF call_servlet, ghosts, NoneLeaks
<1>7. ASSUME NEW t \in Thread, NEW ok \in BOOLEAN, servlet_accept(t, ok)
      PROVE  NoneLeaks'
  <2>1. [thread[t] EXCEPT !.pc = AfterHandshake(ok)] \in ServletRecord
    BY <1>0 DEF ServletRecord, AfterHandshake
  <2>2. thread' = [thread EXCEPT ![t] = [thread[t] EXCEPT !.pc = AfterHandshake(ok)]]
    BY <1>0, <1>7 DEF servlet_accept, Goto
  <2>3. [thread[t] EXCEPT !.pc = AfterHandshake(ok)].ssl = thread[t].ssl
    BY <1>0 DEF ServletRecord
  <2> QED
    BY <1>7, <2>1, <2>2, <2>3, ServletKeeps DEF servlet_accept, At
<1>8. ASSUME NEW t \in Thread, NEW ok \in BOOLEAN, servlet_read(t, ok)
      PROVE  NoneLeaks'
  <2>1. PICK q \in Request :
          thread' = [thread EXCEPT ![t].pc = AfterRead(ok),
                                   ![t].type = IF ok THEN Dispatched(q) ELSE None]
    BY <1>8 DEF servlet_read
  <2> DEFINE r == [thread[t] EXCEPT !.pc = AfterRead(ok),
                                    !.type = IF ok THEN Dispatched(q) ELSE None]
  <2>2. Dispatched(q) \in AllTypes
    BY ServerConstants DEF Dispatched, Request, AllTypes
  <2>3. r \in ServletRecord /\ r.ssl = thread[t].ssl
    BY <1>0, <2>2 DEF ServletRecord, AfterRead
  <2>4. thread' = [thread EXCEPT ![t] = r]
    BY <1>0, <2>1
  <2> QED
    BY <1>8, <2>3, <2>4, ServletKeeps DEF servlet_read, At
<1>9. ASSUME NEW t \in Thread, servlet_process(t) PROVE NoneLeaks'
  <2> DEFINE reply == ReplyTo(thread[t].type)
             r == [thread[t] EXCEPT !.reply = reply, !.type = None,
                      !.pc = IF reply = None THEN "free" ELSE "write"]
  <2>1. thread' = [thread EXCEPT ![t] = r] /\ thread[t].pc = "process"
        /\ thread[t].type # "bye"
    BY <1>0, <1>9 DEF servlet_process, At
  <2>2. reply \in Reply \cup {None}
    BY <2>1 DEF TypeInv, Sound, AllTypes, ReplyTo, Reply
  <2> HIDE DEF reply
  <2>3. r \in ServletRecord /\ r.ssl = thread[t].ssl
    BY <1>0, <2>2 DEF ServletRecord
  <2> QED
    BY <1>9, <2>1, <2>3, ServletKeeps DEF servlet_process, ghosts
<1>10. ASSUME NEW t \in Thread, servlet_write(t) PROVE NoneLeaks'
  <2>1. [thread[t] EXCEPT !.pc = "free"] \in ServletRecord
        /\ [thread[t] EXCEPT !.pc = "free"].ssl = thread[t].ssl
    BY <1>0 DEF ServletRecord
  <2>2. thread' = [thread EXCEPT ![t] = [thread[t] EXCEPT !.pc = "free"]]
    BY <1>0, <1>10 DEF servlet_write, Goto
  <2> QED
    BY <1>10, <2>1, <2>2, ServletKeeps DEF servlet_write, At, OpenAfterWrite
<1>11. ASSUME NEW t \in Thread, servlet_free(t) PROVE NoneLeaks'
  <2>1. \A u \in Thread : u # t => thread'[u] = thread[u]
    BY <1>0, <1>11 DEF servlet_free
  <2>2. Pending => Pending'
    BY <1>11, <2>1 DEF servlet_free, At, Pending
  <2> QED
    BY <1>11, <2>1, <2>2 DEF servlet_free, NoneLeaks
<1>12. CASE UNCHANGED vars
  BY <1>12 DEF vars, ghosts, NoneLeaks, Pending
<1> QED
  BY <1>1, <1>2, <1>3, <1>4, <1>5, <1>6, <1>7, <1>8, <1>9, <1>10, <1>11, <1>12
     DEF Next, Serve, Servlet

-----------------------------------------------------------------------------
(* The results *)

\* The inductive invariant holds in every state of run_ethanol_server and its
\* servlets, for every number of connections and threads and every backlog.
THEOREM Invariant == Spec => []IInv
<1>1. Init => IInv
  BY InitType, InitOwner DEF IInv, Init, NoneLeaks
<1>2. IInv /\ [Next]_vars => IInv'
  BY NextType, NextOwner, NextLeaks DEF IInv
<1> QED
  BY <1>1, <1>2, PTL DEF Spec

\* Every variable of the server keeps its type; a thread has an SSL object
\* exactly from call_servlet until the end of servlet.
THEOREM TypeCorrect == Spec => []TypeOK
<1>1. IInv => TypeOK
  BY TypeInvTypes DEF IInv
<1> QED
  BY Invariant, <1>1, PTL

\* Connections are mixed up, or used after their release, only if the accept
\* loop replaced params before the thread created last had read it.
THEOREM ServedCorrect == Spec => []ServedOnce
<1>1. IInv => ServedOnce
  BY DEF IInv, OwnerInv, Owned, ServedOnce, ServedByOne, NoThread
<1> QED
  BY Invariant, <1>1, PTL

\* Every connection that accept() returned and that is not closed has a thread
\* that serves it or is about to, whatever fails on the way, unless params was
\* replaced too early or pthread_create failed.
THEOREM NoneLeaksEver == Spec => []NoneLeaks
<1>1. IInv => NoneLeaks
  BY DEF IInv
<1> QED
  BY Invariant, <1>1, PTL

=============================================================================
