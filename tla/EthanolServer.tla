---------------------------- MODULE EthanolServer ----------------------------
(***************************************************************************)
(* The message server of the AP, hostapd-2.6/src/messaging/ssl-server.c:   *)
(* the accept loop of run_ethanol_server, which hands every connection to  *)
(* a thread through one struct servlet_params on its own stack, and the    *)
(* servlet that reads one request, answers it and releases the connection. *)
(*                                                                         *)
(* A connection is also its SSL object.  The clients (controllers, other   *)
(* APs and stations) send one request per connection; they may vanish, and *)
(* the handshake and the read may fail.                                    *)
(***************************************************************************)
EXTENDS Naturals, Sequences, FiniteSets

CONSTANTS Conn,        \* bound: connections at a time
          Thread,      \* bound: the threads pthread_create can provide
          Backlog,     \* listen(sd, 10)
          Type,        \* message types the clients send
          None

\* Messages with a reply of their own, without a reply, and of no known type.
AllTypes == {"hello", "ping", "set_timed_statistics", "bye", "unknown"}

ASSUME ServerConstants ==
    /\ Backlog \in Nat
    /\ Type \subseteq AllTypes
    /\ None \notin Conn

VARIABLES up,         \* the process lives
          loop,       \* "start", "accept" or "create": run_ethanol_server
          params,     \* params.ssl
          queue,      \* connections that accept() has not returned yet
          open,       \* accepted connections not yet released
          thread,     \* servlets: control state, SSL object, message, reply
          client,     \* "idle", "waiting" for the server, or "gone"
          undefined,  \* ghost: a released SSL object has been used
          overtaken,  \* ghost: params was replaced before a thread read it
          starved     \* ghost: pthread_create had no thread to give

ghosts == <<undefined, overtaken, starved>>

vars == <<up, loop, params, queue, open, thread, client, ghosts>>

Request == [type : Type, version_ok : BOOLEAN]

Reply == {"hello", "pong", "ERROR_UNKNOWN"}

NoThread == [pc |-> "idle", ssl |-> None, type |-> None, reply |-> None]

At(t, pc) == up /\ thread[t].pc = pc

Goto(t, pc) == thread' = [thread EXCEPT ![t].pc = pc]

\* The thread uses its SSL object.
Use(t) == undefined' = (undefined \/ thread[t].ssl \notin open)

-----------------------------------------------------------------------------
(* Clients *)

Busy(c) == c \in open \/ \E i \in DOMAIN queue : queue[i] = c

Connect(c) ==
    /\ up /\ loop # "start"
    /\ client[c] = "idle" /\ ~Busy(c)
    /\ Len(queue) < Backlog
    /\ queue' = Append(queue, c)
    /\ client' = [client EXCEPT ![c] = "waiting"]
    /\ UNCHANGED <<up, loop, params, open, thread, ghosts>>

Vanish(c) ==
    /\ client[c] = "waiting"
    /\ client' = [client EXCEPT ![c] = "gone"]
    /\ UNCHANGED <<up, loop, params, queue, open, thread, ghosts>>

-----------------------------------------------------------------------------
(* run_ethanol_server *)

\* The kernel closes the sockets of a process that ends.
Die ==
    /\ up' = FALSE
    /\ open' = {}
    /\ queue' = <<>>
    /\ thread' = [t \in Thread |-> NoThread]
    /\ client' = [c \in Conn |-> "idle"]

\* Not root, no context, no certificate or no port: exit() or abort().
StartFails ==
    /\ up /\ loop = "start"
    /\ Die
    /\ UNCHANGED <<loop, params, ghosts>>

OpenListener ==
    /\ up /\ loop = "start"
    /\ loop' = "accept"
    /\ UNCHANGED <<up, params, queue, open, thread, client, ghosts>>

\* accept(), which is taken to succeed, SSL_new() and the assignments to params.
Accept ==
    /\ up /\ loop = "accept" /\ queue # <<>>
    /\ queue' = Tail(queue)
    /\ open' = open \cup {Head(queue)}
    /\ params' = Head(queue)
    /\ overtaken' = (overtaken \/ \E t \in Thread : At(t, "created"))
    /\ loop' = "create"
    /\ UNCHANGED <<up, thread, client, undefined, starved>>

\* pthread_create(..., call_servlet, &params): its result is not looked at.
CreateThread ==
    /\ up /\ loop = "create"
    /\ loop' = "accept"
    /\ IF \E t \in Thread : At(t, "idle")
       THEN /\ \E t \in Thread : At(t, "idle") /\ Goto(t, "created")
            /\ UNCHANGED starved
       ELSE starved' = TRUE /\ UNCHANGED thread
    /\ UNCHANGED <<up, params, queue, open, client, undefined, overtaken>>

-----------------------------------------------------------------------------
(* call_servlet and servlet *)

\* The thread reads the parameters when it gets to run.
call_servlet(t) ==
    /\ At(t, "created")
    /\ thread' = [thread EXCEPT ![t].ssl = params, ![t].pc = "handshake"]
    /\ UNCHANGED <<up, loop, params, queue, open, client, ghosts>>

\* Mutant: a failed handshake ends the servlet at once.
AfterHandshake_Return(ok) == IF ok THEN "read" ELSE "idle"

AfterHandshake(ok) == IF ok THEN "read" ELSE "free"

servlet_accept(t, ok) ==
    /\ At(t, "handshake")
    /\ ok => client[thread[t].ssl] = "waiting"
    /\ Use(t)
    /\ Goto(t, AfterHandshake(ok))
    /\ UNCHANGED <<up, loop, params, queue, open, client, overtaken, starved>>

\* Mutant: a failed read ends the servlet at once.
AfterRead_Return(ok) == IF ok THEN "process" ELSE "idle"

AfterRead(ok) == IF ok THEN "process" ELSE "free"

\* A request of another version becomes MSG_ERR_TYPE, which has no case.
Dispatched(r) == IF r.version_ok THEN r.type ELSE "unknown"

servlet_read(t, ok) ==
    /\ At(t, "read")
    /\ ok => client[thread[t].ssl] = "waiting"
    /\ Use(t)
    /\ \E r \in Request :
          thread' = [thread EXCEPT
                       ![t].pc = AfterRead(ok),
                       ![t].type = IF ok THEN Dispatched(r) ELSE None]
    /\ UNCHANGED <<up, loop, params, queue, open, client, overtaken, starved>>

\* The reply of the handler of a type; None is an "asynchronous request".
ReplyTo(type) ==
    CASE type = "hello"                -> "hello"
      [] type = "ping"                 -> "pong"
      [] type = "set_timed_statistics" -> None
      [] type = "unknown"              -> "ERROR_UNKNOWN"

\* The case of the message; a reply that is NULL is not written.
servlet_process(t) ==
    LET type == thread[t].type
    IN  /\ At(t, "process")
        /\ type # "bye"
        /\ thread' = [thread EXCEPT
                         ![t].reply = ReplyTo(type), ![t].type = None,
                         ![t].pc = IF ReplyTo(type) = None THEN "free"
                                                           ELSE "write"]
        /\ UNCHANGED <<up, loop, params, queue, open, client, ghosts>>

\* process_msg_bye sets *output to NULL and then decodes the message from it.
process_msg_bye(t) ==
    /\ At(t, "process")
    /\ thread[t].type = "bye"
    /\ Die
    /\ UNCHANGED <<loop, params, ghosts>>

\* Mutant: the connection is released with the reply, and again at the end.
OpenAfterWrite_Released(c) == open \ {c}

OpenAfterWrite(c) == open

servlet_write(t) ==
    LET c == thread[t].ssl
    IN  /\ At(t, "write")
        /\ Use(t)
        /\ open' = OpenAfterWrite(c)
        /\ Goto(t, "free")
        /\ UNCHANGED <<up, loop, params, queue, client, overtaken, starved>>

\* SSL_get_fd, SSL_free, close; the client reads the end of the connection.
servlet_free(t) ==
    /\ At(t, "free")
    /\ Use(t)
    /\ open' = open \ {thread[t].ssl}
    /\ client' = [client EXCEPT ![thread[t].ssl] = "idle"]
    /\ thread' = [thread EXCEPT ![t] = NoThread]
    /\ UNCHANGED <<up, loop, params, queue, overtaken, starved>>

-----------------------------------------------------------------------------
Init ==
    /\ up = TRUE
    /\ loop = "start"
    /\ params = None
    /\ queue = <<>>
    /\ open = {}
    /\ thread = [t \in Thread |-> NoThread]
    /\ client = [c \in Conn |-> "idle"]
    /\ undefined = FALSE /\ overtaken = FALSE /\ starved = FALSE

Servlet(t) ==
    \/ call_servlet(t)
    \/ \E ok \in BOOLEAN : servlet_accept(t, ok) \/ servlet_read(t, ok)
    \/ servlet_process(t)
    \/ process_msg_bye(t)
    \/ servlet_write(t)
    \/ servlet_free(t)

Serve == StartFails \/ OpenListener \/ Accept \/ CreateThread

Next ==
    \/ \E c \in Conn : Connect(c) \/ Vanish(c)
    \/ Serve
    \/ \E t \in Thread : Servlet(t)

Spec == Init /\ [][Next]_vars

\* Threads that can run do.  A client that has gone has closed its connection,
\* so that the read fails; one that stays and says nothing is in Exchange.
FairSpec ==
    Spec /\ WF_vars(Serve) /\ \A t \in Thread : WF_vars(Servlet(t))

-----------------------------------------------------------------------------
(* Properties. *)

\* Every variable keeps its type, and a thread holds an SSL object exactly
\* from the moment it has read its parameters until it ends.
TypeOK ==
    /\ up \in BOOLEAN
    /\ loop \in {"start", "accept", "create"}
    /\ params \in Conn \cup {None}
    /\ queue \in Seq(Conn) /\ Len(queue) <= Backlog
    /\ open \subseteq Conn
    /\ \A t \in Thread :
          /\ thread[t].pc \in {"idle", "created", "handshake", "read",
                               "process", "write", "free"}
          /\ thread[t].ssl \in Conn \cup {None}
          /\ thread[t].pc \in {"idle", "created"} <=> thread[t].ssl = None
          /\ thread[t].reply \in Reply \cup {None}
    /\ client \in [Conn -> {"idle", "waiting", "gone"}]
    /\ {undefined, overtaken, starved} \subseteq BOOLEAN

\* "Serve the connection -- threadable": a connection is served by one
\* thread, and no thread uses a connection that has been released.
ServedByOne ==
    /\ \A t, u \in Thread :
          thread[t].ssl = thread[u].ssl /\ thread[t].ssl # None => t = u
    /\ ~undefined

\* call_servlet: connections are only mixed up when the accept loop replaced
\* params before the thread of the connection before had read it; any other
\* overlap of connections, and a lack of threads, do no harm.
ServedOnce == overtaken \/ ServedByOne

\* Whatever fails on the way, a client is answered or its connection closed,
\* unless params was replaced too early or there was no thread.
ConnectionEnds ==
    \A c \in Conn : Busy(c) ~> ~Busy(c) \/ overtaken \/ starved
=============================================================================
