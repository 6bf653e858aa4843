---------------------------- MODULE MCInterfaces ----------------------------
(* Small instances of Interfaces. *)
EXTENDS Interfaces, TLC

\* The servlet threads are interchangeable.
Threads == Permutations(Thread)

\* Bound: two calls under way, or one and three administrative events, or one
\* and one such event with interfaces that wait or operate without modes.
Bounded ==
    LET calls   == {t \in Thread : thread[t].pc \notin {"idle", "lost"}}
        waiting == {o \in Object :
                      \/ obj[o].st \in {"starting", "failed"}
                      \/ obj[o].st = "up" /\ obj[o].mode # "valid"}
    IN  /\ events <= IF waiting # {} THEN 1 ELSE 3
        /\ calls = Thread => events = 0 /\ waiting = {}

\* The interfaces on the command line.
TwoInterfaces == <<"wlan0", "wlan1">>

OneInterface == <<"wlan0">>
=============================================================================
