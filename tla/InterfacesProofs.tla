--------------------------- MODULE InterfacesProofs ---------------------------
(***************************************************************************)
(* What holds of the interfaces and of the servlets that use them for any  *)
(* number of interfaces, servlets, channels and administrative events.     *)
(*                                                                         *)
(* The invariant has four layers: the types (TypeInv), the table and what  *)
(* the event loop is in the middle of (TableInv), what a call knows of the *)
(* interface it has looked up (CallInv), and the channel and the announced *)
(* switch of an interface (ChanInv, FlagInv).                              *)
(***************************************************************************)
EXTENDS Interfaces, SequenceTheorems, NatLemmas

-----------------------------------------------------------------------------
(* The invariant *)

Pc == {"idle", "lost", "wild", "lookup", "compare", "get", "read", "done",
       "convert", "fill", "restore", "switch", "flag", "force", "reload",
       "flush", "swap"}

Status == {"unused", "noconf", "configured", "starting", "failed", "up",
           "disabled", "freed"}

Field == {"channel", "frequency", "ssid", "phy", "secondary_ch", "mac",
          "vht_chwidth"}

Tuned == Channel \cup {0}

ObjType ==
    [name : Name \cup {"none"}, st : Status, mode : {"none", "valid", "freed"},
     chan : Tuned, freq : Tuned, csa : BOOLEAN, cs : Tuned, drv : Tuned,
     file : BOOLEAN, odd : SUBSET {"channel", "switch"}]

CallType ==
    [pc : Pc, op : Request \cup {"none"}, name : Named \cup {"none"},
     arg : Asked \cup {0}, i : 0..MaxObject, wiphy : -1..(MaxObject - 1),
     todo : Seq(Field), at : Object \cup {Null},
     conf : {"none", "held", "freed"}, old : Tuned, ret : {-1, 0},
     during : SUBSET {"remove", "end", "reload"}, other : BOOLEAN]

TypeInv ==
    /\ phase \in {"setup", "run", "out", "exit"}
    /\ next \in 1..(MaxObject + 1) /\ toe \in 0..MaxObject
    /\ daemonize \in BOOLEAN /\ events \in 0..MaxEvents
    /\ slots \in Seq(Object \cup {Null})
    /\ count \in 0..Len(slots) /\ count <= MaxObject
    /\ obj \in [Object -> ObjType]
    /\ thread \in [Thread -> CallType]

\* What the event loop is in the middle of.
BusyInv ==
    \/ busy = <<>>
    \/ \E o \in Object : /\ busy = <<"add", o>> /\ phase = "run"
                         /\ 1 <= count /\ slots[count] = o
                         /\ obj[o].st = "noconf"
    \/ \E i \in 1..count : /\ busy = <<"remove", i>> /\ phase = "run"
                           /\ obj[slots[i]].st = "freed"

\* The loops of main() stay within the table.
MainInv ==
    /\ phase = "setup" => /\ next <= count + 1 /\ count + 1 <= toe + next
                          /\ busy = <<>>
    /\ phase = "run" => next = 1
    /\ phase = "out" => next <= count + 1

\* The entries up to count are the interfaces that exist, each of them once;
\* the others are stale.  New interfaces are taken in order.
TableInv ==
    /\ \A i \in 1..Len(slots) :
          slots[i] \in Object => obj[slots[i]].st # "unused"
    /\ \A i \in 1..count : slots[i] \in Object
    /\ \A i, j \in 1..count : slots[i] = slots[j] => i = j
    /\ \A o \in Object : obj[o].st = "unused" => count < o
    /\ \A o \in Object :
          obj[o].st \notin {"unused", "freed"} => \E i \in 1..count : slots[i] = o
    /\ \A o \in Object : obj[o].st = "noconf" => busy = <<"add", o>>
    /\ \A i \in 1..count :
          obj[slots[i]].st = "freed"
             => phase \in {"out", "exit"} \/ busy = <<"remove", i>>
    /\ BusyInv
    /\ MainInv

Setting == {"convert", "fill", "restore", "switch", "flag", "force", "reload",
            "flush", "swap"}

Holding == {"compare", "read", "restore", "switch", "flag", "flush", "swap"}

Running == Pc \ {"idle", "lost", "wild", "done"}

\* The interface that a call holds exists, or its removal has been noticed.
Holds(r) ==
    r.pc \in Holding =>
      /\ r.at \in Object /\ obj[r.at].st # "unused"
      /\ obj[r.at].st = "noconf" =>
           /\ r.pc = "read" /\ Head(r.todo) \notin InConf \cup InBss
           /\ "remove" \in r.during
      /\ obj[r.at].st = "freed" => "remove" \in r.during \/ "end" \in r.during

\* Without a removal the index of a call means the interface it asked for.
Knows(r) ==
    r.pc \in Running /\ "remove" \notin r.during =>
      /\ 0 <= r.wiphy => /\ r.wiphy + 1 <= count
                         /\ obj[slots[r.wiphy + 1]].name = r.name
                         /\ obj[slots[r.wiphy + 1]].st # "noconf"
      /\ r.pc = "compare" => r.i + 1 <= count /\ slots[r.i + 1] = r.at
      /\ r.pc = "read" => obj[r.at].name = r.name

Locals(r) ==
    /\ r.pc = "idle" => r.conf = "none"
    /\ r.conf = "freed" => "reload" \in r.during
    /\ r.pc \in Setting => r.op \in Setters
    /\ r.pc \in {"restore", "switch", "flag", "reload", "flush", "swap"} =>
         r.arg \in Channel
    /\ r.pc = "reload" => 0 <= r.wiphy
    /\ r.pc = "compare" => r.i < MaxObject
    /\ r.pc = "read" => r.todo # <<>>
    /\ r.other => "remove" \in r.during
    /\ r.pc = "wild" => wild # "no"

CallInv ==
    \A t \in Thread : Locals(thread[t]) /\ Holds(thread[t]) /\ Knows(thread[t])

Fills(t, o) == thread[t].pc = "restore" /\ thread[t].at = o

\* Unless two writers have met, one call at most has put its channel into the
\* configuration of an interface, and it has kept the channel of the radio.
ChanInv ==
    \A o \in Object :
       obj[o].st # "freed" /\ "channel" \notin obj[o].odd =>
          /\ \A t, u \in Thread : Fills(t, o) /\ Fills(u, o) => t = u
          /\ obj[o].st = "up" /\ obj[o].freq # 0 =>
               /\ \A t \in Thread : Fills(t, o) => thread[t].old = obj[o].freq
               /\ (\A t \in Thread : ~Fills(t, o)) => obj[o].chan = obj[o].freq

\* A switch that has been announced is the one the driver is to make.
FlagInv ==
    \A o \in Object :
       obj[o].csa /\ "switch" \notin obj[o].odd
          => obj[o].drv = obj[o].cs /\ obj[o].drv # 0

-----------------------------------------------------------------------------
(* What the accesses of a call can meet *)

Kinds == {"outside", "null", "freed", "noconf", "conf", "nomode", "mode",
          "driver", "moved", "station"}

\* An interface that exists is in the table.
LEMMA InTheTable ==
    ASSUME TypeInv, TableInv, NEW o \in Object,
           obj[o].st \notin {"unused", "freed"}
    PROVE  o \in Table
<1>1. PICK i \in 1..count : slots[i] = o
  BY DEF TableInv
<1>2. QED
  BY <1>1 DEF Table

LEMMA SlotFacts ==
    ASSUME TypeInv, TableInv, NEW w \in Nat
    PROVE  /\ SlotAt(w) \in Object \cup {Null, -1}
           /\ SlotAt(w) \in Object => obj[SlotAt(w)].st # "unused"
           /\ w < count => SlotAt(w) = slots[w + 1] /\ SlotAt(w) \in Object
<1>1. CASE w + 1 <= Len(slots)
  <2>1. w + 1 \in 1..Len(slots) /\ Len(slots) \in Nat /\ count \in Nat
    BY <1>1 DEF TypeInv
  <2>2. SlotAt(w) = slots[w + 1]
    BY <1>1 DEF SlotAt
  <2>3. slots[w + 1] \in Object \cup {Null}
    BY <2>1 DEF TypeInv
  <2>4. slots[w + 1] \in Object => obj[slots[w + 1]].st # "unused"
    BY <2>1 DEF TableInv
  <2>5. w < count => slots[w + 1] \in Object
    <3>1. ASSUME w < count PROVE w + 1 \in 1..count
      BY <3>1, <2>1
    <3>2. QED
      BY <3>1 DEF TableInv
  <2>6. QED
    BY <2>2, <2>3, <2>4, <2>5
<1>2. CASE ~(w + 1 <= Len(slots))
  <2>1. SlotAt(w) = -1
    BY <1>2 DEF SlotAt
  <2>2. -1 \notin Object
    BY DEF Object
  <2>3. ~(w < count)
    BY <1>2 DEF TypeInv
  <2>4. QED
    BY <2>1, <2>2, <2>3
<1>3. QED
  BY <1>1, <1>2

LEMMA NotObjects == Null \notin Object /\ -1 \notin Object /\ Null # -1
BY DEF Null, Object

LEMMA WildFacts ==
    ASSUME TypeInv, NEW o \in Object \cup {Null, -1}, NEW f
    PROVE  /\ Wild(o, f) \in Kinds \cup {"no"}
           /\ Wild(o, f) = "no" => /\ o \in Object /\ obj[o].st # "freed"
                                   /\ f \in InConf \cup InBss =>
                                        obj[o].st # "noconf"
                                   /\ f = "mode" => obj[o].mode = "valid"
           /\ Wild(o, f) = "outside" => o = -1
           /\ Wild(o, f) = "null" => o = Null
           /\ Wild(o, f) = "freed" => o \in Object /\ obj[o].st = "freed"
           /\ Wild(o, f) \in {"noconf", "nomode", "mode"} =>
                o \in Object /\ obj[o].st # "freed"
           /\ Wild(o, f) = "noconf" =>
                obj[o].st = "noconf" /\ f \in InConf \cup InBss
           /\ Wild(o, f) = "nomode" => f = "mode" /\ obj[o].mode = "none"
           /\ Wild(o, f) = "mode" => f = "mode" /\ obj[o].mode = "freed"
           /\ Wild(o, f) \notin {"conf", "driver", "moved", "station"}
<1>1. o \in Object => obj[o].mode \in {"none", "valid", "freed"}
  BY DEF TypeInv, ObjType
<1>2. QED
  BY <1>1, NotObjects DEF Wild, Kinds

LEMMA CallFields ==
    ASSUME NEW r \in CallType
    PROVE  /\ r.pc \in Pc /\ r.op \in Request \cup {"none"}
           /\ r.name \in Named \cup {"none"} /\ r.arg \in Asked \cup {0}
           /\ r.i \in 0..MaxObject /\ r.wiphy \in -1..(MaxObject - 1)
           /\ r.todo \in Seq(Field) /\ r.at \in Object \cup {Null}
           /\ r.conf \in {"none", "held", "freed"} /\ r.old \in Tuned
           /\ r.ret \in {-1, 0} /\ r.other \in BOOLEAN
           /\ r.during \in SUBSET {"remove", "end", "reload"}
BY DEF CallType

LEMMA ObjFields ==
    ASSUME NEW r \in ObjType
    PROVE  /\ r.name \in Name \cup {"none"} /\ r.st \in Status
           /\ r.mode \in {"none", "valid", "freed"}
           /\ r.chan \in Tuned /\ r.freq \in Tuned /\ r.csa \in BOOLEAN
           /\ r.cs \in Tuned /\ r.drv \in Tuned /\ r.file \in BOOLEAN
           /\ r.odd \in SUBSET {"channel", "switch"}
BY DEF ObjType

\* An access through the index of a call goes wrong for a known reason.
LEMMA SlotCause ==
    ASSUME TypeInv, TableInv, CallInv, Alive, NEW t \in Thread,
           thread[t].pc \in Running, NEW w \in Nat,
           w < count \/ w = thread[t].wiphy, NEW f,
           f = "mode" => thread[t].op \in Setters,
           Wild(SlotAt(w), f) # "no"
    PROVE  /\ Wild(SlotAt(w), f) \in Kinds
           /\ Cause(t)[Wild(SlotAt(w), f)]
<1> DEFINE o == SlotAt(w)
           k == Wild(o, f)
           removed == "remove" \in thread[t].during
<1>1. /\ o \in Object \cup {Null, -1}
      /\ o \in Object => obj[o].st # "unused"
      /\ w < count => o = slots[w + 1] /\ o \in Object
  BY SlotFacts
<1>2. /\ k \in Kinds \ {"conf", "driver", "moved", "station"}
      /\ k = "outside" => o = -1
      /\ k = "null" => o = Null
      /\ k = "freed" => o \in Object /\ obj[o].st = "freed"
      /\ k \in {"noconf", "nomode", "mode"} =>
                o \in Object /\ obj[o].st # "freed"
      /\ k = "noconf" => obj[o].st = "noconf"
      /\ k = "nomode" => f = "mode" /\ obj[o].mode = "none"
      /\ k = "mode" => f = "mode" /\ obj[o].mode = "freed"
  BY <1>1, WildFacts
<1>3. w < count \/ removed
  <2>1. SUFFICES ASSUME ~removed, w = thread[t].wiphy
                 PROVE  w < count
    OBVIOUS
  <2>2. Knows(thread[t])
    BY DEF CallInv
  <2>3. w + 1 <= count /\ count \in Nat
    BY <2>1, <2>2 DEF Knows, TypeInv
  <2>4. QED
    BY <2>3
<1> HIDE DEF o, k
<1>4. CASE k = "outside" \/ k = "null"
  <2>1. removed
    BY <1>1, <1>2, <1>3, <1>4, NotObjects
  <2>2. Cause(t).outside /\ Cause(t).null
    BY <2>1 DEF Cause
  <2>3. QED
    BY <1>4, <2>2, <1>2 DEF k, o
<1>5. CASE k = "freed"
  <2>1. removed \/ phase = "out" \/ (busy # <<>> /\ busy[1] = "remove")
    <3>1. SUFFICES ASSUME w < count
                   PROVE  phase = "out" \/ (busy # <<>> /\ busy[1] = "remove")
      BY <1>3
    <3>2. obj[slots[w + 1]].st = "freed" /\ w + 1 \in 1..count
      BY <3>1, <1>1, <1>2, <1>5 DEF TypeInv
    <3>3. phase \in {"out", "exit"} \/ busy = <<"remove", w + 1>>
      BY <3>2 DEF TableInv
    <3>4. QED
      BY <3>3 DEF Alive
  <2>2. Cause(t).freed
    BY <2>1 DEF Cause
  <2>3. QED
    BY <1>5, <2>2, <1>2 DEF k, o
<1>6. CASE k = "noconf"
  <2>1. busy = <<"add", o>>
    BY <1>2, <1>6 DEF TableInv
  <2>2. Cause(t).noconf
    BY <2>1 DEF Cause
  <2>3. QED
    BY <1>6, <2>2, <1>2 DEF k, o
<1>7. CASE k = "nomode" \/ k = "mode"
  <2>1. o \in Table
    BY <1>1, <1>2, <1>7, InTheTable
  <2>3. thread[t].op \in Setters
    BY <1>2, <1>7
  <2>4. k = "nomode" => Cause(t).nomode
    BY <2>1, <2>3, <1>2 DEF Cause
  <2>5. k = "mode" => Cause(t).mode
    BY <2>1, <2>3, <1>2 DEF Cause
  <2>6. QED
    BY <1>7, <2>4, <2>5, <1>2 DEF k, o
<1>8. QED
  BY <1>2, <1>4, <1>5, <1>6, <1>7 DEF Kinds

\* So does an access to what a call holds.
LEMMA HeldCause ==
    ASSUME TypeInv, TableInv, CallInv, NEW t \in Thread,
           thread[t].pc \in Holding, NEW f,
           thread[t].pc # "read" => f \in InConf \cup InBss,
           thread[t].pc = "read" => f = Head(thread[t].todo), f # "mode"
    PROVE  /\ thread[t].at \in Object
           /\ Wild(thread[t].at, f) \in {"no", "freed"}
           /\ Wild(thread[t].at, f) = "no" => obj[thread[t].at].st # "freed"
           /\ WildHeld(t, f) = "no" => Wild(thread[t].at, f) = "no"
           /\ Wild(thread[t].at, f) = "freed" =>
                obj[thread[t].at].st = "freed" /\ Cause(t)["freed"]
           /\ WildHeld(t, f) # "no" =>
                WildHeld(t, f) \in Kinds /\ Cause(t)[WildHeld(t, f)]
<1> DEFINE r == thread[t]
           o == thread[t].at
<1>1. Holds(r) /\ Locals(r)
  BY DEF CallInv
<1>2. /\ o \in Object
      /\ obj[o].st = "noconf" => f \notin InConf \cup InBss
      /\ obj[o].st = "freed" => "remove" \in r.during \/ "end" \in r.during
  BY <1>1 DEF Holds
<1>3. /\ Wild(o, f) \in {"no", "freed"}
      /\ Wild(o, f) = "freed" => obj[o].st = "freed"
      /\ Wild(o, f) = "no" => obj[o].st # "freed"
  BY <1>2, WildFacts, NotObjects DEF Kinds
<1>4. ASSUME obj[o].st = "freed" PROVE Cause(t).freed
  BY <1>4, <1>2 DEF Cause
<1>5. ASSUME r.conf = "freed" PROVE Cause(t).conf
  BY <1>5, <1>1 DEF Cause, Locals
<1>6. WildHeld(t, f) \in {"no", "freed", "conf"}
      /\ (WildHeld(t, f) = "freed" => obj[o].st = "freed")
      /\ (WildHeld(t, f) = "conf" => r.conf = "freed")
      /\ (WildHeld(t, f) = "no" => Wild(o, f) = "no")
  BY <1>3 DEF WildHeld
<1>7. QED
  BY <1>2, <1>3, <1>4, <1>5, <1>6 DEF Kinds

-----------------------------------------------------------------------------
(* The steps of a call *)

\* A record that a call may go on with.
Sound(r) ==
    /\ r \in CallType /\ r.pc # "wild"
    /\ Locals(r) /\ Holds(r) /\ Knows(r)

\* A step that changes the call only, ...
Moves(t) ==
    /\ thread[t].pc # "restore"
    /\ \E r : To(t, r) /\ Sound(r) /\ r.pc # "restore"

\* ... one that ends the process, ...
Fails(t) ==
    /\ thread[t].pc \in Running
    /\ thread[t].pc = "restore" => obj[thread[t].at].st = "freed"
    /\ \E k \in Kinds : Crash(t, k) /\ Cause(t)[k]

FlagSound(q) == q.csa /\ "switch" \notin q.odd => q.drv = q.cs /\ q.drv # 0

\* How a write changes the channel: it is put in, put back, forced, or kept.
ChanWrite(t, r, o, q) ==
    \/ /\ thread[t].pc # "restore" /\ r.pc = "restore"
       /\ r.at = o /\ r.old = obj[o].chan
       /\ "channel" \notin q.odd => "channel" \notin obj[o].odd /\ ~Filling(o)
    \/ /\ thread[t].pc = "restore" /\ thread[t].at = o /\ r.pc # "restore"
       /\ q.chan = thread[t].old
       /\ "channel" \notin q.odd => "channel" \notin obj[o].odd
    \/ /\ thread[t].pc # "restore" /\ r.pc # "restore"
       /\ "channel" \notin q.odd =>
            "channel" \notin obj[o].odd /\ q.chan = obj[o].chan

\* ... and one that also changes an interface.
Writes(t) ==
    \E r, q : \E o \in Object :
       /\ Write(t, r, o, q) /\ Sound(r)
       /\ q \in ObjType /\ obj[o].st # "freed"
       /\ q.name = obj[o].name /\ q.st = obj[o].st /\ q.mode = obj[o].mode
       /\ q.freq = obj[o].freq
       /\ FlagSound(q) /\ ChanWrite(t, r, o, q)

Inv == TypeInv /\ TableInv /\ CallInv /\ ChanInv /\ FlagInv

LEMMA CallOf ==
    ASSUME Inv, NEW t \in Thread
    PROVE  /\ thread[t] \in CallType /\ Locals(thread[t])
           /\ Holds(thread[t]) /\ Knows(thread[t])
           /\ TypeInv /\ TableInv /\ CallInv
BY DEF Inv, TypeInv, CallInv

LEMMA DoneSound ==
    ASSUME Inv, NEW t \in Thread, NEW ret \in {-1, 0}
    PROVE  Sound(Done(t, ret)) /\ Done(t, ret).pc = "done"
<1> DEFINE r == Done(t, ret)
<1>1. thread[t] \in CallType
  BY CallOf
<1>2. /\ thread[t].op \in Request \cup {"none"}
      /\ thread[t].arg \in Asked \cup {0}
      /\ thread[t].wiphy \in -1..(MaxObject - 1)
      /\ thread[t].at \in Object \cup {Null}
  BY <1>1, CallFields
<1>4. 0 \in 0..MaxObject /\ 0 \in Tuned /\ <<>> \in Seq(Field)
  BY InterfacesConstants DEF Tuned
<1>5. r \in CallType
  BY <1>2, <1>4 DEF CallType, Pc, Done, IdleThread
<1>6. /\ r.pc = "done" /\ r.conf = "none" /\ r.other = FALSE
  BY DEF Done, IdleThread
<1>7. Locals(r)
  BY <1>6 DEF Locals, Setting
<1>8. Holds(r) /\ Knows(r)
  BY <1>6 DEF Holds, Knows, Holding, Running, Pc
<1>9. QED
  BY <1>5, <1>6, <1>7, <1>8 DEF Sound

\* What get_wiphy has found.
LEMMA FoundSound ==
    ASSUME Inv, NEW t \in Thread, thread[t].pc \in {"lookup", "compare"},
           NEW w \in -1..(MaxObject - 1),
           0 <= w /\ "remove" \notin thread[t].during =>
              /\ w + 1 <= count
              /\ obj[slots[w + 1]].name = thread[t].name
              /\ obj[slots[w + 1]].st # "noconf"
    PROVE  Sound(Found(t, w)) /\ Found(t, w).pc # "restore"
<1> DEFINE r == Found(t, w)
           c == thread[t]
<1>1. c \in CallType /\ Locals(c)
  BY CallOf
<1>2. 0 \in 0..MaxObject
  BY InterfacesConstants
<1>3. Handler(c.op) \in {"convert", "fill", "get"}
      /\ (Handler(c.op) # "get" => c.op \in Setters)
  BY DEF Handler, Setters
<1>4. /\ r.pc = Handler(c.op) /\ r.wiphy = w /\ r.at = Null
      /\ r.conf = "none" /\ r.op = c.op /\ r.name = c.name
      /\ r.during = c.during /\ r.other = c.other /\ r.i = 0
  BY <1>1 DEF Found, CallType
<1>5. r \in CallType
  BY <1>1, <1>2, <1>3 DEF Found, CallType, Pc
<1> HIDE DEF r
<1>6. Locals(r)
  BY <1>1, <1>3, <1>4 DEF Locals, Setting
<1>7. Holds(r)
  BY <1>3, <1>4 DEF Holds, Holding
<1>8. Knows(r)
  BY <1>3, <1>4 DEF Knows
<1>9. QED
  BY <1>3, <1>4, <1>5, <1>6, <1>7, <1>8 DEF Sound, r

LEMMA GetWiphyStep ==
    ASSUME Inv, NEW t \in Thread, get_wiphy(t)
    PROVE  Moves(t) \/ Fails(t)
<1> DEFINE c == thread[t]
           o == SlotAt(c.i)
           k == Wild(o, "name")
           r == [c EXCEPT !.pc = "compare", !.at = o, !.conf = "held"]
<1>1. /\ Alive /\ c.pc = "lookup" /\ c \in CallType /\ Locals(c)
      /\ TypeInv /\ TableInv /\ CallInv
  BY CallOf DEF get_wiphy, ThreadAt
<1>2. c.i \in Nat /\ c.i \in 0..MaxObject /\ count \in Nat /\ count <= MaxObject
      /\ MaxObject \in Nat
  BY <1>1, CallFields, InterfacesConstants DEF TypeInv
<1>3. c.pc \in Running
  BY <1>1 DEF Running, Pc
<1>4. CASE c.i >= count
  <2>1. To(t, Found(t, -1))
    BY <1>4 DEF get_wiphy
  <2>2. Sound(Found(t, -1)) /\ Found(t, -1).pc # "restore"
    BY <1>1, <1>2, FoundSound
  <2>3. QED
    BY <1>1, <2>1, <2>2 DEF Moves
<1>5. CASE ~(c.i >= count) /\ k # "no"
  <2>1. Crash(t, k)
    BY <1>5 DEF get_wiphy
  <2>2. k \in Kinds /\ Cause(t)[k]
    BY <1>1, <1>2, <1>3, <1>5, SlotCause
  <2>3. QED
    BY <1>1, <1>3, <2>1, <2>2 DEF Fails
<1>6. CASE ~(c.i >= count) /\ k = "no"
  <2>1. To(t, r)
    BY <1>6 DEF get_wiphy
  <2>2. c.i < count
    BY <1>2, <1>6
  <2>3. o = slots[c.i + 1] /\ o \in Object /\ obj[o].st # "unused"
    BY <1>1, <1>2, <2>2, SlotFacts
  <2>4. obj[o].st # "freed" /\ obj[o].st # "noconf"
    BY <1>1, <1>6, <2>3, WildFacts DEF InConf
  <2> HIDE DEF o
  <2>5. /\ r \in CallType /\ r.pc = "compare" /\ r.at = o /\ r.conf = "held"
        /\ r.during = c.during /\ r.other = c.other /\ r.i = c.i
        /\ r.wiphy = c.wiphy /\ r.name = c.name
    BY <1>1, <2>3 DEF CallType, Pc
  <2> HIDE DEF r
  <2>6. Locals(r)
    BY <1>1, <1>2, <2>2, <2>5 DEF Locals, Setting
  <2>7. Holds(r)
    BY <2>3, <2>4, <2>5 DEF Holds, Holding
  <2>8. Knows(c)
    BY CallOf
  <2>9. Knows(r)
    BY <1>2, <1>3, <2>2, <2>3, <2>5, <2>8 DEF Knows
  <2>10. QED
    BY <1>1, <2>1, <2>5, <2>6, <2>7, <2>9 DEF Moves, Sound
<1>7. QED
  BY <1>4, <1>5, <1>6

LEMMA CompareStep ==
    ASSUME Inv, NEW t \in Thread, get_wiphy_compare(t)
    PROVE  Moves(t) \/ Fails(t)
<1> DEFINE c == thread[t]
           k == WildHeld(t, "name")
           r == [c EXCEPT !.pc = "lookup", !.at = Null, !.conf = "none",
                          !.i = @ + 1]
<1>1. /\ Alive /\ c.pc = "compare" /\ c \in CallType /\ Locals(c)
      /\ Holds(c) /\ Knows(c)
      /\ TypeInv /\ TableInv /\ CallInv
  BY CallOf DEF get_wiphy_compare, ThreadAt
<1>2. c.i \in 0..(MaxObject - 1) /\ MaxObject \in Nat
  BY <1>1, CallFields, InterfacesConstants DEF Locals
<1>3. c.pc \in Running /\ c.pc \in Holding
  BY <1>1 DEF Running, Pc, Holding
<1>4. c.at \in Object /\ (k # "no" => k \in Kinds /\ Cause(t)[k])
  BY <1>1, <1>3, HeldCause DEF InConf
<1>5. CASE k # "no"
  <2>1. Crash(t, k)
    BY <1>5 DEF get_wiphy_compare
  <2>2. QED
    BY <1>1, <1>3, <1>4, <1>5, <2>1 DEF Fails
<1>6. CASE k = "no" /\ ~Other(t, c.at)
  <2>1. To(t, Found(t, c.i))
    BY <1>6 DEF get_wiphy_compare
  <2>2. obj[c.at].name = c.name
    BY <1>6 DEF Other
  <2>3. ASSUME "remove" \notin c.during
        PROVE  /\ c.i + 1 <= count /\ slots[c.i + 1] = c.at
               /\ obj[c.at].st # "noconf"
    BY <1>1, <1>3, <2>3 DEF Knows, Holds
  <2>4. Sound(Found(t, c.i)) /\ Found(t, c.i).pc # "restore"
    BY <1>1, <1>2, <2>2, <2>3, FoundSound
  <2>5. QED
    BY <1>1, <2>1, <2>4 DEF Moves
<1>7. CASE k = "no" /\ Other(t, c.at)
  <2>1. To(t, r)
    BY <1>7 DEF get_wiphy_compare
  <2> DEFINE i1 == c.i + 1
  <2>a. i1 \in 0..MaxObject /\ r = [c EXCEPT !.pc = "lookup", !.at = Null,
                                            !.conf = "none", !.i = i1]
    BY <1>2
  <2> HIDE DEF i1
  <2>2. /\ r \in CallType /\ r.pc = "lookup" /\ r.conf = "none"
        /\ r.during = c.during /\ r.other = c.other
        /\ r.wiphy = c.wiphy /\ r.name = c.name
    BY <1>1, <2>a DEF CallType, Pc
  <2> HIDE DEF r
  <2>3. Locals(r)
    BY <1>1, <2>2 DEF Locals, Setting
  <2>4. Holds(r)
    BY <2>2 DEF Holds, Holding
  <2>5. Knows(r)
    BY <1>1, <1>3, <2>2 DEF Knows
  <2>6. QED
    BY <1>1, <2>1, <2>2, <2>3, <2>4, <2>5 DEF Moves, Sound
<1>8. QED
  BY <1>5, <1>6, <1>7

LEMMA TodoFacts ==
    ASSUME NEW s \in Seq(Field), s # <<>>
    PROVE  Head(s) \in Field /\ Tail(s) \in Seq(Field) /\ Head(s) # "mode"
<1>1. Head(s) \in Field /\ Tail(s) \in Seq(Field)
  BY HeadTailProperties
<1>2. QED
  BY <1>1 DEF Field

LEMMA FetchStep ==
    ASSUME Inv, NEW t \in Thread, Fetch(t)
    PROVE  Moves(t) \/ Fails(t)
<1> DEFINE c == thread[t]
           o == SlotAt(c.wiphy)
           f == Head(c.todo)
           k == Wild(o, f)
           rest == IF c.op = "MSG_GET_AP_SSID" /\ f = "ssid" THEN <<>>
                   ELSE Tail(c.todo)
           held == IF f \in InConf THEN "held" ELSE "none"
           r1 == [c EXCEPT !.todo = rest]
           r2 == [c EXCEPT !.pc = "read", !.at = o, !.conf = held]
<1>1. /\ Alive /\ c.pc = "get" /\ c \in CallType /\ Locals(c)
      /\ Holds(c) /\ Knows(c)
      /\ TypeInv /\ TableInv /\ CallInv
  BY CallOf DEF Fetch, ThreadAt
<1>2. /\ c.wiphy \in -1..(MaxObject - 1) /\ count \in Nat
      /\ MaxObject \in Nat /\ c.todo \in Seq(Field)
  BY <1>1, CallFields, InterfacesConstants DEF TypeInv
<1>3. c.pc \in Running
  BY <1>1 DEF Running, Pc
<1>4. CASE c.todo = <<>>
  <2>1. To(t, Done(t, 0))
    BY <1>4 DEF Fetch
  <2>2. Sound(Done(t, 0)) /\ Done(t, 0).pc # "restore"
    BY DoneSound
  <2>3. QED
    BY <1>1, <2>1, <2>2 DEF Moves
<1>5. CASE c.todo # <<>> /\ ~InTable(c.wiphy)
  <2>1. To(t, r1)
    BY <1>5 DEF Fetch
  <2>2. rest \in Seq(Field)
    BY <1>2, <1>5, TodoFacts
  <2> HIDE DEF rest
  <2>3. /\ r1 \in CallType /\ r1.pc = "get" /\ r1.conf = c.conf
        /\ r1.during = c.during /\ r1.other = c.other
        /\ r1.wiphy = c.wiphy /\ r1.name = c.name
    BY <1>1, <2>2 DEF CallType
  <2> HIDE DEF r1
  <2>4. Locals(r1)
    BY <1>1, <2>3 DEF Locals, Setting
  <2>5. Holds(r1)
    BY <2>3 DEF Holds, Holding
  <2>6. Knows(r1)
    BY <1>1, <1>3, <2>3 DEF Knows
  <2>7. QED
    BY <1>1, <2>1, <2>3, <2>4, <2>5, <2>6 DEF Moves, Sound
<1>6. CASE c.todo # <<>> /\ InTable(c.wiphy)
  <2>1. c.wiphy \in Nat
    BY <1>2, <1>6 DEF InTable
  <2>2. f \in Field /\ f # "mode"
    BY <1>2, <1>6, TodoFacts
  <2>3. /\ o \in Object \cup {Null, -1}
        /\ o \in Object => obj[o].st # "unused"
        /\ c.wiphy < count => o = slots[c.wiphy + 1] /\ o \in Object
    BY <1>1, <2>1, SlotFacts
  <2>4. CASE k # "no"
    <3>1. Crash(t, k)
      BY <1>6, <2>4 DEF Fetch
    <3>2. k \in Kinds /\ Cause(t)[k]
      BY <1>1, <1>3, <2>1, <2>2, <2>4, SlotCause
    <3>3. QED
      BY <1>1, <1>3, <3>1, <3>2 DEF Fails
  <2>5. CASE k = "no"
    <3>1. To(t, r2)
      BY <1>6, <2>5 DEF Fetch
    <3>2. /\ o \in Object /\ obj[o].st # "freed" /\ obj[o].st # "unused"
          /\ obj[o].st = "noconf" => f \notin InConf \cup InBss
      BY <1>1, <2>3, <2>5, WildFacts
    <3>3. ASSUME "remove" \notin c.during
          PROVE  obj[o].name = c.name /\ obj[o].st # "noconf"
      <4>1. /\ c.wiphy + 1 <= count
            /\ obj[slots[c.wiphy + 1]].name = c.name
            /\ obj[slots[c.wiphy + 1]].st # "noconf"
        BY <1>1, <1>3, <2>1, <3>3 DEF Knows
      <4>2. o = slots[c.wiphy + 1]
        BY <4>1, <2>3, <1>2, <2>1
      <4>3. QED
        BY <4>1, <4>2
    <3> HIDE DEF o
    <3>4. held \in {"none", "held"}
      OBVIOUS
    <3> HIDE DEF held
    <3>5. /\ r2 \in CallType /\ r2.pc = "read" /\ r2.conf = held /\ r2.at = o
          /\ r2.during = c.during /\ r2.other = c.other
          /\ r2.wiphy = c.wiphy /\ r2.name = c.name /\ r2.todo = c.todo
      BY <1>1, <3>2, <3>4 DEF CallType, Pc
    <3> HIDE DEF r2
    <3>6. Locals(r2)
      BY <1>1, <1>6, <3>4, <3>5 DEF Locals, Setting
    <3>7. Holds(r2)
      BY <3>2, <3>3, <3>5 DEF Holds, Holding
    <3>8. Knows(r2)
      BY <1>1, <1>3, <3>3, <3>5 DEF Knows
    <3>9. QED
      BY <1>1, <3>1, <3>5, <3>6, <3>7, <3>8 DEF Moves, Sound
  <2>6. QED
    BY <2>4, <2>5
<1>7. QED
  BY <1>4, <1>5, <1>6

LEMMA ReadStep ==
    ASSUME Inv, NEW t \in Thread, Read(t)
    PROVE  Moves(t) \/ Fails(t)
<1> DEFINE c == thread[t]
           k == WildHeld(t, Head(c.todo))
           oth == c.other \/ Other(t, c.at)
           rest == Tail(c.todo)
           r == [c EXCEPT !.pc = "get", !.todo = rest, !.at = Null,
                          !.conf = "none", !.other = oth]
<1>1. /\ Alive /\ c.pc = "read" /\ c \in CallType /\ Locals(c)
      /\ Holds(c) /\ Knows(c)
      /\ TypeInv /\ TableInv /\ CallInv
  BY CallOf DEF Read, ThreadAt
<1>2. c.todo \in Seq(Field) /\ c.todo # <<>> /\ c.other \in BOOLEAN
  BY <1>1, CallFields DEF Locals
<1>3. c.pc \in Running /\ c.pc \in Holding
  BY <1>1 DEF Running, Pc, Holding
<1>4. Head(c.todo) # "mode" /\ rest \in Seq(Field)
  BY <1>2, TodoFacts
<1>5. k # "no" => k \in Kinds /\ Cause(t)[k]
  BY <1>1, <1>3, <1>4, HeldCause
<1>6. CASE k # "no"
  <2>1. Crash(t, k)
    BY <1>6 DEF Read
  <2>2. QED
    BY <1>1, <1>3, <1>5, <1>6, <2>1 DEF Fails
<1>7. CASE k = "no"
  <2>1. To(t, r)
    BY <1>7 DEF Read
  <2>2. oth \in BOOLEAN /\ (oth => "remove" \in c.during)
    BY <1>1, <1>2, <1>3 DEF Locals, Knows, Other
  <2> HIDE DEF oth, rest
  <2>3. /\ r \in CallType /\ r.pc = "get" /\ r.conf = "none"
        /\ r.during = c.during /\ r.other = oth
        /\ r.wiphy = c.wiphy /\ r.name = c.name
    BY <1>1, <1>4, <2>2 DEF CallType, Pc
  <2> HIDE DEF r
  <2>4. Locals(r)
    BY <1>1, <2>2, <2>3 DEF Locals, Setting
  <2>5. Holds(r)
    BY <2>3 DEF Holds, Holding
  <2>6. Knows(r)
    BY <1>1, <1>3, <2>3 DEF Knows
  <2>7. QED
    BY <1>1, <2>1, <2>3, <2>4, <2>5, <2>6 DEF Moves, Sound
<1>8. QED
  BY <1>6, <1>7

LEMMA IdleSound ==
    ASSUME NEW pc \in {"idle", "lost"}
    PROVE  LET r == [IdleThread EXCEPT !.pc = pc]
           IN  Sound(r) /\ r.pc = pc /\ r.at = Null
<1> DEFINE r == [IdleThread EXCEPT !.pc = pc]
<1>1. /\ 0 \in 0..MaxObject /\ 0 \in Tuned /\ <<>> \in Seq(Field)
      /\ -1 \in -1..(MaxObject - 1)
  BY InterfacesConstants DEF Tuned
<1>2. r \in CallType
  BY <1>1 DEF IdleThread, CallType, Pc
<1>3. r.pc = pc /\ r.conf = "none" /\ r.other = FALSE /\ r.at = Null
  BY DEF IdleThread
<1> HIDE DEF r
<1>4. Locals(r)
  BY <1>3 DEF Locals, Setting
<1>5. Holds(r) /\ Knows(r)
  BY <1>3 DEF Holds, Knows, Holding, Running, Pc
<1>6. QED
  BY <1>2, <1>3, <1>4, <1>5 DEF Sound, r

LEMMA FinishStep ==
    ASSUME Inv, NEW t \in Thread, Finish(t)
    PROVE  Moves(t)
<1> DEFINE r == IdleThread
<1>1. /\ 0 \in 0..MaxObject /\ 0 \in Tuned /\ <<>> \in Seq(Field)
      /\ -1 \in -1..(MaxObject - 1)
  BY InterfacesConstants DEF Tuned
<1>2. r \in CallType
  BY <1>1 DEF IdleThread, CallType, Pc
<1>3. r.pc = "idle" /\ r.conf = "none" /\ r.other = FALSE
  BY DEF IdleThread
<1>4. To(t, r) /\ thread[t].pc # "restore"
  BY DEF Finish, ThreadAt
<1> HIDE DEF r
<1>5. Locals(r)
  BY <1>3 DEF Locals, Setting
<1>6. Holds(r) /\ Knows(r)
  BY <1>3 DEF Holds, Knows, Holding, Running, Pc
<1>7. QED
  BY <1>2, <1>3, <1>4, <1>5, <1>6 DEF Sound, Moves

\* The accesses of a setter through its index.
LEMMA SetterSlot ==
    ASSUME Inv, Alive, NEW t \in Thread, thread[t].pc \in Setting,
           thread[t].wiphy \in Nat, NEW f \in {"mode", "switch"}
    PROVE  LET o == SlotAt(thread[t].wiphy)
               k == Wild(o, f)
           IN  /\ k # "no" => k \in Kinds /\ Cause(t)[k]
               /\ k = "no" =>
                    /\ o \in Object /\ obj[o].st # "freed"
                    /\ obj[o].st # "unused" /\ o \in Table
                    /\ f = "switch" => obj[o].st # "noconf"
                    /\ "remove" \in thread[t].during \/ ~Other(t, o)
<1> DEFINE c == thread[t]
           o == SlotAt(c.wiphy)
           k == Wild(o, f)
<1>1. c \in CallType /\ Locals(c) /\ Knows(c) /\ TypeInv /\ TableInv /\ CallInv
  BY CallOf
<1>2. c.pc \in Running /\ c.op \in Setters
  BY <1>1 DEF Running, Setting, Pc, Locals
<1>3. k # "no" => k \in Kinds /\ Cause(t)[k]
  BY <1>1, <1>2, SlotCause
<1>4. /\ o \in Object \cup {Null, -1}
      /\ o \in Object => obj[o].st # "unused"
      /\ c.wiphy < count => o = slots[c.wiphy + 1] /\ o \in Object
  BY <1>1, SlotFacts
<1>5. ASSUME k = "no"
      PROVE  /\ o \in Object /\ obj[o].st # "freed"
             /\ obj[o].st # "unused" /\ o \in Table
             /\ f = "switch" => obj[o].st # "noconf"
  <2>1. /\ o \in Object /\ obj[o].st # "freed"
        /\ f = "switch" => obj[o].st # "noconf"
    BY <1>1, <1>4, <1>5, WildFacts DEF InBss
  <2>2. QED
    BY <1>1, <1>4, <2>1, InTheTable
<1>6. ASSUME "remove" \notin c.during
      PROVE  ~Other(t, o)
  <2>1. c.wiphy + 1 <= count /\ obj[slots[c.wiphy + 1]].name = c.name
    BY <1>1, <1>2, <1>6 DEF Knows
  <2>2. o = slots[c.wiphy + 1]
    BY <1>1, <1>4, <2>1 DEF TypeInv
  <2>3. QED
    BY <2>1, <2>2 DEF Other
<1>7. QED
  BY <1>3, <1>5, <1>6

LEMMA ConvertStep ==
    ASSUME Inv, NEW t \in Thread, set_current_channel(t)
    PROVE  Moves(t) \/ Fails(t)
<1> DEFINE c == thread[t]
           k == Wild(SlotAt(c.wiphy), "mode")
           r == [c EXCEPT !.pc = "fill"]
<1>1. /\ Alive /\ c.pc = "convert" /\ c \in CallType /\ Locals(c)
      /\ Holds(c) /\ Knows(c)
      /\ TypeInv /\ TableInv /\ CallInv
  BY CallOf DEF set_current_channel, ThreadAt
<1>2. /\ c.wiphy \in -1..(MaxObject - 1) /\ MaxObject \in Nat
  BY <1>1, CallFields, InterfacesConstants
<1>3. c.pc \in Running /\ c.pc \in Setting
  BY <1>1 DEF Running, Pc, Setting
<1>4. CASE \E ret \in {-1, 0} : To(t, Done(t, ret))
  <2>1. PICK ret \in {-1, 0} : To(t, Done(t, ret))
    BY <1>4
  <2>2. Sound(Done(t, ret)) /\ Done(t, ret).pc # "restore"
    BY DoneSound
  <2>3. QED
    BY <1>1, <2>1, <2>2 DEF Moves
<1>5. CASE InTable(c.wiphy) /\ k # "no"
  <2>1. Crash(t, k)
    BY <1>5 DEF set_current_channel
  <2>2. c.wiphy \in Nat
    BY <1>2, <1>5 DEF InTable
  <2>3. k \in Kinds /\ Cause(t)[k]
    BY <1>1, <1>3, <1>5, <2>2, SetterSlot
  <2>4. QED
    BY <1>1, <1>3, <2>1, <2>3 DEF Fails
<1>6. CASE To(t, r)
  <2>1. /\ r \in CallType /\ r.pc = "fill" /\ r.conf = c.conf
        /\ r.during = c.during /\ r.other = c.other /\ r.op = c.op
        /\ r.wiphy = c.wiphy /\ r.name = c.name
    BY <1>1 DEF CallType, Pc
  <2> HIDE DEF r
  <2>2. Locals(r)
    BY <1>1, <1>3, <2>1 DEF Locals, Setting
  <2>3. Holds(r)
    BY <2>1 DEF Holds, Holding
  <2>4. Knows(r)
    BY <1>1, <1>3, <2>1 DEF Knows
  <2>5. QED
    BY <1>1, <1>6, <2>1, <2>2, <2>3, <2>4 DEF Moves, Sound
<1>7. QED
  BY <1>4, <1>5, <1>6 DEF set_current_channel

LEMMA FillStep ==
    ASSUME Inv, NEW t \in Thread, set_current_frequency(t)
    PROVE  Moves(t) \/ Fails(t) \/ Writes(t)
<1> DEFINE c == thread[t]
           o == SlotAt(c.wiphy)
           k == Wild(o, "switch")
           oth == c.other \/ Other(t, o)
           r1 == [c EXCEPT !.pc = "force", !.other = oth]
           r2 == [c EXCEPT !.pc = "restore", !.at = o, !.old = obj[o].chan,
                           !.other = oth]
           odd == obj[o].odd \cup Mixed(o)
           q == [obj[o] EXCEPT !.chan = c.arg, !.odd = odd]
<1>1. /\ Alive /\ c.pc = "fill" /\ c \in CallType /\ Locals(c)
      /\ Holds(c) /\ Knows(c)
      /\ TypeInv /\ TableInv /\ CallInv
  BY CallOf DEF set_current_frequency, ThreadAt
<1>2. /\ c.wiphy \in -1..(MaxObject - 1) /\ MaxObject \in Nat
      /\ c.other \in BOOLEAN
  BY <1>1, CallFields, InterfacesConstants
<1>3. c.pc \in Running /\ c.pc \in Setting /\ c.op \in Setters
  BY <1>1 DEF Running, Pc, Setting, Locals
<1>4. CASE ~InTable(c.wiphy)
  <2>1. To(t, Done(t, 0))
    BY <1>4 DEF set_current_frequency
  <2>2. Sound(Done(t, 0)) /\ Done(t, 0).pc # "restore"
    BY DoneSound
  <2>3. QED
    BY <1>1, <2>1, <2>2 DEF Moves
<1>5. CASE InTable(c.wiphy)
  <2>1. c.wiphy \in Nat
    BY <1>2, <1>5 DEF InTable
  <2>2. /\ k # "no" => k \in Kinds /\ Cause(t)[k]
        /\ k = "no" => /\ o \in Object /\ obj[o].st # "freed"
                       /\ obj[o].st # "unused" /\ o \in Table
                       /\ obj[o].st # "noconf"
                       /\ "remove" \in c.during \/ ~Other(t, o)
    BY <1>1, <1>3, <2>1, SetterSlot
  <2>3. CASE k # "no"
    <3>1. Crash(t, k)
      BY <1>5, <2>3 DEF set_current_frequency
    <3>2. QED
      BY <1>1, <1>3, <2>2, <2>3, <3>1 DEF Fails
  <2>4. ASSUME k = "no"
        PROVE  oth \in BOOLEAN /\ (oth => "remove" \in c.during)
    BY <1>1, <1>2, <2>2, <2>4 DEF Locals, Other
  <2>5. CASE k = "no" /\ NoCsa(obj[o], c.arg)
    <3>1. To(t, r1)
      BY <1>5, <2>5 DEF set_current_frequency
    <3>2. oth \in BOOLEAN /\ (oth => "remove" \in c.during)
      BY <2>4, <2>5
    <3> HIDE DEF oth
    <3>3. /\ r1 \in CallType /\ r1.pc = "force" /\ r1.conf = c.conf
          /\ r1.during = c.during /\ r1.other = oth /\ r1.op = c.op
          /\ r1.wiphy = c.wiphy /\ r1.name = c.name
      BY <1>1, <3>2 DEF CallType, Pc
    <3> HIDE DEF r1
    <3>4. Locals(r1)
      BY <1>1, <1>3, <3>2, <3>3 DEF Locals, Setting
    <3>5. Holds(r1)
      BY <3>3 DEF Holds, Holding
    <3>6. Knows(r1)
      BY <1>1, <1>3, <3>3 DEF Knows
    <3>7. QED
      BY <1>1, <3>1, <3>3, <3>4, <3>5, <3>6 DEF Moves, Sound
  <2>6. CASE k = "no" /\ ~NoCsa(obj[o], c.arg) /\ obj[o].mode = "freed"
    <3>1. Crash(t, "mode")
      BY <1>5, <2>6 DEF set_current_frequency
    <3>2. Cause(t).mode
      BY <1>3, <2>2, <2>6 DEF Cause
    <3>3. QED
      BY <1>1, <1>3, <3>1, <3>2 DEF Fails, Kinds
  <2>7. CASE k = "no" /\ ~NoCsa(obj[o], c.arg) /\ obj[o].mode # "freed"
    <3>1. Write(t, r2, o, q)
      BY <1>5, <2>7 DEF set_current_frequency
    <3>2. oth \in BOOLEAN /\ (oth => "remove" \in c.during)
      BY <2>4, <2>7
    <3>3. c.arg \in Channel /\ c.arg \in Tuned /\ ~obj[o].csa
      BY <2>7 DEF NoCsa, Tuned
    <3>4. obj[o] \in ObjType /\ obj[o].chan \in Tuned
      BY <1>1, <2>2, <2>7 DEF TypeInv, ObjType
    <3>5. /\ odd \in SUBSET {"channel", "switch"}
          /\ "channel" \notin odd =>
               "channel" \notin obj[o].odd /\ ~Filling(o)
      BY <3>4 DEF Mixed, ObjType
    <3>6. o \in Object /\ obj[o].st \notin {"freed", "unused", "noconf"}
      BY <2>2, <2>7
    <3> HIDE DEF oth, o, odd
    <3>7. /\ r2 \in CallType /\ r2.pc = "restore" /\ r2.conf = c.conf
          /\ r2.during = c.during /\ r2.other = oth /\ r2.op = c.op
          /\ r2.wiphy = c.wiphy /\ r2.name = c.name /\ r2.arg = c.arg
          /\ r2.at = o /\ r2.old = obj[o].chan
      BY <1>1, <3>2, <3>4, <3>6 DEF CallType, Pc
    <3>8. /\ q \in ObjType /\ q.name = obj[o].name /\ q.st = obj[o].st
          /\ q.mode = obj[o].mode /\ q.freq = obj[o].freq
          /\ q.csa = obj[o].csa /\ q.odd = odd
      BY <3>3, <3>4, <3>5 DEF ObjType
    <3> HIDE DEF r2, q
    <3>9. Locals(r2)
      BY <1>1, <1>3, <3>2, <3>3, <3>7 DEF Locals, Setting
    <3>10. Holds(r2)
      BY <3>6, <3>7 DEF Holds
    <3>11. Knows(r2)
      BY <1>1, <1>3, <3>7 DEF Knows
    <3>12. FlagSound(q)
      BY <3>3, <3>8 DEF FlagSound
    <3>13. ChanWrite(t, r2, o, q)
      BY <1>1, <3>5, <3>7, <3>8 DEF ChanWrite
    <3>14. Sound(r2)
      BY <3>7, <3>9, <3>10, <3>11 DEF Sound
    <3>15. QED
      BY <3>1, <3>6, <3>8, <3>12, <3>13, <3>14 DEF Writes
  <2>8. QED
    BY <2>3, <2>5, <2>6, <2>7
<1>6. QED
  BY <1>4, <1>5

\* The record of a call that stays with its interface, or gives up and forces
\* the channel.
LEMMA GoesOn ==
    ASSUME Inv, NEW t \in Thread,
           thread[t].pc \in {"restore", "switch", "flag", "flush"},
           NEW r \in CallType, r.pc \in {"switch", "flag", "force", "swap"},
           r.conf = thread[t].conf \/ r.conf = "held", r.during = thread[t].during,
           r.other = thread[t].other, r.op = thread[t].op,
           r.wiphy = thread[t].wiphy, r.name = thread[t].name,
           r.arg = thread[t].arg, r.at = thread[t].at
    PROVE  Sound(r)
<1> DEFINE c == thread[t]
<1>1. /\ c \in CallType /\ Locals(c) /\ Holds(c) /\ Knows(c)
  BY CallOf
<1>2. c.pc \in Running /\ c.op \in Setters /\ c.arg \in Channel
  BY <1>1 DEF Running, Pc, Setting, Locals
<1>4. Locals(r)
  BY <1>1, <1>2 DEF Locals, Setting
<1>5. Holds(r)
  BY <1>1 DEF Holds, Holding
<1>6. Knows(r)
  BY <1>1, <1>2 DEF Knows
<1>7. QED
  BY <1>4, <1>5, <1>6 DEF Sound

\* The interface that a setter holds.
LEMMA SetterHolds ==
    ASSUME Inv, NEW t \in Thread,
           thread[t].pc \in {"restore", "switch", "flag", "flush", "swap"}
    PROVE  LET o == thread[t].at
               k == Wild(o, "switch")
           IN  /\ o \in Object /\ obj[o] \in ObjType /\ FlagSound(obj[o])
               /\ thread[t].arg \in Channel /\ thread[t].arg \in Tuned
               /\ thread[t].arg # 0
               /\ k # "no" => /\ obj[o].st = "freed"
                              /\ k \in Kinds /\ Cause(t)[k]
               /\ k = "no" => obj[o].st # "freed" /\ o \in Table
<1> DEFINE c == thread[t]
           o == c.at
           k == Wild(o, "switch")
<1>1. /\ Locals(c) /\ Holds(c) /\ TypeInv /\ TableInv /\ CallInv
  BY CallOf
<1>2. c.pc \in Holding
  BY DEF Holding
<1>3. /\ o \in Object /\ obj[o].st # "unused" /\ k \in {"no", "freed"}
      /\ k = "no" => obj[o].st # "freed"
      /\ k = "freed" => obj[o].st = "freed" /\ Cause(t)["freed"]
  <2>1. Holds(c) => obj[o].st # "unused"
    BY <1>2 DEF Holds
  <2>2. QED
    BY <1>1, <1>2, <2>1, HeldCause DEF InBss
<1>4. obj[o] \in ObjType /\ FlagSound(obj[o])
  BY <1>1, <1>3 DEF TypeInv, Inv, FlagInv, FlagSound
<1>5. c.arg \in Channel /\ c.arg # 0
  BY <1>1, InterfacesConstants DEF Locals
<1>6. k = "no" => o \in Table
  BY <1>1, <1>3, InTheTable
<1>7. QED
  BY <1>3, <1>4, <1>5, <1>6 DEF Kinds, Tuned

LEMMA RestoreStep ==
    ASSUME Inv, NEW t \in Thread, hostapd_fill_csa_settings(t)
    PROVE  Fails(t) \/ Writes(t)
<1> DEFINE c == thread[t]
           o == c.at
           k == Wild(o, "switch")
           p == obj[o]
           odd == IF p.csa /\ p.cs # c.arg THEN p.odd \cup {"switch"} ELSE p.odd
           back == [p EXCEPT !.chan = c.old]
           filled == [p EXCEPT !.chan = c.old, !.cs = c.arg, !.odd = odd]
           R(pc) == [c EXCEPT !.pc = pc, !.old = 0]
<1>1. /\ Alive /\ c.pc = "restore" /\ c \in CallType
  BY CallOf DEF hostapd_fill_csa_settings, ThreadAt
<1>2. /\ o \in Object /\ p \in ObjType /\ FlagSound(p)
      /\ c.arg \in Channel /\ c.arg \in Tuned /\ c.arg # 0
      /\ k # "no" => p.st = "freed" /\ k \in Kinds /\ Cause(t)[k]
      /\ k = "no" => p.st # "freed"
  BY <1>1, SetterHolds
<1>3. c.pc \in Running /\ c.old \in Tuned /\ 0 \in Tuned
  BY <1>1, CallFields DEF Running, Pc, Tuned
<1>4. CASE k # "no"
  <2>1. Crash(t, k)
    BY <1>4 DEF hostapd_fill_csa_settings
  <2>2. QED
    BY <1>2, <1>3, <1>4, <2>1 DEF Fails
<1>5. CASE k = "no"
  <2>1. ChangedBack(t) = back
    BY DEF ChangedBack
  <2>2. [back EXCEPT !.cs = c.arg,
                     !.odd = IF p.csa /\ p.cs # c.arg
                             THEN @ \cup {"switch"} ELSE @] = filled
    BY <1>2 DEF ObjType
  <2>3. PICK pc \in {"switch", "force"}, q \in {filled, back} :
            Write(t, R(pc), o, q)
    BY <1>5, <2>1, <2>2 DEF hostapd_fill_csa_settings
  <2>4. Sound(R(pc)) /\ R(pc).pc = pc
    <3> DEFINE r == R(pc)
    <3>1. /\ r \in CallType /\ r.pc = pc /\ r.conf = c.conf
          /\ r.during = c.during /\ r.other = c.other /\ r.op = c.op
          /\ r.wiphy = c.wiphy /\ r.name = c.name /\ r.arg = c.arg
          /\ r.at = c.at
      BY <1>1, <1>3 DEF CallType, Pc
    <3> HIDE DEF r
    <3>2. Sound(r)
      BY <1>1, <3>1, GoesOn
    <3>3. QED
      BY <3>1, <3>2 DEF r
  <2>5. /\ odd \in SUBSET {"channel", "switch"}
        /\ "channel" \notin odd => "channel" \notin p.odd
        /\ p.csa /\ "switch" \notin odd => "switch" \notin p.odd /\ p.cs = c.arg
    BY <1>2 DEF ObjType
  <2> HIDE DEF odd
  <2>6. /\ q \in ObjType /\ q.name = p.name /\ q.st = p.st
        /\ q.mode = p.mode /\ q.freq = p.freq /\ q.csa = p.csa
        /\ q.drv = p.drv /\ q.chan = c.old
        /\ \/ q.odd = odd /\ q.cs = c.arg
           \/ q.odd = p.odd /\ q.cs = p.cs
    <3>1. CASE q = filled
      BY <1>2, <1>3, <2>5, <3>1 DEF ObjType
    <3>2. CASE q = back
      BY <1>2, <1>3, <3>2 DEF ObjType
    <3>3. QED
      BY <3>1, <3>2
  <2>7. FlagSound(q)
    BY <1>2, <2>5, <2>6 DEF FlagSound
  <2>8. ChanWrite(t, R(pc), o, q)
    BY <1>1, <2>4, <2>5, <2>6 DEF ChanWrite
  <2>9. QED
    BY <1>2, <1>5, <2>3, <2>4, <2>6, <2>7, <2>8 DEF Writes
<1>6. QED
  BY <1>4, <1>5

LEMMA SwitchStep ==
    ASSUME Inv, NEW t \in Thread, hostapd_drv_switch_channel(t)
    PROVE  Fails(t) \/ Writes(t)
<1> DEFINE c == thread[t]
           o == c.at
           k == Wild(o, "switch")
           p == obj[o]
           R(pc) == [c EXCEPT !.pc = pc]
           asked == [p EXCEPT !.drv = c.arg]
           off == p.odd \ {"switch"}
           clean == [p EXCEPT !.csa = FALSE, !.cs = 0, !.odd = off]
<1>1. /\ Alive /\ c.pc = "switch" /\ c \in CallType
  BY CallOf DEF hostapd_drv_switch_channel, ThreadAt
<1>2. /\ o \in Object /\ p \in ObjType /\ FlagSound(p)
      /\ c.arg \in Channel /\ c.arg \in Tuned /\ c.arg # 0
      /\ k # "no" => p.st = "freed" /\ k \in Kinds /\ Cause(t)[k]
      /\ k = "no" => p.st # "freed" /\ o \in Table
  BY <1>1, SetterHolds
<1>3. c.pc \in Running /\ c.old \in Tuned /\ 0 \in Tuned /\ c.op \in Setters
  BY <1>1, CallFields, CallOf DEF Running, Pc, Tuned, Locals, Setting
<1>4. CASE k # "no"
  <2>1. Crash(t, k)
    BY <1>4 DEF hostapd_drv_switch_channel
  <2>2. QED
    BY <1>1, <1>2, <1>3, <1>4, <2>1 DEF Fails
<1>5. CASE k = "no" /\ ~HasDriver(p)
  <2>1. Crash(t, "driver")
    BY <1>5 DEF hostapd_drv_switch_channel
  <2>2. Cause(t).driver
    BY <1>2, <1>3, <1>5 DEF Cause
  <2>3. QED
    BY <1>1, <1>3, <2>1, <2>2 DEF Fails, Kinds
<1>6. CASE k = "no" /\ HasDriver(p)
  <2>1. CleanCs(p) = clean
    BY DEF CleanCs
  <2>2. PICK pc \in {"flag", "force"}, q \in {asked, clean} :
            /\ Write(t, R(pc), o, q)
            /\ (q = asked /\ p.drv = 0) \/ q = clean
    <3>1. \/ p.drv = 0 /\ Write(t, R("flag"), o, asked)
          \/ Write(t, R("force"), o, clean)
      BY <1>6, <2>1 DEF hostapd_drv_switch_channel
    <3> HIDE DEF asked, clean, R
    <3>2. QED
      BY <3>1
  <2>3. Sound(R(pc)) /\ R(pc).pc = pc
    <3> DEFINE r == R(pc)
    <3>1. /\ r \in CallType /\ r.pc = pc /\ r.conf = c.conf
          /\ r.during = c.during /\ r.other = c.other /\ r.op = c.op
          /\ r.wiphy = c.wiphy /\ r.name = c.name /\ r.arg = c.arg
          /\ r.at = c.at
      BY <1>1 DEF CallType, Pc
    <3> HIDE DEF r
    <3>2. Sound(r)
      BY <1>1, <3>1, GoesOn
    <3>3. QED
      BY <3>1, <3>2 DEF r
  <2>4. /\ off \in SUBSET {"channel", "switch"}
        /\ "channel" \notin off => "channel" \notin p.odd
    BY <1>2 DEF ObjType
  <2> HIDE DEF off
  <2>5. /\ q \in ObjType /\ q.name = p.name /\ q.st = p.st
        /\ q.mode = p.mode /\ q.freq = p.freq /\ q.chan = p.chan
        /\ \/ q.odd = p.odd /\ q.csa = p.csa /\ p.drv = 0
           \/ q.odd = off /\ q.csa = FALSE
    <3>1. CASE q = asked /\ p.drv = 0
      BY <1>2, <3>1 DEF ObjType
    <3>2. CASE q = clean
      BY <1>2, <1>3, <2>4, <3>2 DEF ObjType
    <3>3. QED
      BY <2>2, <3>1, <3>2
  <2>6. FlagSound(q)
    BY <1>2, <2>5 DEF FlagSound
  <2>7. ChanWrite(t, R(pc), o, q)
    BY <1>1, <2>3, <2>4, <2>5 DEF ChanWrite
  <2>8. QED
    BY <1>2, <1>6, <2>2, <2>3, <2>5, <2>6, <2>7 DEF Writes
<1>7. QED
  BY <1>4, <1>5, <1>6

LEMMA FlagStep ==
    ASSUME Inv, NEW t \in Thread, hostapd_switch_channel(t)
    PROVE  Fails(t) \/ Writes(t)
<1> DEFINE c == thread[t]
           o == c.at
           k == Wild(o, "switch")
           p == obj[o]
           odd == IF p.drv # c.arg \/ p.cs # c.arg THEN p.odd \cup {"switch"}
                  ELSE p.odd
           q == [p EXCEPT !.csa = TRUE, !.odd = odd]
<1>1. /\ Alive /\ c.pc = "flag" /\ c \in CallType
  BY CallOf DEF hostapd_switch_channel, ThreadAt
<1>2. /\ o \in Object /\ p \in ObjType /\ c.arg # 0
      /\ k # "no" => p.st = "freed" /\ k \in Kinds /\ Cause(t)[k]
      /\ k = "no" => p.st # "freed" /\ o \in Table
  BY <1>1, SetterHolds
<1>3. c.pc \in Running
  BY <1>1 DEF Running, Pc
<1>4. CASE k # "no"
  <2>1. Crash(t, k)
    BY <1>4 DEF hostapd_switch_channel
  <2>2. QED
    BY <1>1, <1>2, <1>3, <1>4, <2>1 DEF Fails
<1>5. CASE k = "no"
  <2>1. Write(t, Done(t, 0), o, q)
    BY <1>5 DEF hostapd_switch_channel
  <2>2. Sound(Done(t, 0)) /\ Done(t, 0).pc = "done"
    BY DoneSound
  <2>3. /\ odd \in SUBSET {"channel", "switch"}
        /\ "channel" \notin odd => "channel" \notin p.odd
        /\ "switch" \notin odd => p.drv = c.arg /\ p.cs = c.arg
    BY <1>2 DEF ObjType
  <2> HIDE DEF odd
  <2>4. /\ q \in ObjType /\ q.name = p.name /\ q.st = p.st
        /\ q.mode = p.mode /\ q.freq = p.freq /\ q.chan = p.chan
        /\ q.drv = p.drv /\ q.cs = p.cs /\ q.odd = odd
    BY <1>2, <2>3 DEF ObjType
  <2> HIDE DEF q
  <2>5. FlagSound(q)
    BY <1>2, <2>3, <2>4 DEF FlagSound
  <2>6. ChanWrite(t, Done(t, 0), o, q)
    BY <1>1, <2>2, <2>3, <2>4 DEF ChanWrite
  <2>7. QED
    BY <1>2, <1>5, <2>1, <2>2, <2>4, <2>5, <2>6 DEF Writes
<1>6. QED
  BY <1>4, <1>5

LEMMA ForceStep ==
    ASSUME Inv, NEW t \in Thread, BruteForce(t)
    PROVE  Moves(t) \/ Fails(t) \/ Writes(t)
<1> DEFINE c == thread[t]
           o == SlotAt(c.wiphy)
           k == Wild(o, "mode")
           p == obj[o]
           oth == c.other \/ Other(t, o)
           r == [c EXCEPT !.pc = "reload", !.at = o, !.other = oth]
           odd == p.odd \cup {"channel"}
           q == [p EXCEPT !.chan = c.arg, !.odd = odd]
<1>1. /\ Alive /\ c.pc = "force" /\ c \in CallType /\ Locals(c)
      /\ Holds(c) /\ Knows(c)
      /\ TypeInv /\ TableInv /\ CallInv
  BY CallOf DEF BruteForce, ThreadAt
<1>2. /\ c.wiphy \in -1..(MaxObject - 1) /\ MaxObject \in Nat
      /\ c.other \in BOOLEAN
  BY <1>1, CallFields, InterfacesConstants
<1>3. c.pc \in Running /\ c.pc \in Setting /\ c.op \in Setters
  BY <1>1 DEF Running, Pc, Setting, Locals
<1>4. CASE To(t, Done(t, -1))
  <2>1. Sound(Done(t, -1)) /\ Done(t, -1).pc # "restore"
    BY DoneSound
  <2>2. QED
    BY <1>1, <1>4, <2>1 DEF Moves
<1>5. CASE InTable(c.wiphy) /\ k # "no"
  <2>1. Crash(t, k)
    BY <1>5 DEF BruteForce
  <2>2. c.wiphy \in Nat
    BY <1>2, <1>5 DEF InTable
  <2>3. k \in Kinds /\ Cause(t)[k]
    BY <1>1, <1>3, <1>5, <2>2, SetterSlot
  <2>4. QED
    BY <1>1, <1>3, <2>1, <2>3 DEF Fails
<1>6. CASE InTable(c.wiphy) /\ k = "no" /\ c.arg \in Channel
  <2>1. Write(t, r, o, q)
    BY <1>6 DEF BruteForce
  <2>2. c.wiphy \in Nat
    BY <1>2, <1>6 DEF InTable
  <2>3. /\ o \in Object /\ p.st # "freed" /\ p.st # "unused"
        /\ "remove" \in c.during \/ ~Other(t, o)
    BY <1>1, <1>3, <1>6, <2>2, SetterSlot
  <2>4. oth \in BOOLEAN /\ (oth => "remove" \in c.during)
    BY <1>1, <1>2, <2>3 DEF Locals, Other
  <2>5. /\ p \in ObjType /\ FlagSound(p) /\ c.arg \in Tuned
    BY <1>1, <1>6, <2>3 DEF TypeInv, Inv, FlagInv, FlagSound, Tuned
  <2>6. /\ odd \in SUBSET {"channel", "switch"} /\ "channel" \in odd
        /\ "switch" \notin odd => "switch" \notin p.odd
    BY <2>5 DEF ObjType
  <2> HIDE DEF oth, o, odd
  <2>7. /\ r \in CallType /\ r.pc = "reload" /\ r.conf = c.conf
        /\ r.during = c.during /\ r.other = oth /\ r.op = c.op
        /\ r.wiphy = c.wiphy /\ r.name = c.name /\ r.arg = c.arg
    BY <1>1, <2>3, <2>4 DEF CallType, Pc
  <2>8. /\ q \in ObjType /\ q.name = p.name /\ q.st = p.st
        /\ q.mode = p.mode /\ q.freq = p.freq /\ q.csa = p.csa
        /\ q.drv = p.drv /\ q.cs = p.cs /\ q.odd = odd
    BY <2>5, <2>6 DEF ObjType
  <2> HIDE DEF r, q
  <2>9. Locals(r)
    BY <1>1, <1>3, <1>6, <2>2, <2>4, <2>7 DEF Locals, Setting
  <2>10. Holds(r)
    BY <2>7 DEF Holds, Holding
  <2>11. Knows(r)
    BY <1>1, <1>3, <2>7 DEF Knows
  <2>12. FlagSound(q)
    BY <2>5, <2>6, <2>8 DEF FlagSound
  <2>13. ChanWrite(t, r, o, q)
    BY <1>1, <2>6, <2>7, <2>8 DEF ChanWrite
  <2>14. Sound(r)
    BY <2>7, <2>9, <2>10, <2>11 DEF Sound
  <2>15. QED
    BY <2>1, <2>3, <2>8, <2>12, <2>13, <2>14 DEF Writes
<1>7. QED
  BY <1>4, <1>5, <1>6 DEF BruteForce

\* The table is as it was: no interface enters or leaves it.
SameTable ==
    /\ UNCHANGED <<phase, next, daemonize, slots, count, busy, toe, events>>
    /\ obj' \in [Object -> ObjType]
    /\ \A o \in Object : /\ obj'[o].name = obj[o].name
                         /\ obj'[o].st = obj[o].st
                         /\ obj'[o].mode = obj[o].mode

LEMMA SameTableKeeps ==
    ASSUME Inv, SameTable
    PROVE  TableInv'
<1> USE DEF SameTable
<1>1. TypeInv /\ TableInv
  BY DEF Inv
<1>2. \A i \in 1..Len(slots) :
         slots[i] \in Object => obj'[slots[i]].st # "unused"
  BY <1>1 DEF TableInv
<1>3. \A o \in Object : /\ obj'[o].st = "unused" => count < o
                        /\ obj'[o].st = "noconf" => busy = <<"add", o>>
  BY <1>1 DEF TableInv
<1>4. \A o \in Object : obj'[o].st \notin {"unused", "freed"} =>
                           \E i \in 1..count : slots[i] = o
  BY <1>1 DEF TableInv
<1>5. \A i \in 1..count : slots[i] \in Object
  BY <1>1 DEF TableInv
<1>6. \A i \in 1..count :
         obj'[slots[i]].st = "freed"
            => phase \in {"out", "exit"} \/ busy = <<"remove", i>>
  BY <1>1, <1>5 DEF TableInv
<1>7. BusyInv'
  <2>1. BusyInv
    BY <1>1 DEF TableInv
  <2>2. \A i \in 1..count : obj'[slots[i]].st = obj[slots[i]].st
    BY <1>5
  <2>3. QED
    BY <2>1, <2>2 DEF BusyInv
<1>8. MainInv'
  BY <1>1 DEF TableInv, MainInv
<1>9. \A i, j \in 1..count : slots[i] = slots[j] => i = j
  BY <1>1 DEF TableInv
<1>10. QED
  BY <1>2, <1>3, <1>4, <1>5, <1>6, <1>7, <1>8, <1>9 DEF TableInv

\* What a call knows holds still when nothing it depends on has changed.
LEMMA SoundKept ==
    ASSUME Inv, SameTable, NEW u \in Thread, NEW r,
           r = thread'[u], Holds(r), Knows(r), r \in CallType,
           (r.pc = "wild" => wild' # "no"), wild = "no",
           r.pc = "wild" \/ Locals(r),
           r.conf = "freed" => "reload" \in r.during,
           r.other => "remove" \in r.during
    PROVE  (Locals(thread[u]) /\ Holds(thread[u]) /\ Knows(thread[u]))'
<1> USE DEF SameTable
<1>1. Locals(thread[u])'
  BY DEF Locals, Setting
<1>2. Holds(thread[u])'
  BY DEF Holds
<1>3. Knows(thread[u])'
  <2>1. SUFFICES ASSUME r.pc \in Running /\ "remove" \notin r.during
                 PROVE  /\ 0 <= r.wiphy =>
                             /\ r.wiphy + 1 <= count
                             /\ obj'[slots[r.wiphy + 1]].name = r.name
                             /\ obj'[slots[r.wiphy + 1]].st # "noconf"
                        /\ r.pc = "compare" => r.i + 1 <= count /\ slots[r.i + 1] = r.at
                        /\ r.pc = "read" => obj'[r.at].name = r.name
    BY DEF Knows
  <2>2. ASSUME 0 <= r.wiphy
        PROVE  /\ r.wiphy + 1 <= count
               /\ obj'[slots[r.wiphy + 1]].name = r.name
               /\ obj'[slots[r.wiphy + 1]].st # "noconf"
    <3>1. /\ r.wiphy + 1 <= count
          /\ obj[slots[r.wiphy + 1]].name = r.name
          /\ obj[slots[r.wiphy + 1]].st # "noconf"
      BY <2>1, <2>2 DEF Knows
    <3>2. r.wiphy + 1 \in 1..count
      BY <2>2, <3>1, CallFields DEF Inv, TypeInv
    <3>3. slots[r.wiphy + 1] \in Object
      BY <3>2 DEF Inv, TableInv
    <3>4. QED
      BY <3>1, <3>3
  <2>3. r.pc = "read" => r.at \in Object
    BY DEF Holds, Holding
  <2>4. QED
    BY <2>1, <2>2, <2>3 DEF Knows
<1>4. QED
  BY <1>1, <1>2, <1>3

LEMMA MovesKeeps ==
    ASSUME Inv, Alive, NEW t \in Thread, Moves(t)
    PROVE  Inv'
<1>1. PICK r : To(t, r) /\ Sound(r) /\ r.pc # "restore"
  BY DEF Moves
<1>2. /\ SameTable /\ obj' = obj /\ wild' = wild /\ wild = "no"
      /\ thread' = [thread EXCEPT ![t] = r]
  BY <1>1 DEF To, SameTable, Inv, TypeInv, Alive
<1>3. \A u \in Thread : thread'[u] = IF u = t THEN r ELSE thread[u]
  BY <1>2 DEF Inv, TypeInv
<1>4. TypeInv'
  <2>1. thread' \in [Thread -> CallType]
    BY <1>1, <1>2 DEF Sound, Inv, TypeInv
  <2>2. QED
    BY <2>1, <1>2 DEF Inv, TypeInv, SameTable
<1>5. TableInv'
  BY <1>2, SameTableKeeps
<1>6. CallInv'
  <2>1. ASSUME NEW u \in Thread
        PROVE  (Locals(thread[u]) /\ Holds(thread[u]) /\ Knows(thread[u]))'
    <3>1. CASE u = t
      BY <1>1, <1>2, <1>3, <3>1, SoundKept DEF Sound, Locals
    <3>2. CASE u # t
      <4>1. thread'[u] = thread[u]
        BY <1>3, <3>2
      <4>2. QED
        BY <1>2, <4>1, CallOf, SoundKept DEF Locals
    <3>3. QED
      BY <3>1, <3>2
  <2>2. QED
    BY <2>1 DEF CallInv
<1>7. ChanInv'
  <2>1. \A u \in Thread, o \in Object :
           /\ Fills(u, o)' <=> Fills(u, o)
           /\ Fills(u, o) => thread'[u].old = thread[u].old
    BY <1>1, <1>3 DEF Fills, Moves
  <2>2. QED
    BY <2>1, <1>2 DEF Inv, ChanInv
<1>8. FlagInv'
  BY <1>2 DEF Inv, FlagInv
<1>9. QED
  BY <1>4, <1>5, <1>6, <1>7, <1>8 DEF Inv

LEMMA FailsKeeps ==
    ASSUME Inv, Alive, NEW t \in Thread, Fails(t)
    PROVE  Inv'
<1>1. PICK k \in Kinds : Crash(t, k) /\ Cause(t)[k]
  BY DEF Fails
<1> DEFINE r == [thread[t] EXCEPT !.pc = "wild"]
<1>2. /\ SameTable /\ obj' = obj /\ wild' = k /\ wild = "no" /\ k # "no"
      /\ thread' = [thread EXCEPT ![t] = r]
  BY <1>1 DEF Crash, SameTable, Inv, TypeInv, Alive, Kinds
<1>3. \A u \in Thread : thread'[u] = IF u = t THEN r ELSE thread[u]
  BY <1>2 DEF Inv, TypeInv
<1>4. /\ r \in CallType /\ r.pc = "wild" /\ r.conf = thread[t].conf
      /\ r.during = thread[t].during /\ r.other = thread[t].other
  BY CallOf DEF CallType, Pc
<1> HIDE DEF r
<1>5. TypeInv'
  <2>1. thread' \in [Thread -> CallType]
    BY <1>2, <1>4 DEF Inv, TypeInv
  <2>2. QED
    BY <2>1, <1>2 DEF Inv, TypeInv, SameTable
<1>6. TableInv'
  BY <1>2, SameTableKeeps
<1>7. CallInv'
  <2>1. ASSUME NEW u \in Thread
        PROVE  (Locals(thread[u]) /\ Holds(thread[u]) /\ Knows(thread[u]))'
    <3>1. CASE u = t
      <4>1. Holds(r) /\ Knows(r)
        BY <1>4 DEF Holds, Knows, Holding, Running, Pc
      <4>2. Locals(thread[t])
        BY CallOf
      <4>3. QED
        BY <1>2, <1>3, <1>4, <3>1, <4>1, <4>2, SoundKept DEF Locals
    <3>2. CASE u # t
      <4>1. thread'[u] = thread[u]
        BY <1>3, <3>2
      <4>2. thread[u].pc # "wild"
        BY <1>2, CallOf DEF Locals
      <4>3. QED
        BY <1>2, <4>1, <4>2, CallOf, SoundKept DEF Locals
    <3>3. QED
      BY <3>1, <3>2
  <2>2. QED
    BY <2>1 DEF CallInv
<1>8. ChanInv'
  <2>1. \A u \in Thread, o \in Object :
           obj[o].st # "freed" =>
             /\ Fills(u, o)' <=> Fills(u, o)
             /\ Fills(u, o) => thread'[u].old = thread[u].old
    BY <1>3, <1>4 DEF Fills, Fails
  <2>2. QED
    BY <2>1, <1>2 DEF Inv, ChanInv
<1>9. FlagInv'
  BY <1>2 DEF Inv, FlagInv
<1>10. QED
  BY <1>5, <1>6, <1>7, <1>8, <1>9 DEF Inv

LEMMA WritesKeeps ==
    ASSUME Inv, Alive, NEW t \in Thread, Writes(t)
    PROVE  Inv'
<1>1. PICK r, q : \E o \in Object :
       /\ Write(t, r, o, q) /\ Sound(r)
       /\ q \in ObjType /\ obj[o].st # "freed"
       /\ q.name = obj[o].name /\ q.st = obj[o].st /\ q.mode = obj[o].mode
       /\ q.freq = obj[o].freq
       /\ FlagSound(q) /\ ChanWrite(t, r, o, q)
  BY DEF Writes
<1>2. PICK o \in Object :
       /\ Write(t, r, o, q) /\ Sound(r)
       /\ q \in ObjType /\ obj[o].st # "freed"
       /\ q.name = obj[o].name /\ q.st = obj[o].st /\ q.mode = obj[o].mode
       /\ q.freq = obj[o].freq
       /\ FlagSound(q) /\ ChanWrite(t, r, o, q)
  BY <1>1
<1>3. /\ obj' = [obj EXCEPT ![o] = q] /\ wild' = wild /\ wild = "no"
      /\ thread' = [thread EXCEPT ![t] = r]
      /\ UNCHANGED <<phase, next, daemonize, slots, count, busy, toe, events>>
  BY <1>2 DEF Write, Alive
<1>4. \A u \in Thread : thread'[u] = IF u = t THEN r ELSE thread[u]
  BY <1>3 DEF Inv, TypeInv
<1>5. obj' \in [Object -> ObjType]
      /\ \A p \in Object : obj'[p] = IF p = o THEN q ELSE obj[p]
  BY <1>2, <1>3 DEF Inv, TypeInv
<1>6. SameTable
  BY <1>2, <1>3, <1>5 DEF SameTable
<1>7. TypeInv'
  <2>1. thread' \in [Thread -> CallType]
    BY <1>2, <1>3 DEF Sound, Inv, TypeInv
  <2>2. QED
    BY <2>1, <1>3, <1>5 DEF Inv, TypeInv
<1>8. TableInv'
  BY <1>6, SameTableKeeps
<1>9. CallInv'
  <2>1. ASSUME NEW u \in Thread
        PROVE  (Locals(thread[u]) /\ Holds(thread[u]) /\ Knows(thread[u]))'
    <3>1. CASE u = t
      BY <1>2, <1>3, <1>4, <1>6, <3>1, SoundKept DEF Sound, Locals
    <3>2. CASE u # t
      <4>1. thread'[u] = thread[u]
        BY <1>4, <3>2
      <4>2. QED
        BY <1>3, <1>6, <4>1, CallOf, SoundKept DEF Locals
    <3>3. QED
      BY <3>1, <3>2
  <2>2. QED
    BY <2>1 DEF CallInv
<1>10. ChanInv'
  <2>1. SUFFICES ASSUME NEW p \in Object, obj'[p].st # "freed",
                        "channel" \notin obj'[p].odd
                 PROVE  /\ \A v, u \in Thread : Fills(v, p)' /\ Fills(u, p)' => v = u
                        /\ obj'[p].st = "up" /\ obj'[p].freq # 0 =>
                             /\ \A u \in Thread : Fills(u, p)' => thread'[u].old = obj'[p].freq
                             /\ (\A u \in Thread : ~Fills(u, p)') => obj'[p].chan = obj'[p].freq
    BY DEF ChanInv
  <2>2. obj[p].st # "freed" /\ obj'[p].st = obj[p].st
        /\ obj'[p].freq = obj[p].freq
    BY <2>1, <1>2, <1>5
  <2>3. "channel" \notin obj[p].odd
    BY <2>1, <1>2, <1>5 DEF ChanWrite
  <2>4. /\ \A v, u \in Thread : Fills(v, p) /\ Fills(u, p) => v = u
        /\ obj[p].st = "up" /\ obj[p].freq # 0 =>
             /\ \A u \in Thread : Fills(u, p) => thread[u].old = obj[p].freq
             /\ (\A u \in Thread : ~Fills(u, p)) => obj[p].chan = obj[p].freq
    BY <2>2, <2>3 DEF Inv, ChanInv
  <2>5. \A u \in Thread : u # t => /\ Fills(u, p)' <=> Fills(u, p)
                                   /\ thread'[u].old = thread[u].old
    BY <1>4 DEF Fills
  <2>6. /\ Fills(t, p)' <=> r.pc = "restore" /\ r.at = p
        /\ thread'[t] = r
    BY <1>4 DEF Fills
  <2>7. CASE thread[t].pc # "restore" /\ r.pc = "restore" /\ r.at = o
             /\ r.old = obj[o].chan
             /\ ("channel" \notin q.odd => ~Filling(o))
    <3>1. CASE p = o
      <4>1. \A u \in Thread : ~Fills(u, o)
        BY <2>1, <2>7, <3>1, <1>5 DEF Filling, Fills
      <4>2. \A u \in Thread : Fills(u, p)' => u = t
        BY <2>5, <3>1, <4>1
      <4>3. Fills(t, p)'
        BY <2>6, <2>7, <3>1
      <4>4. obj[p].st = "up" /\ obj[p].freq # 0 => r.old = obj[p].freq
        BY <2>4, <2>7, <3>1, <4>1
      <4>5. QED
        BY <4>2, <4>3, <4>4, <2>2, <2>6
    <3>2. CASE p # o
      <4>1. ~Fills(t, p)' /\ ~Fills(t, p) /\ obj'[p] = obj[p]
        BY <2>6, <2>7, <3>2, <1>5 DEF Fills
      <4>2. QED
        BY <4>1, <2>2, <2>4, <2>5
    <3>3. QED
      BY <3>1, <3>2
  <2>8. CASE thread[t].pc = "restore" /\ thread[t].at = o
             /\ r.pc # "restore" /\ q.chan = thread[t].old
    <3>1. ~Fills(t, p)'
      BY <2>6, <2>8
    <3>2. CASE p = o
      <4>1. Fills(t, p)
        BY <2>8, <3>2 DEF Fills
      <4>2. \A u \in Thread : ~Fills(u, p)'
        BY <2>4, <2>5, <3>1, <4>1
      <4>3. obj'[p].chan = thread[t].old
        BY <2>8, <3>2, <1>5
      <4>4. QED
        BY <4>1, <4>2, <4>3, <2>2, <2>4
    <3>3. CASE p # o
      <4>1. ~Fills(t, p) /\ obj'[p] = obj[p]
        BY <2>8, <3>3, <1>5 DEF Fills
      <4>2. QED
        BY <4>1, <3>1, <2>2, <2>4, <2>5
    <3>4. QED
      BY <3>2, <3>3
  <2>9. CASE thread[t].pc # "restore" /\ r.pc # "restore"
             /\ ("channel" \notin q.odd => q.chan = obj[o].chan)
    <3>1. ~Fills(t, p)' /\ ~Fills(t, p)
      BY <2>6, <2>9 DEF Fills
    <3>2. obj'[p].chan = obj[p].chan
      BY <2>1, <2>9, <1>5
    <3>3. QED
      BY <3>1, <3>2, <2>2, <2>4, <2>5
  <2>10. QED
    BY <1>2, <2>7, <2>8, <2>9 DEF ChanWrite
<1>11. FlagInv'
  <2>1. \A p \in Object : FlagSound(obj[p])
    BY DEF Inv, FlagInv, FlagSound
  <2>2. \A p \in Object : FlagSound(obj'[p])
    BY <1>2, <1>5, <2>1
  <2>3. QED
    BY <2>2 DEF FlagInv, FlagSound
<1>12. QED
  BY <1>7, <1>8, <1>9, <1>10, <1>11 DEF Inv

LEMMA ReadsType ==
    ASSUME NEW op
    PROVE  Reads(op) \in Seq(Field)
<1>1. <<"channel", "frequency">> \in Seq(Field)
  BY DEF Field
<1>2. <<"frequency">> \in Seq(Field)
  BY DEF Field
<1>3. <<"ssid", "channel", "frequency">> \in Seq(Field)
  BY DEF Field
<1>4. <<"phy", "ssid", "frequency", "secondary_ch", "mac", "vht_chwidth">>
        \in Seq(Field)
  BY DEF Field
<1>5. <<>> \in Seq(Field)
  OBVIOUS
<1>6. QED
  BY <1>1, <1>2, <1>3, <1>4, <1>5 DEF Reads

LEMMA BeginStep ==
    ASSUME Inv, NEW t \in Thread, NEW op \in Request, NEW n \in Named,
           NEW c \in Asked, Begin(t, op, n, c)
    PROVE  Moves(t) /\ Alive
<1> DEFINE todo == Reads(op)
           r == [IdleThread EXCEPT !.pc = "lookup", !.op = op, !.name = n,
                                   !.arg = c, !.todo = todo]
<1>1. /\ 0 \in 0..MaxObject /\ 0 \in Tuned /\ todo \in Seq(Field)
      /\ -1 \in -1..(MaxObject - 1)
  BY InterfacesConstants, ReadsType DEF Tuned
<1>2. To(t, r) /\ thread[t].pc # "restore" /\ Alive
  BY DEF Begin, To, ServerRuns
<1> HIDE DEF todo
<1>3. r \in CallType
  BY <1>1 DEF IdleThread, CallType, Pc
<1>4. /\ r.pc = "lookup" /\ r.conf = "none" /\ r.other = FALSE
      /\ r.wiphy = -1
  BY DEF IdleThread
<1> HIDE DEF r
<1>5. Locals(r)
  BY <1>4 DEF Locals, Setting
<1>6. Holds(r) /\ Knows(r)
  BY <1>4 DEF Holds, Knows, Holding
<1>7. QED
  BY <1>2, <1>3, <1>4, <1>5, <1>6 DEF Sound, Moves

-----------------------------------------------------------------------------
(* The steps of main() and of the event loop *)

\* A call goes on as it was, having seen what happened.
Follows(c, d) ==
    /\ d \in CallType
    /\ d.pc = c.pc /\ d.op = c.op /\ d.name = c.name /\ d.arg = c.arg
    /\ d.i = c.i /\ d.wiphy = c.wiphy /\ d.todo = c.todo /\ d.at = c.at
    /\ d.old = c.old /\ d.other = c.other /\ c.during \subseteq d.during
    /\ d.conf = c.conf \/ (/\ d.conf = "freed" /\ "reload" \in d.during
                           /\ d.pc # "idle")

\* A call is over; if it was to restore a channel, this is known.
Ends(c, d) ==
    /\ d \in CallType /\ d.pc \in {"done", "lost"}
    /\ d.conf = "none" /\ d.other = FALSE
    /\ c.pc = "restore" => "channel" \in obj'[c.at].odd

\* No interface is renamed, and none but a new one is without configuration.
ObjectsKept ==
    \A o \in Object :
       obj[o].st # "unused" =>
          /\ obj'[o].name = obj[o].name /\ obj'[o].st # "unused"
          /\ obj'[o].st = "noconf" => obj[o].st = "noconf"

\* Every call has seen that an interface is freed, unless it is a new one ...
FreedSeen ==
    \A o \in Object :
       obj'[o].st = "freed" /\ obj[o].st \notin {"freed", "noconf"} =>
          \A u \in Thread :
             thread[u].pc \in Running =>
                "remove" \in thread'[u].during \/ "end" \in thread'[u].during

\* ... and that an entry of the table has changed.
EntriesKept ==
    \/ \A u \in Thread : thread[u].pc \in Running =>
                            "remove" \in thread'[u].during
    \/ \A i \in 1..count :
          obj[slots[i]].st # "noconf" => i <= count' /\ slots'[i] = slots[i]

\* The channel of an interface is as it was, or nobody is about to restore it.
ChanKept(o) ==
    obj'[o].st # "freed" /\ "channel" \notin obj'[o].odd =>
       \/ /\ obj[o].st # "freed" /\ "channel" \notin obj[o].odd
          /\ obj'[o].st = "up" /\ obj'[o].freq # 0 =>
               /\ obj[o].st = "up" /\ obj'[o].freq = obj[o].freq
               /\ obj'[o].chan = obj[o].chan
       \/ /\ \A u \in Thread : ~Fills(u, o)
          /\ obj'[o].st = "up" /\ obj'[o].freq # 0 => obj'[o].chan = obj'[o].freq

LEMMA LoopKeeps ==
    ASSUME Inv, wild' = wild, count' \in Nat,
           \A u \in Thread : \/ Follows(thread[u], thread'[u])
                            \/ Ends(thread[u], thread'[u]),
           ObjectsKept, FreedSeen, EntriesKept,
           \A o \in Object : ChanKept(o) /\ FlagSound(obj'[o])
    PROVE  CallInv' /\ ChanInv' /\ FlagInv'
<1>0. ASSUME NEW u \in Thread, Ends(thread[u], thread'[u])
      PROVE  (Locals(thread[u]) /\ Holds(thread[u]) /\ Knows(thread[u]))'
  BY <1>0 DEF Ends, Locals, Holds, Knows, Setting, Holding, Running, Pc
<1>1. ASSUME NEW u \in Thread, Follows(thread[u], thread'[u])
      PROVE  (Locals(thread[u]) /\ Holds(thread[u]) /\ Knows(thread[u]))'
  <2> DEFINE c == thread[u]
             d == thread'[u]
  <2>1. /\ c \in CallType /\ Locals(c) /\ Holds(c) /\ Knows(c)
        /\ TypeInv /\ TableInv
    BY CallOf
  <2>2. Follows(c, d)
    BY <1>1
  <2>3. Locals(thread[u])'
    BY <2>1, <2>2 DEF Locals, Follows
  <2>4. Holds(thread[u])'
    <3>1. SUFFICES ASSUME d.pc \in Holding
                   PROVE  /\ d.at \in Object /\ obj'[d.at].st # "unused"
                          /\ obj'[d.at].st = "noconf" =>
                               /\ d.pc = "read"
                               /\ Head(d.todo) \notin InConf \cup InBss
                               /\ "remove" \in d.during
                          /\ obj'[d.at].st = "freed" =>
                               "remove" \in d.during \/ "end" \in d.during
      BY DEF Holds
    <3>2. /\ c.pc \in Holding /\ c.at = d.at /\ c.pc = d.pc
          /\ c.todo = d.todo /\ c.during \subseteq d.during
      BY <2>2, <3>1 DEF Follows
    <3>3. /\ d.at \in Object /\ obj[d.at].st # "unused"
          /\ obj[d.at].st = "noconf" =>
               /\ d.pc = "read" /\ Head(d.todo) \notin InConf \cup InBss
               /\ "remove" \in d.during
          /\ obj[d.at].st = "freed" =>
               "remove" \in d.during \/ "end" \in d.during
      BY <2>1, <3>2 DEF Holds
    <3>4. obj'[d.at].st # "unused" /\ (obj'[d.at].st = "noconf" =>
                                         obj[d.at].st = "noconf")
      BY <3>3 DEF ObjectsKept
    <3>5. c.pc \in Running
      BY <3>2 DEF Holding, Running, Pc
    <3>6. obj'[d.at].st = "freed" => "remove" \in d.during \/ "end" \in d.during
      BY <3>3, <3>5 DEF FreedSeen
    <3>7. QED
      BY <3>3, <3>4, <3>6
  <2>5. Knows(thread[u])'
    <3>1. SUFFICES ASSUME d.pc \in Running, "remove" \notin d.during
                   PROVE  /\ 0 <= d.wiphy =>
                               /\ d.wiphy + 1 <= count'
                               /\ obj'[slots'[d.wiphy + 1]].name = d.name
                               /\ obj'[slots'[d.wiphy + 1]].st # "noconf"
                          /\ d.pc = "compare" =>
                               d.i + 1 <= count' /\ slots'[d.i + 1] = d.at
                          /\ d.pc = "read" => obj'[d.at].name = d.name
      BY DEF Knows
    <3>2. /\ c.pc \in Running /\ "remove" \notin c.during /\ c.pc = d.pc
          /\ c.at = d.at /\ c.i = d.i /\ c.wiphy = d.wiphy /\ c.name = d.name
      BY <2>2, <3>1 DEF Follows
    <3>3. \A i \in 1..count :
             obj[slots[i]].st # "noconf" => i <= count' /\ slots'[i] = slots[i]
      BY <3>1, <3>2 DEF EntriesKept
    <3>4. /\ c.wiphy \in Int /\ c.i \in Nat /\ count \in Nat
      BY <2>1, CallFields, InterfacesConstants DEF TypeInv
    <3>5. ASSUME 0 <= d.wiphy
          PROVE  /\ d.wiphy + 1 <= count'
                 /\ obj'[slots'[d.wiphy + 1]].name = d.name
                 /\ obj'[slots'[d.wiphy + 1]].st # "noconf"
      <4>1. /\ d.wiphy + 1 \in 1..count
            /\ obj[slots[d.wiphy + 1]].name = d.name
            /\ obj[slots[d.wiphy + 1]].st # "noconf"
        BY <2>1, <3>2, <3>4, <3>5 DEF Knows
      <4>2. d.wiphy + 1 <= count' /\ slots'[d.wiphy + 1] = slots[d.wiphy + 1]
        BY <3>3, <4>1
      <4>3. slots[d.wiphy + 1] \in Object
            /\ obj[slots[d.wiphy + 1]].st # "unused"
        <5>1. d.wiphy + 1 \in 1..Len(slots)
          BY <2>1, <4>1 DEF TypeInv
        <5>2. QED
          BY <2>1, <4>1, <5>1 DEF TableInv
      <4>4. QED
        BY <4>1, <4>2, <4>3 DEF ObjectsKept
    <3>6. ASSUME d.pc = "compare"
          PROVE  d.i + 1 <= count' /\ slots'[d.i + 1] = d.at
      <4>1. d.i + 1 \in 1..count /\ slots[d.i + 1] = d.at
        BY <2>1, <3>2, <3>4, <3>6 DEF Knows
      <4>2. obj[d.at].st # "noconf"
        BY <2>1, <3>2, <3>6 DEF Holds, Holding
      <4>3. QED
        BY <3>3, <4>1, <4>2
    <3>7. ASSUME d.pc = "read"
          PROVE  obj'[d.at].name = d.name
      <4>1. d.at \in Object /\ obj[d.at].st # "unused"
        BY <2>1, <3>2, <3>7 DEF Holds, Holding
      <4>2. obj[d.at].name = d.name
        BY <2>1, <3>2, <3>7 DEF Knows
      <4>3. QED
        BY <4>1, <4>2 DEF ObjectsKept
    <3>8. QED
      BY <3>5, <3>6, <3>7
  <2>6. QED
    BY <2>3, <2>4, <2>5
<1>2. CallInv'
  BY <1>0, <1>1 DEF CallInv
<1>3. ChanInv'
  <2>1. \A u \in Thread, o \in Object :
           "channel" \notin obj'[o].odd =>
              /\ Fills(u, o)' <=> Fills(u, o)
              /\ Fills(u, o)' => thread'[u].old = thread[u].old
    BY DEF Fills, Follows, Ends
  <2>2. ASSUME NEW o \in Object, obj'[o].st # "freed",
               "channel" \notin obj'[o].odd
        PROVE  /\ \A v, u \in Thread : Fills(v, o)' /\ Fills(u, o)' => v = u
               /\ obj'[o].st = "up" /\ obj'[o].freq # 0 =>
                    /\ \A u \in Thread : Fills(u, o)' => thread'[u].old = obj'[o].freq
                    /\ (\A u \in Thread : ~Fills(u, o)') => obj'[o].chan = obj'[o].freq
    <3>1. CASE /\ obj[o].st # "freed" /\ "channel" \notin obj[o].odd
               /\ obj'[o].st = "up" /\ obj'[o].freq # 0 =>
                    /\ obj[o].st = "up" /\ obj'[o].freq = obj[o].freq
                    /\ obj'[o].chan = obj[o].chan
      BY <2>1, <2>2, <3>1 DEF Inv, ChanInv
    <3>2. CASE /\ \A u \in Thread : ~Fills(u, o)
               /\ obj'[o].st = "up" /\ obj'[o].freq # 0 => obj'[o].chan = obj'[o].freq
      BY <2>1, <2>2, <3>2
    <3>3. QED
      BY <2>2, <3>1, <3>2 DEF ChanKept
  <2>3. QED
    BY <2>2 DEF ChanInv
<1>4. FlagInv'
  BY DEF FlagInv, FlagSound
<1>5. QED
  BY <1>2, <1>3, <1>4

LEMMA FollowsSame ==
    ASSUME Inv
    PROVE  \A u \in Thread : Follows(thread[u], thread[u])
BY DEF Inv, TypeInv, Follows

LEMMA DisturbFollows ==
    ASSUME Inv, NEW k \in {"remove", "end", "reload"},
           thread' = Disturb(thread, k)
    PROVE  /\ thread' \in [Thread -> CallType]
           /\ \A u \in Thread : Follows(thread[u], thread'[u])
           /\ \A u \in Thread : thread[u].pc \in Running =>
                                   k \in thread'[u].during
<1>1. ASSUME NEW u \in Thread
      PROVE  /\ thread'[u] \in CallType /\ Follows(thread[u], thread'[u])
             /\ thread[u].pc \in Running => k \in thread'[u].during
  <2> DEFINE c == thread[u]
             during == c.during \cup {k}
             d == [c EXCEPT !.during = during]
  <2>1. c \in CallType
    BY CallOf
  <2>2. thread'[u] = IF c.pc = "idle" THEN c ELSE d
    BY DEF Disturb
  <2>3. during \in SUBSET {"remove", "end", "reload"}
    BY <2>1, CallFields
  <2> HIDE DEF during
  <2>4. /\ d \in CallType
        /\ d.pc = c.pc /\ d.op = c.op /\ d.name = c.name /\ d.arg = c.arg
        /\ d.i = c.i /\ d.wiphy = c.wiphy /\ d.todo = c.todo /\ d.at = c.at
        /\ d.old = c.old /\ d.other = c.other /\ d.during = during
        /\ d.conf = c.conf
    BY <2>1, <2>3 DEF CallType
  <2>5. c.during \subseteq during /\ k \in during
    BY DEF during
  <2> HIDE DEF d
  <2>6. Follows(c, d) /\ Follows(c, c)
    BY <2>1, <2>4, <2>5 DEF Follows
  <2>7. c.pc \in Running => c.pc # "idle"
    BY DEF Running
  <2>8. QED
    BY <2>1, <2>2, <2>4, <2>5, <2>6, <2>7
<1>2. thread' = [u \in Thread |-> thread'[u]]
  BY DEF Disturb
<1>3. QED
  BY <1>1, <1>2

LEMMA ReloadFollows ==
    ASSUME Inv, NEW S, NEW u \in Thread
    PROVE  Follows(thread[u], Disturb(FreeConf(thread, S), "reload")[u])
<1> DEFINE c == thread[u]
           during == c.during \cup {"reload"}
           held == c.conf = "held" /\ c.at \in S
           f == IF held THEN [c EXCEPT !.conf = "freed"] ELSE c
           d == [f EXCEPT !.during = during]
<1>1. c \in CallType /\ Locals(c)
  BY CallOf
<1>2. during \in SUBSET {"remove", "end", "reload"} /\ "reload" \in during
      /\ c.during \subseteq during
  BY <1>1, CallFields
<1>3. /\ f \in CallType
      /\ f.pc = c.pc /\ f.op = c.op /\ f.name = c.name /\ f.arg = c.arg
      /\ f.i = c.i /\ f.wiphy = c.wiphy /\ f.todo = c.todo /\ f.at = c.at
      /\ f.old = c.old /\ f.other = c.other /\ f.during = c.during
      /\ f.conf = IF held THEN "freed" ELSE c.conf
  <2>1. CASE held
    BY <1>1, <2>1 DEF CallType
  <2>2. CASE ~held
    BY <1>1, <2>2
  <2>3. QED
    BY <2>1, <2>2
<1>4. FreeConf(thread, S)[u] = f
  BY DEF FreeConf
<1> HIDE DEF f
<1>5. Disturb(FreeConf(thread, S), "reload")[u] = IF f.pc = "idle" THEN f ELSE d
  BY <1>3, <1>4 DEF Disturb
<1> HIDE DEF during
<1>6. /\ d \in CallType
      /\ d.pc = f.pc /\ d.op = f.op /\ d.name = f.name /\ d.arg = f.arg
      /\ d.i = f.i /\ d.wiphy = f.wiphy /\ d.todo = f.todo /\ d.at = f.at
      /\ d.old = f.old /\ d.other = f.other /\ d.during = during
      /\ d.conf = f.conf
  BY <1>2, <1>3 DEF CallType
<1> HIDE DEF d
<1>7. c.pc = "idle" => ~held
  BY <1>1 DEF Locals
<1>8. CASE f.pc = "idle"
  BY <1>3, <1>5, <1>7, <1>8 DEF Follows
<1>9. CASE f.pc # "idle"
  BY <1>2, <1>3, <1>5, <1>6, <1>9 DEF Follows
<1>10. QED
  BY <1>8, <1>9

\* The interfaces and the table are as they were.
LEMMA NothingElse ==
    ASSUME Inv, UNCHANGED <<slots, count, obj>>
    PROVE  /\ ObjectsKept /\ FreedSeen /\ EntriesKept
           /\ \A o \in Object : ChanKept(o) /\ FlagSound(obj'[o])
<1>1. TypeInv /\ TableInv /\ ChanInv /\ FlagInv
  BY DEF Inv
<1>2. ObjectsKept /\ FreedSeen
  BY DEF ObjectsKept, FreedSeen
<1>3. EntriesKept
  <2>1. \A i \in 1..count : i <= count' /\ slots'[i] = slots[i]
    BY <1>1 DEF TypeInv
  <2>2. QED
    BY <2>1 DEF EntriesKept
<1>4. \A o \in Object : ChanKept(o)
  BY DEF ChanKept
<1>5. \A o \in Object : FlagSound(obj'[o])
  BY <1>1 DEF FlagInv, FlagSound
<1>6. QED
  BY <1>2, <1>3, <1>4, <1>5

LEMMA ReloadStep ==
    ASSUME Inv, NEW t \in Thread, hostapd_reload_config(t)
    PROVE  Moves(t) \/ Fails(t)
<1> DEFINE c == thread[t]
           o == SlotAt(c.wiphy)
           k == Wild(o, "switch")
           r == [c EXCEPT !.pc = "flush", !.at = o]
<1>1. /\ c \in CallType /\ Locals(c) /\ Knows(c) /\ TypeInv /\ TableInv
      /\ Alive /\ c.pc = "reload"
  BY CallOf DEF hostapd_reload_config, ThreadAt
<1>2. c.wiphy \in Nat
  BY <1>1, CallFields DEF Locals
<1>3. c.pc \in Setting /\ c.pc \in Running /\ c.op \in Setters
  BY <1>1 DEF Setting, Running, Pc, Locals
<1>4. /\ k # "no" => k \in Kinds /\ Cause(t)[k]
      /\ k = "no" => /\ o \in Object /\ obj[o].st # "freed"
                     /\ obj[o].st # "unused" /\ obj[o].st # "noconf"
  BY <1>1, <1>2, <1>3, SetterSlot
<1>5. CASE k # "no" /\ Crash(t, k)
  BY <1>1, <1>3, <1>4, <1>5 DEF Fails
<1>6. CASE To(t, Done(t, -1))
  <2>1. Sound(Done(t, -1)) /\ Done(t, -1).pc # "restore"
    BY DoneSound
  <2>2. QED
    BY <1>1, <1>6, <2>1 DEF Moves
<1>7. CASE k = "no" /\ To(t, r)
  <2>1. /\ o \in Object /\ obj[o].st # "freed"
        /\ obj[o].st # "unused" /\ obj[o].st # "noconf"
    BY <1>4, <1>7
  <2> HIDE DEF o
  <2>2. /\ r \in CallType /\ r.pc = "flush" /\ r.conf = c.conf
        /\ r.during = c.during /\ r.other = c.other /\ r.op = c.op
        /\ r.wiphy = c.wiphy /\ r.name = c.name /\ r.arg = c.arg /\ r.at = o
    BY <1>1, <2>1 DEF CallType, Pc
  <2>3. To(t, r)
    BY <1>7
  <2> HIDE DEF r
  <2>4. Locals(r)
    BY <1>1, <1>3, <2>2 DEF Locals, Setting
  <2>5. Holds(r)
    BY <2>1, <2>2 DEF Holds, Holding
  <2>6. Knows(r)
    BY <1>1, <1>3, <2>2 DEF Knows
  <2>7. Sound(r) /\ r.pc # "restore"
    BY <2>2, <2>4, <2>5, <2>6 DEF Sound
  <2>8. QED
    BY <1>1, <2>3, <2>7 DEF Moves
<1>8. QED
  BY <1>5, <1>6, <1>7 DEF hostapd_reload_config

\* hostapd_clear_old.
LEMMA FlushStep ==
    ASSUME Inv, NEW t \in Thread, hostapd_clear_old(t)
    PROVE  Moves(t) \/ Fails(t)
<1> DEFINE c == thread[t]
           k == Wild(c.at, "switch")
           r == [c EXCEPT !.pc = "swap", !.conf = "held"]
<1>1. Alive /\ c.pc = "flush" /\ c \in CallType /\ Locals(c)
  BY CallOf DEF hostapd_clear_old, ThreadAt
<1>2. c.pc \in Running /\ c.op \in Setters
  BY <1>1 DEF Running, Pc, Setting, Locals
<1>3. k # "no" => k \in Kinds /\ Cause(t)[k]
  BY <1>1, SetterHolds
<1>4. CASE k # "no" /\ Crash(t, k)
  BY <1>1, <1>2, <1>3, <1>4 DEF Fails
<1>5. CASE Flushing(t) # {} /\ Crash(t, "station")
  <2>1. Cause(t)["station"]
    BY <1>2, <1>5 DEF Cause
  <2>2. QED
    BY <1>1, <1>2, <1>5, <2>1 DEF Fails, Kinds
<1>6. CASE To(t, Done(t, 0))
  <2>1. Sound(Done(t, 0)) /\ Done(t, 0).pc # "restore"
    BY DoneSound
  <2>2. QED
    BY <1>1, <1>6, <2>1 DEF Moves
<1>7. CASE To(t, r)
  <2>1. /\ r \in CallType /\ r.pc = "swap" /\ r.conf = "held"
        /\ r.during = c.during /\ r.other = c.other /\ r.op = c.op
        /\ r.wiphy = c.wiphy /\ r.name = c.name /\ r.arg = c.arg
        /\ r.at = c.at
    BY <1>1 DEF CallType, Pc
  <2>2. To(t, r)
    BY <1>7
  <2> HIDE DEF r
  <2>3. Sound(r) /\ r.pc # "restore"
    BY <1>1, <2>1, GoesOn
  <2>4. QED
    BY <1>1, <2>2, <2>3 DEF Moves
<1>8. QED
  BY <1>4, <1>5, <1>6, <1>7 DEF hostapd_clear_old

LEMMA ReplaceStep ==
    ASSUME Inv, NEW t \in Thread, ReplaceConf(t)
    PROVE  Fails(t) \/ (Inv' /\ UNCHANGED wild)
<1> DEFINE c == thread[t]
           k == WildHeld(t, "switch")
<1>1. /\ c \in CallType /\ Locals(c) /\ TypeInv /\ TableInv /\ CallInv
      /\ Alive /\ c.pc = "swap"
  BY CallOf DEF ReplaceConf, ThreadAt
<1>2. c.pc \in Holding /\ c.pc \in Running
  BY <1>1 DEF Holding, Running, Pc
<1>3. k # "no" => k \in Kinds /\ Cause(t)[k]
  BY <1>1, <1>2, HeldCause DEF InBss
<1>4. Sound(Done(t, 0)) /\ Done(t, 0).pc = "done"
  BY DoneSound
<1>5. CASE k # "no" /\ Crash(t, k)
  BY <1>1, <1>2, <1>3, <1>5 DEF Fails
<1>8. CASE /\ thread' = [Disturb(FreeConf(thread, {c.at}), "reload")
                            EXCEPT ![t] = Done(t, 0)]
           /\ UNCHANGED <<phase, next, daemonize, slots, count, obj,
                          busy, toe, events, wild>>
  <2> DEFINE T == Disturb(FreeConf(thread, {c.at}), "reload")
  <2>1. T = [u \in Thread |-> T[u]]
    BY DEF Disturb
  <2>2. \A u \in Thread : Follows(thread[u], T[u])
    BY ReloadFollows
  <2>3. Ends(c, Done(t, 0))
    BY <1>1, <1>4 DEF Ends, Sound, Done, IdleThread
  <2> HIDE DEF T
  <2>4. \A u \in Thread : thread'[u] = IF u = t THEN Done(t, 0) ELSE T[u]
    BY <1>8, <2>1 DEF T
  <2>5. \A u \in Thread : \/ Follows(thread[u], thread'[u])
                          \/ Ends(thread[u], thread'[u])
    BY <2>2, <2>3, <2>4
  <2>6. thread' \in [Thread -> CallType]
    <3>1. \A u \in Thread : thread'[u] \in CallType
      BY <2>5 DEF Follows, Ends
    <3>2. thread' = [u \in Thread |-> thread'[u]]
      BY <1>8, <2>1 DEF T
    <3>3. QED
      BY <3>1, <3>2
  <2>7. TypeInv'
    BY <1>1, <1>8, <2>6 DEF TypeInv
  <2>8. SameTable
    BY <1>1, <1>8 DEF SameTable, TypeInv
  <2>9. TableInv'
    BY <2>8, SameTableKeeps
  <2>10. CallInv' /\ ChanInv' /\ FlagInv'
    <3>1. count' \in Nat
      BY <1>1, <1>8 DEF TypeInv
    <3>2. QED
      BY <1>8, <2>5, <3>1, NothingElse, LoopKeeps
  <2>11. QED
    BY <1>8, <2>7, <2>9, <2>10 DEF Inv
<1>9. QED
  BY <1>5, <1>8 DEF ReplaceConf

\* The array of the table has moved.
LEMMA MovedStep ==
    ASSUME Inv, NEW t \in Thread, ArrayMoved(t)
    PROVE  Fails(t) /\ Alive
<1>1. /\ Alive /\ Crash(t, "moved") /\ busy # <<>> /\ busy[1] = "add"
      /\ thread[t].pc \in {"lookup", "get", "convert", "fill", "force", "reload"}
  BY DEF ArrayMoved
<1>2. Cause(t)["moved"]
  BY <1>1 DEF Cause
<1>3. thread[t].pc \in Running /\ thread[t].pc # "restore"
  BY <1>1 DEF Running, Pc
<1>4. QED
  BY <1>1, <1>2, <1>3 DEF Fails, Kinds

\* The event loop loses what it holds.
LEMMA LostStep ==
    ASSUME Inv, NEW o \in Object, StationLost(o)
    PROVE  Inv' /\ NoWildAccess'
<1>1. /\ wild = "no" /\ wild' = "station" /\ HasDriver(obj[o]) /\ Reloading(o)
      /\ UNCHANGED <<phase, next, daemonize, slots, count, obj, busy, thread,
                     toe, events>>
  BY DEF StationLost, EventLoop, Alive
<1>2. TypeInv' /\ TableInv'
  BY <1>1 DEF Inv, TypeInv, TableInv, BusyInv, MainInv
<1>3. CallInv'
  <2>1. SUFFICES ASSUME NEW t \in Thread
                 PROVE  (Locals(thread[t]) /\ Holds(thread[t])
                         /\ Knows(thread[t]))'
    BY DEF CallInv
  <2>2. Locals(thread[t]) /\ Holds(thread[t]) /\ Knows(thread[t])
    BY CallOf
  <2>3. Locals(thread[t])'
    BY <1>1, <2>2 DEF Locals
  <2>4. Holds(thread[t])' /\ Knows(thread[t])'
    BY <1>1, <2>2 DEF Holds, Knows
  <2>5. QED
    BY <2>3, <2>4
<1>4. ChanInv' /\ FlagInv'
  BY <1>1 DEF Inv, ChanInv, FlagInv, Fills
<1>5. \A t \in Thread : thread[t].pc # "wild"
  BY <1>1, CallOf DEF Locals
<1>6. PICK t \in Thread : /\ thread[t].pc \in {"flush", "swap"}
                          /\ thread[t].at = o
  BY <1>1 DEF Reloading
<1>7. thread[t].op \in Setters /\ thread[t].arg \in Channel
  BY <1>6, CallOf DEF Locals, Setting
<1>8. NoWildAccess'
  BY <1>1, <1>5, <1>6, <1>7 DEF NoWildAccess, HasDriver
<1>9. QED
  BY <1>2, <1>3, <1>4, <1>8 DEF Inv

\* handle_reload.
LEMMA SighupStep ==
    ASSUME Inv, handle_reload
    PROVE  Inv' /\ UNCHANGED wild
<1>1. TypeInv /\ TableInv
  BY DEF Inv
<1>2. PICK S : thread' = Disturb(FreeConf(thread, S), "reload")
  BY DEF handle_reload
<1>3. /\ UNCHANGED <<phase, next, daemonize, slots, count, obj, busy, toe, wild>>
      /\ events < MaxEvents /\ events' = events + 1
  BY DEF handle_reload, Event
<1>4. \A u \in Thread : Follows(thread[u], thread'[u])
  BY <1>2, ReloadFollows
<1>5. thread' \in [Thread -> CallType]
  <2>1. \A u \in Thread : thread'[u] \in CallType
    BY <1>4 DEF Follows
  <2>2. thread' = [u \in Thread |-> thread'[u]]
    BY <1>2 DEF Disturb
  <2>3. QED
    BY <2>1, <2>2
<1>6. events' \in 0..MaxEvents
  BY <1>1, <1>3, InterfacesConstants DEF TypeInv
<1>7. TypeInv'
  BY <1>1, <1>3, <1>5, <1>6 DEF TypeInv
<1>8. TableInv'
  BY <1>1, <1>3 DEF TableInv, BusyInv, MainInv
<1>9. CallInv' /\ ChanInv' /\ FlagInv'
  <2>1. count' \in Nat
    BY <1>1, <1>3 DEF TypeInv
  <2>2. QED
    BY <1>3, <1>4, <2>1, NothingElse, LoopKeeps
<1>10. QED
  BY <1>3, <1>7, <1>8, <1>9 DEF Inv

\* The events of main() and of the event loop that change an interface in
\* place: nothing enters or leaves the table.
LEMMA ObjectStep ==
    ASSUME Inv, NEW o \in Object, NEW q \in ObjType,
           obj' = [obj EXCEPT ![o] = q],
           UNCHANGED <<slots, count, busy, thread, wild, daemonize>>,
           busy = <<>>, phase \in {"setup", "run"},
           obj[o].st \notin {"unused", "freed", "noconf"},
           q.st \notin {"unused", "freed", "noconf"}, q.name = obj[o].name,
           phase' \in {"setup", "run", "out"}, events' \in 0..MaxEvents,
           next' \in 1..(MaxObject + 1), toe' \in 0..MaxObject,
           MainInv', ChanKept(o), FlagSound(q)
    PROVE  Inv' /\ UNCHANGED wild
<1>1. TypeInv /\ TableInv /\ FlagInv
  BY DEF Inv
<1>2. /\ obj' \in [Object -> ObjType]
      /\ \A p \in Object : obj'[p] = IF p = o THEN q ELSE obj[p]
  BY <1>1 DEF TypeInv
<1>3. TypeInv'
  BY <1>1, <1>2 DEF TypeInv
<1>4. \A i \in 1..Len(slots) :
         slots[i] \in Object => obj'[slots[i]].st # "unused"
  BY <1>1, <1>2 DEF TableInv
<1>5. \A i \in 1..count : slots[i] \in Object /\ obj'[slots[i]].st # "freed"
  <2>1. \A i \in 1..count : busy # <<"remove", i>>
    OBVIOUS
  <2>2. \A i \in 1..count : slots[i] \in Object /\ obj[slots[i]].st # "freed"
    BY <1>1, <2>1 DEF TableInv
  <2>3. QED
    BY <1>2, <2>2
<1>6. \A p \in Object : /\ obj'[p].st = "unused" => count < p
                        /\ obj'[p].st = "noconf" => busy = <<"add", p>>
  BY <1>1, <1>2 DEF TableInv
<1>7. \A p \in Object : obj'[p].st \notin {"unused", "freed"} =>
                           \E i \in 1..count : slots[i] = p
  BY <1>1, <1>2 DEF TableInv
<1>8. BusyInv'
  BY DEF BusyInv
<1>9. TableInv'
  BY <1>1, <1>4, <1>5, <1>6, <1>7, <1>8 DEF TableInv
<1>10. ObjectsKept
  BY <1>2 DEF ObjectsKept
<1>11. FreedSeen
  BY <1>2 DEF FreedSeen
<1>12. EntriesKept
  <2>1. \A i \in 1..count : i <= count' /\ slots'[i] = slots[i]
    BY <1>1 DEF TypeInv
  <2>2. QED
    BY <2>1 DEF EntriesKept
<1>13. \A p \in Object : ChanKept(p) /\ FlagSound(obj'[p])
  <2>1. ASSUME NEW p \in Object, p # o
        PROVE  ChanKept(p) /\ FlagSound(obj'[p])
    <3>1. obj'[p] = obj[p]
      BY <1>2, <2>1
    <3>2. QED
      BY <1>1, <3>1 DEF ChanKept, FlagInv, FlagSound
  <2>2. QED
    BY <1>2, <2>1
<1>14. CallInv' /\ ChanInv' /\ FlagInv'
  <2>1. count' \in Nat
    BY <1>1 DEF TypeInv
  <2>2. QED
    BY <2>1, <1>10, <1>11, <1>12, <1>13, FollowsSame, LoopKeeps
<1>15. QED
  BY <1>3, <1>9, <1>14 DEF Inv

\* An interface of the table exists and has its configuration.
LEMMA InUse ==
    ASSUME Inv, NEW i \in 1..count, busy = <<>>, phase \in {"setup", "run"}
    PROVE  /\ slots[i] \in Object /\ obj[slots[i]] \in ObjType
           /\ obj[slots[i]].st \notin {"unused", "freed", "noconf"}
<1>1. TypeInv /\ TableInv
  BY DEF Inv
<1>2. slots[i] \in Object /\ i \in 1..Len(slots)
  BY <1>1 DEF TableInv, TypeInv
<1>3. obj[slots[i]].st \notin {"unused", "noconf"}
  BY <1>1, <1>2 DEF TableInv
<1>4. obj[slots[i]].st # "freed"
  BY <1>1, <1>2 DEF TableInv
<1>5. QED
  BY <1>1, <1>2, <1>3, <1>4 DEF TypeInv

LEMMA CompleteFacts ==
    ASSUME NEW r \in ObjType, NEW o, NEW q \in Complete(r, o)
    PROVE  /\ q \in ObjType /\ q.name = r.name /\ q.st = "up"
           /\ q.freq \in {0, q.chan}
           /\ q.csa = r.csa /\ q.cs = r.cs /\ q.drv = r.drv
           /\ q.odd = (r.odd \ {"channel"}) \cup Mixed(o)
<1> DEFINE odd == (r.odd \ {"channel"}) \cup Mixed(o)
<1>1. odd \in SUBSET {"channel", "switch"}
  BY ObjFields DEF Mixed
<1>2. PICK m \in {r.mode, "valid"} :
           q \in {[r EXCEPT !.st = "up", !.mode = m, !.freq = f, !.odd = odd] :
                     f \in Frequency(r, m)}
  BY DEF Complete
<1>3. PICK f \in Frequency(r, m) :
           q = [r EXCEPT !.st = "up", !.mode = m, !.freq = f, !.odd = odd]
  BY <1>2
<1>4. m \in {"none", "valid", "freed"} /\ r.chan \in Tuned /\ 0 \in Tuned
  BY ObjFields DEF Tuned
<1>5. f \in {0, r.chan}
  BY DEF Frequency
<1> HIDE DEF odd
<1>6. /\ q \in ObjType /\ q.name = r.name /\ q.st = "up"
      /\ q.freq = f /\ q.chan = r.chan
      /\ q.csa = r.csa /\ q.cs = r.cs /\ q.drv = r.drv
      /\ q.odd = odd
  BY <1>1, <1>3, <1>4, <1>5 DEF ObjType, Status
<1>7. QED
  BY <1>5, <1>6 DEF odd

LEMMA SetupFacts ==
    ASSUME NEW r \in ObjType, NEW o, NEW s \in SetupResults(r, o)
    PROVE  /\ s.done \in BOOLEAN /\ s.ok \in BOOLEAN /\ s.quit \in BOOLEAN
           /\ s.done => s.ok /\ ~s.quit
           /\ s.r \in ObjType /\ s.r.name = r.name
           /\ s.r.csa = r.csa /\ s.r.cs = r.cs /\ s.r.drv = r.drv
           /\ \/ s.r = r
              \/ /\ s.r.st \in {"starting", "configured"}
                 /\ s.r.odd = r.odd
              \/ /\ s.r.st = "up" /\ s.r.freq \in {0, s.r.chan}
                 /\ s.r.odd = (r.odd \ {"channel"}) \cup Mixed(o)
<1>1. r.mode \in {"none", "valid", "freed"}
  BY ObjFields
<1>2. CASE s \in [done : {TRUE}, ok : {TRUE}, quit : {FALSE},
                  r : Complete(r, o)]
  <2>1. /\ s.done = TRUE /\ s.ok = TRUE /\ s.quit = FALSE
        /\ s.r \in Complete(r, o)
    BY <1>2
  <2>8. /\ s.done \in BOOLEAN /\ s.ok \in BOOLEAN /\ s.quit \in BOOLEAN
        /\ s.done => s.ok /\ ~s.quit
    BY <2>1, Zenon
  <2>2. PICK q \in Complete(r, o) : s.r = q
    BY <2>1
  <2>3. /\ q \in ObjType /\ q.name = r.name
        /\ q.csa = r.csa /\ q.cs = r.cs /\ q.drv = r.drv
        /\ q.st = "up" /\ q.freq \in {0, q.chan}
        /\ q.odd = (r.odd \ {"channel"}) \cup Mixed(o)
    BY CompleteFacts
  <2>5. QED
    BY <2>2, <2>3, <2>8
<1>3. CASE s \in [done : {FALSE}, ok : {TRUE}, quit : {FALSE},
                  r : {[r EXCEPT !.st = "starting", !.mode = m] :
                         m \in {r.mode, "valid"}}]
  <2>1. /\ s.done = FALSE /\ s.ok = TRUE /\ s.quit = FALSE
        /\ s.r \in {[r EXCEPT !.st = "starting", !.mode = m] :
                      m \in {r.mode, "valid"}}
    BY <1>3
  <2>2. PICK m \in {r.mode, "valid"} :
              s.r = [r EXCEPT !.st = "starting", !.mode = m]
    BY <2>1
  <2>3. m \in {"none", "valid", "freed"} /\ "starting" \in Status
    BY <1>1 DEF Status
  <2>8. /\ s.done \in BOOLEAN /\ s.ok \in BOOLEAN /\ s.quit \in BOOLEAN
        /\ s.done => s.ok /\ ~s.quit
    BY <2>1, Zenon
  <2> DEFINE q == [r EXCEPT !.st = "starting", !.mode = m]
  <2>4. /\ q \in ObjType /\ q.name = r.name
        /\ q.csa = r.csa /\ q.cs = r.cs /\ q.drv = r.drv
        /\ q.st = "starting" /\ q.odd = r.odd
    BY <2>3 DEF ObjType
  <2>5. s.r = q
    BY <2>2
  <2> HIDE DEF q
  <2>6. s.r.st \in {"starting", "configured"} /\ s.r.odd = r.odd
    BY <2>4, <2>5
  <2>7. QED
    BY <2>4, <2>5, <2>6, <2>8, Zenon
<1>4. CASE s \in [done : {FALSE}, ok : {FALSE}, quit : {FALSE}, r : {r}]
  <2>1. s.done = FALSE /\ s.ok = FALSE /\ s.quit = FALSE /\ s.r = r
    BY <1>4
  <2>2. QED
    BY <2>1
<1>5. CASE s \in [done : {FALSE}, ok : {FALSE}, quit : {TRUE},
                  r : {[r EXCEPT !.st = "configured", !.mode = m] :
                         m \in {r.mode, "none", "valid"}}]
  <2>1. /\ s.done = FALSE /\ s.ok = FALSE /\ s.quit = TRUE
        /\ s.r \in {[r EXCEPT !.st = "configured", !.mode = m] :
                      m \in {r.mode, "none", "valid"}}
    BY <1>5
  <2>2. PICK m \in {r.mode, "none", "valid"} :
              s.r = [r EXCEPT !.st = "configured", !.mode = m]
    BY <2>1
  <2>3. m \in {"none", "valid", "freed"} /\ "configured" \in Status
    BY <1>1 DEF Status
  <2>8. /\ s.done \in BOOLEAN /\ s.ok \in BOOLEAN /\ s.quit \in BOOLEAN
        /\ s.done => s.ok /\ ~s.quit
    BY <2>1, Zenon
  <2> DEFINE q == [r EXCEPT !.st = "configured", !.mode = m]
  <2>4. /\ q \in ObjType /\ q.name = r.name
        /\ q.csa = r.csa /\ q.cs = r.cs /\ q.drv = r.drv
        /\ q.st = "configured" /\ q.odd = r.odd
    BY <2>3 DEF ObjType
  <2>5. s.r = q
    BY <2>2
  <2> HIDE DEF q
  <2>6. s.r.st \in {"starting", "configured"} /\ s.r.odd = r.odd
    BY <2>4, <2>5
  <2>7. QED
    BY <2>4, <2>5, <2>6, <2>8, Zenon
<1>6. QED
  BY <1>2, <1>3, <1>4, <1>5 DEF SetupResults

\* Nobody is filling in a channel, or the interface is marked.
LEMMA MixedFacts ==
    ASSUME NEW o, "channel" \notin Mixed(o)
    PROVE  \A u \in Thread : ~Fills(u, o)
BY DEF Mixed, Filling, Fills

\* What a setup does to the channel and to the announced switch.
LEMMA SetupKeeps ==
    ASSUME Inv, NEW o \in Object, NEW r \in ObjType,
           obj[o].st \notin {"unused", "freed", "noconf"},
           r.st \notin {"unused", "freed", "noconf"},
           r.name = obj[o].name, r.st # "up" \/ r = obj[o],
           "channel" \in obj[o].odd => "channel" \in r.odd, FlagSound(r),
           NEW s \in SetupResults(r, o), obj' = [obj EXCEPT ![o] = s.r]
    PROVE  /\ s.r \in ObjType /\ s.r.name = obj[o].name
           /\ s.r.st \notin {"unused", "freed", "noconf"}
           /\ ChanKept(o) /\ FlagSound(s.r)
<1> DEFINE q == s.r
<1>1. TypeInv /\ TableInv
  BY DEF Inv
<1>2. /\ q \in ObjType /\ q.name = r.name
      /\ q.csa = r.csa /\ q.cs = r.cs /\ q.drv = r.drv
      /\ \/ q = r
         \/ /\ q.st \in {"starting", "configured"}
            /\ q.odd = r.odd
         \/ /\ q.st = "up" /\ q.freq \in {0, q.chan}
            /\ q.odd = (r.odd \ {"channel"}) \cup Mixed(o)
  BY SetupFacts
<1>3. obj'[o] = q
  BY <1>1 DEF TypeInv
<1> HIDE DEF q
<1>5. q.st \notin {"unused", "freed", "noconf"}
  BY <1>2
<1>7. "switch" \in q.odd <=> "switch" \in r.odd
  BY <1>2 DEF Mixed
<1>8. FlagSound(q)
  BY <1>2, <1>7 DEF FlagSound
<1>9. ChanKept(o)
  <2>1. CASE q = r
    BY <1>3, <2>1 DEF ChanKept
  <2>2. CASE q.st \in {"starting", "configured"} /\ q.odd = r.odd
    BY <1>3, <2>2 DEF ChanKept
  <2>3. CASE q.freq \in {0, q.chan} /\ q.odd = (r.odd \ {"channel"}) \cup Mixed(o)
    <3>1. "channel" \notin q.odd => \A u \in Thread : ~Fills(u, o)
      BY <2>3, MixedFacts
    <3>2. QED
      BY <1>3, <2>3, <3>1 DEF ChanKept
  <2>4. QED
    BY <1>2, <2>1, <2>2, <2>3
<1>10. QED
  BY <1>2, <1>5, <1>8, <1>9 DEF q

LEMMA FlagOf ==
    ASSUME Inv, NEW o \in Object
    PROVE  FlagSound(obj[o]) /\ obj[o] \in ObjType
BY DEF Inv, TypeInv, FlagInv, FlagSound

LEMMA SetupNextStep ==
    ASSUME Inv, SetupNext
    PROVE  Inv' /\ UNCHANGED wild
<1> DEFINE o == slots[next]
<1>1. TypeInv /\ TableInv /\ MainInv
  BY DEF Inv, TableInv
<1>2. PICK s \in SetupResults(obj[o], o) :
          /\ obj' = [obj EXCEPT ![o] = s.r]
          /\ phase' = IF s.ok THEN "setup" ELSE "out"
          /\ next' = IF s.ok THEN next + 1 ELSE 1
          /\ toe' = IF s.done THEN toe - 1 ELSE toe
  BY DEF SetupNext
<1>3. /\ phase = "setup" /\ next <= count
      /\ UNCHANGED <<daemonize, slots, count, busy, thread, events, wild>>
  BY DEF SetupNext
<1>4. busy = <<>> /\ count + 1 <= toe + next
  BY <1>1, <1>3 DEF MainInv
<1>5. /\ next \in Nat /\ 1 <= next /\ count \in Nat /\ count <= MaxObject
      /\ toe \in 0..MaxObject /\ MaxObject \in Nat
  BY <1>1, InterfacesConstants DEF TypeInv
<1>6. next \in 1..count /\ 1 <= toe
  BY <1>3, <1>4, <1>5
<1>7. /\ o \in Object /\ obj[o] \in ObjType
      /\ obj[o].st \notin {"unused", "freed", "noconf"}
  BY <1>3, <1>4, <1>6, InUse
<1> HIDE DEF o
<1>8. FlagSound(obj[o])
  BY <1>7, FlagOf
<1>9. /\ s.r \in ObjType /\ s.r.name = obj[o].name
      /\ s.r.st \notin {"unused", "freed", "noconf"}
      /\ ChanKept(o) /\ FlagSound(s.r)
  BY <1>2, <1>7, <1>8, SetupKeeps
<1>10. s.done => s.ok
  BY <1>7, SetupFacts
<1>11. /\ toe' \in 0..MaxObject /\ next' \in 1..(MaxObject + 1)
       /\ phase' \in {"setup", "run", "out"}
  BY <1>2, <1>3, <1>5, <1>6
<1>12. MainInv'
  <2>1. CASE s.ok
    <3>1. /\ phase' = "setup" /\ next' = next + 1
          /\ toe' = toe \/ toe' = toe - 1
      BY <1>2, <2>1
    <3>2. next' <= count + 1 /\ count + 1 <= toe' + next'
      <4>1. toe \in Int /\ next' <= count + 1
        BY <1>3, <1>5, <3>1
      <4>2. CASE toe' = toe
        BY <1>4, <1>5, <3>1, <4>1, <4>2
      <4>3. CASE toe' = toe - 1
        BY <1>4, <1>5, <3>1, <4>1, <4>3
      <4>4. QED
        BY <3>1, <4>1, <4>2, <4>3
    <3>3. QED
      BY <1>3, <1>4, <3>1, <3>2 DEF MainInv
  <2>2. CASE ~s.ok
    <3>1. phase' = "out" /\ next' = 1
      BY <1>2, <2>2
    <3>2. QED
      BY <1>3, <1>5, <3>1 DEF MainInv
  <2>3. QED
    BY <2>1, <2>2
<1>13. events' \in 0..MaxEvents
  BY <1>1, <1>3 DEF TypeInv
<1>14. QED
  BY <1>2, <1>3, <1>4, <1>7, <1>9, <1>11, <1>12, <1>13, ObjectStep

\* The event loop runs and nothing is under way.
LEMMA LoopFacts ==
    ASSUME Inv, EventLoop
    PROVE  /\ phase = "run" /\ busy = <<>> /\ next = 1
           /\ wild = "no" /\ count \in Nat
           /\ \A o \in Table : /\ o \in Object /\ obj[o] \in ObjType
                               /\ obj[o].st \notin {"unused", "freed", "noconf"}
<1>1. /\ phase = "run" /\ busy = <<>> /\ wild = "no"
      /\ TypeInv /\ TableInv /\ MainInv
  BY DEF EventLoop, Alive, Inv, TableInv
<1>2. next = 1 /\ count \in Nat
  BY <1>1 DEF MainInv, TypeInv
<1>3. \A o \in Table : /\ o \in Object /\ obj[o] \in ObjType
                       /\ obj[o].st \notin {"unused", "freed", "noconf"}
  BY <1>1, InUse DEF Table
<1>4. QED
  BY <1>1, <1>2, <1>3

LEMMA EventFacts ==
    ASSUME Inv, Event
    PROVE  events' \in 0..MaxEvents /\ EventLoop
BY InterfacesConstants DEF Inv, TypeInv, Event

\* In the event loop, main()'s loops are not running.
LEMMA MainIdle ==
    ASSUME Inv, EventLoop, next' = next, phase' \in {"run", "out"},
           count' \in Nat
    PROVE  MainInv' /\ next' \in 1..(MaxObject + 1)
<1>1. next' = 1 /\ MaxObject \in Nat
  BY LoopFacts, InterfacesConstants
<1>2. 1 <= count' + 1
  <2>1. \A n \in Nat : 1 <= n + 1
    OBVIOUS
  <2>2. QED
    BY <2>1
<1>3. 1 \in 1..(MaxObject + 1)
  BY <1>1
<1>4. phase' # "setup"
  OBVIOUS
<1>5. MainInv'
  BY <1>1, <1>2, <1>4 DEF MainInv
<1>6. QED
  BY <1>1, <1>3, <1>5

\* A setup in the event loop.
LEMMA SetupStep ==
    ASSUME Inv, EventLoop, NEW o \in Object, NEW r \in ObjType,
           obj[o].st \notin {"unused", "freed", "noconf"},
           r.st \notin {"unused", "freed", "noconf", "up"},
           r.name = obj[o].name,
           "channel" \in obj[o].odd => "channel" \in r.odd, FlagSound(r),
           Setup(r, o), events' \in 0..MaxEvents,
           UNCHANGED <<next, daemonize, slots, count, busy, thread, wild>>
    PROVE  Inv' /\ UNCHANGED wild
<1>1. TypeInv /\ TableInv
  BY DEF Inv
<1>2. PICK s \in SetupResults(r, o) :
       /\ obj' = [obj EXCEPT ![o] = s.r]
       /\ toe' = IF s.done /\ toe > 0 THEN toe - 1 ELSE toe
       /\ phase' = IF s.quit /\ toe > 0 THEN "out" ELSE phase
  BY DEF Setup
<1>3. phase = "run" /\ busy = <<>> /\ count' \in Nat
  BY LoopFacts
<1>4. phase' \in {"run", "out"}
  BY <1>2, <1>3
<1>5. MainInv' /\ next' \in 1..(MaxObject + 1)
  BY <1>3, <1>4, MainIdle
<1>6. toe' \in 0..MaxObject
  BY <1>1, <1>2, InterfacesConstants DEF TypeInv
<1>7. /\ s.r \in ObjType /\ s.r.name = obj[o].name
      /\ s.r.st \notin {"unused", "freed", "noconf"}
      /\ ChanKept(o) /\ FlagSound(s.r)
  BY <1>2, SetupKeeps
<1>8. QED
  BY <1>2, <1>3, <1>4, <1>5, <1>6, <1>7, ObjectStep

LEMMA EnableStep ==
    ASSUME Inv, NEW o \in Object, hostapd_enable_iface(o)
    PROVE  Inv' /\ UNCHANGED wild
<1>1. EventLoop /\ events' \in 0..MaxEvents
  BY EventFacts DEF hostapd_enable_iface
<1>2. /\ obj[o].st \in {"configured", "disabled"} /\ Setup(obj[o], o)
      /\ UNCHANGED <<next, daemonize, slots, count, busy, thread, wild>>
  BY DEF hostapd_enable_iface
<1>3. FlagSound(obj[o]) /\ obj[o] \in ObjType
  BY FlagOf
<1>4. QED
  BY <1>1, <1>2, <1>3, SetupStep

LEMMA DisabledFacts ==
    ASSUME NEW r \in ObjType
    PROVE  LET q == Disabled(r)
           IN  /\ q \in ObjType /\ q.name = r.name /\ q.st = "disabled"
               /\ FlagSound(q)
               /\ "channel" \in q.odd <=> "channel" \in r.odd
<1> DEFINE mode == IF r.mode = "valid" THEN "freed" ELSE r.mode
           odd == IF r.csa THEN r.odd \cup {"switch"} ELSE r.odd
           q == [r EXCEPT !.st = "disabled", !.drv = 0, !.mode = mode,
                          !.odd = odd]
<1>1. /\ mode \in {"none", "valid", "freed"} /\ 0 \in Tuned
      /\ odd \in SUBSET {"channel", "switch"}
  BY ObjFields DEF Tuned
<1>2. Disabled(r) = q
  BY DEF Disabled
<1>3. r.csa => "switch" \in odd
  OBVIOUS
<1>4. "channel" \in odd <=> "channel" \in r.odd
  OBVIOUS
<1> HIDE DEF mode, odd
<1>5. /\ q \in ObjType /\ q.name = r.name /\ q.st = "disabled"
      /\ q.csa = r.csa /\ q.odd = odd
  BY <1>1 DEF ObjType, Status
<1> HIDE DEF q
<1>6. FlagSound(q)
  BY <1>3, <1>5 DEF FlagSound
<1>7. QED
  BY <1>2, <1>4, <1>5, <1>6

LEMMA DisableStep ==
    ASSUME Inv, NEW o \in Object, hostapd_disable_iface(o)
    PROVE  Inv' /\ UNCHANGED wild
<1> DEFINE q == Disabled(obj[o])
<1>1. EventLoop /\ events' \in 0..MaxEvents
  BY EventFacts DEF hostapd_disable_iface
<1>2. /\ o \in Table /\ obj' = [obj EXCEPT ![o] = q]
      /\ UNCHANGED <<phase, next, daemonize, slots, count, busy, thread, toe,
                     wild>>
  BY DEF hostapd_disable_iface
<1>3. /\ phase = "run" /\ busy = <<>> /\ count' \in Nat
      /\ obj[o] \in ObjType /\ obj[o].st \notin {"unused", "freed", "noconf"}
  BY <1>1, <1>2, LoopFacts
<1>4. /\ q \in ObjType /\ q.name = obj[o].name /\ q.st = "disabled"
      /\ FlagSound(q) /\ ("channel" \in q.odd <=> "channel" \in obj[o].odd)
  BY <1>3, DisabledFacts
<1> HIDE DEF q
<1>5. obj'[o] = q /\ toe' \in 0..MaxObject
  BY <1>2 DEF Inv, TypeInv
<1>6. ChanKept(o)
  BY <1>3, <1>4, <1>5 DEF ChanKept
<1>7. MainInv' /\ next' \in 1..(MaxObject + 1)
  BY <1>1, <1>2, <1>3, MainIdle
<1>8. QED
  BY <1>1, <1>2, <1>3, <1>4, <1>5, <1>6, <1>7, ObjectStep

LEMMA CompleteStep ==
    ASSUME Inv, NEW o \in Object, SetupComplete(o)
    PROVE  Inv' /\ UNCHANGED wild
<1>1. /\ EventLoop /\ o \in Table /\ obj[o].st = "starting"
      /\ UNCHANGED <<next, daemonize, slots, count, busy, thread, events, wild>>
  BY DEF SetupComplete
<1>2. /\ phase = "run" /\ busy = <<>> /\ count' \in Nat
      /\ obj[o] \in ObjType /\ obj[o].st \notin {"unused", "freed", "noconf"}
      /\ FlagSound(obj[o])
  BY <1>1, LoopFacts, FlagOf
<1>3. TypeInv /\ events' \in 0..MaxEvents
  BY <1>1 DEF Inv, TypeInv
<1>4. CASE /\ \E r \in Complete(obj[o], o) : obj' = [obj EXCEPT ![o] = r]
           /\ toe' = IF toe > 0 THEN toe - 1 ELSE toe
           /\ UNCHANGED phase
  <2>2. PICK q \in Complete(obj[o], o) : obj' = [obj EXCEPT ![o] = q]
    BY <1>4
  <2>1. /\ q \in ObjType /\ q.name = obj[o].name /\ q.st = "up"
        /\ q.freq \in {0, q.chan}
        /\ q.csa = obj[o].csa /\ q.cs = obj[o].cs /\ q.drv = obj[o].drv
        /\ q.odd = (obj[o].odd \ {"channel"}) \cup Mixed(o)
    BY <1>2, CompleteFacts
  <2>3. obj'[o] = q
    BY <1>3, <2>2 DEF TypeInv
  <2>4. FlagSound(q)
    BY <1>2, <2>1 DEF FlagSound, Mixed
  <2>5. "channel" \notin q.odd => \A u \in Thread : ~Fills(u, o)
    BY <2>1, MixedFacts
  <2>6. ChanKept(o)
    BY <2>1, <2>3, <2>5 DEF ChanKept
  <2>7. toe' \in 0..MaxObject
    BY <1>3, <1>4, InterfacesConstants DEF TypeInv
  <2>8. MainInv' /\ next' \in 1..(MaxObject + 1)
    BY <1>1, <1>2, <1>4, MainIdle
  <2>9. QED
    BY <1>1, <1>2, <1>3, <1>4, <2>1, <2>2, <2>4, <2>6, <2>7, <2>8, ObjectStep
<1>5. CASE /\ obj' = [obj EXCEPT ![o].st = "failed"]
           /\ phase' = IF toe > 0 THEN "out" ELSE phase
           /\ UNCHANGED toe
  <2> DEFINE q == [obj[o] EXCEPT !.st = "failed"]
  <2>1. /\ q \in ObjType /\ q.name = obj[o].name /\ q.st = "failed"
        /\ q.csa = obj[o].csa /\ q.cs = obj[o].cs /\ q.drv = obj[o].drv
        /\ q.odd = obj[o].odd
    BY <1>2 DEF ObjType, Status
  <2>2. obj' = [obj EXCEPT ![o] = q]
    BY <1>5
  <2> HIDE DEF q
  <2>3. obj'[o] = q /\ toe' \in 0..MaxObject
    BY <1>3, <1>5, <2>2 DEF TypeInv
  <2>4. FlagSound(q)
    BY <1>2, <2>1 DEF FlagSound
  <2>5. ChanKept(o)
    BY <1>2, <2>1, <2>3 DEF ChanKept
  <2>6. phase' \in {"run", "out"}
    BY <1>2, <1>5
  <2>7. MainInv' /\ next' \in 1..(MaxObject + 1)
    BY <1>1, <1>2, <2>6, MainIdle
  <2>8. QED
    BY <1>1, <1>2, <1>3, <2>1, <2>2, <2>3, <2>4, <2>5, <2>6, <2>7, ObjectStep
<1>6. QED
  BY <1>4, <1>5 DEF SetupComplete

LEMMA SwitchedFacts ==
    ASSUME NEW r \in ObjType, NEW o, FlagSound(r)
    PROVE  LET q == Switched(r, o)
           IN  /\ q \in ObjType /\ q.name = r.name /\ q.st = r.st
               /\ q.mode = r.mode /\ q.chan = q.freq /\ FlagSound(q)
               /\ "channel" \notin q.odd => "channel" \notin Mixed(o)
<1> DEFINE odd == (r.odd \ {"channel"}) \cup Mixed(o)
           p == [r EXCEPT !.freq = r.drv, !.chan = r.drv, !.drv = 0,
                          !.odd = odd]
           less == odd \ {"switch"}
           d == [p EXCEPT !.csa = FALSE, !.cs = 0, !.odd = less]
<1>1. /\ odd \in SUBSET {"channel", "switch"} /\ 0 \in Tuned
      /\ r.drv \in Tuned
  BY ObjFields DEF Mixed, Tuned
<1>2. less \in SUBSET {"channel", "switch"}
  BY <1>1
<1>3. /\ "channel" \notin odd => "channel" \notin Mixed(o)
      /\ "channel" \notin less => "channel" \notin Mixed(o)
      /\ "switch" \in r.odd => "switch" \in odd
  OBVIOUS
<1> HIDE DEF odd, less
<1>4. /\ p \in ObjType /\ p.name = r.name /\ p.st = r.st /\ p.mode = r.mode
      /\ p.chan = p.freq /\ p.csa = r.csa /\ p.cs = r.cs /\ p.odd = odd
  BY <1>1 DEF ObjType
<1>5. Switched(r, o) = IF r.csa /\ r.cs = r.drv THEN d ELSE p
  <2>1. CleanCs(p) = d
    BY <1>4 DEF CleanCs, less
  <2>2. QED
    BY <2>1 DEF Switched, odd
<1> HIDE DEF p
<1>6. /\ d \in ObjType /\ d.name = p.name /\ d.st = p.st /\ d.mode = p.mode
      /\ d.chan = p.chan /\ d.freq = p.freq /\ d.csa = FALSE /\ d.odd = less
  BY <1>1, <1>2, <1>4 DEF ObjType
<1> HIDE DEF d
<1>7. CASE r.csa /\ r.cs = r.drv
  <2>1. Switched(r, o) = d
    BY <1>5, <1>7
  <2>2. FlagSound(d)
    BY <1>6 DEF FlagSound
  <2>3. QED
    BY <1>3, <1>4, <1>6, <2>1, <2>2
<1>8. CASE ~(r.csa /\ r.cs = r.drv)
  <2>1. Switched(r, o) = p
    BY <1>5, <1>8
  <2>2. FlagSound(p)
    BY <1>3, <1>4, <1>8 DEF FlagSound
  <2>3. QED
    BY <1>3, <1>4, <2>1, <2>2
<1>9. QED
  BY <1>7, <1>8

LEMMA BadChannelFacts ==
    ASSUME NEW r \in ObjType
    PROVE  LET q == BadChannel(r)
           IN  /\ q \in ObjType /\ q.name = r.name /\ q.st = r.st
               /\ FlagSound(q) /\ "channel" \in q.odd
<1> DEFINE odd == {"channel", "switch"}
           q == [r EXCEPT !.freq = r.drv, !.drv = 0, !.odd = odd]
<1>1. odd \in SUBSET {"channel", "switch"} /\ r.drv \in Tuned /\ 0 \in Tuned
  BY ObjFields DEF Tuned
<1>2. "channel" \in odd /\ "switch" \in odd
  OBVIOUS
<1>3. BadChannel(r) = q
  BY DEF BadChannel
<1> HIDE DEF odd
<1>4. q \in ObjType /\ q.name = r.name /\ q.st = r.st /\ q.odd = odd
  BY <1>1 DEF ObjType
<1> HIDE DEF q
<1>5. FlagSound(q)
  BY <1>2, <1>4 DEF FlagSound
<1>6. QED
  BY <1>2, <1>3, <1>4, <1>5

LEMMA SwitchedStep ==
    ASSUME Inv, NEW o \in Object, hostapd_event_ch_switch(o)
    PROVE  Inv' /\ UNCHANGED wild
<1>1. /\ EventLoop /\ obj[o].st = "up"
      /\ UNCHANGED <<phase, next, daemonize, slots, count, busy, thread, toe,
                     events, wild>>
  BY DEF hostapd_event_ch_switch
<1>2. /\ phase = "run" /\ busy = <<>> /\ count' \in Nat
      /\ obj[o] \in ObjType /\ FlagSound(obj[o])
  BY <1>1, LoopFacts, FlagOf
<1>3. PICK q : /\ obj' = [obj EXCEPT ![o] = q]
               /\ q \in {Switched(obj[o], o), BadChannel(obj[o])}
  BY DEF hostapd_event_ch_switch
<1>4. /\ q \in ObjType /\ q.name = obj[o].name /\ q.st = obj[o].st
      /\ FlagSound(q)
      /\ "channel" \notin q.odd =>
           q.chan = q.freq /\ "channel" \notin Mixed(o)
  <2>1. CASE q = Switched(obj[o], o)
    BY <1>2, <2>1, SwitchedFacts
  <2>2. CASE q = BadChannel(obj[o])
    BY <1>2, <2>2, BadChannelFacts
  <2>3. QED
    BY <1>3, <2>1, <2>2
<1>5. /\ obj'[o] = q /\ toe' \in 0..MaxObject /\ events' \in 0..MaxEvents
  BY <1>1, <1>3 DEF Inv, TypeInv
<1>6. "channel" \notin q.odd => \A u \in Thread : ~Fills(u, o)
  BY <1>4, MixedFacts
<1>7. ChanKept(o)
  BY <1>4, <1>5, <1>6 DEF ChanKept
<1>8. MainInv' /\ next' \in 1..(MaxObject + 1)
  BY <1>1, <1>2, MainIdle
<1>9. QED
  BY <1>1, <1>2, <1>3, <1>4, <1>5, <1>7, <1>8, ObjectStep

LEMMA CleanCsFacts ==
    ASSUME NEW r \in ObjType
    PROVE  LET q == CleanCs(r)
           IN  /\ q \in ObjType /\ q.name = r.name /\ q.csa = FALSE
               /\ "channel" \in q.odd <=> "channel" \in r.odd
<1> DEFINE odd == r.odd \ {"switch"}
           q == [r EXCEPT !.csa = FALSE, !.cs = 0, !.odd = odd]
<1>1. odd \in SUBSET {"channel", "switch"} /\ 0 \in Tuned
  BY ObjFields DEF Tuned
<1>2. "channel" \in odd <=> "channel" \in r.odd
  OBVIOUS
<1>3. CleanCs(r) = q
  BY DEF CleanCs
<1> HIDE DEF odd
<1>4. q \in ObjType /\ q.name = r.name /\ q.csa = FALSE /\ q.odd = odd
  BY <1>1 DEF ObjType
<1>5. QED
  BY <1>2, <1>3, <1>4

LEMMA UnavailableStep ==
    ASSUME Inv, NEW o \in Object, hostapd_event_iface_unavailable(o)
    PROVE  Inv' /\ UNCHANGED wild
<1> DEFINE r == [obj[o] EXCEPT !.freq = obj[o].cs, !.chan = obj[o].cs]
           c == CleanCs(r)
           d == Disabled(c)
<1>1. EventLoop /\ events' \in 0..MaxEvents
  BY EventFacts DEF hostapd_event_iface_unavailable
<1>2. /\ obj[o].st = "up" /\ Setup(d, o)
      /\ UNCHANGED <<next, daemonize, slots, count, busy, thread, wild>>
  BY DEF hostapd_event_iface_unavailable
<1>3. obj[o] \in ObjType /\ obj[o].cs \in Tuned
  BY FlagOf, ObjFields
<1>4. r \in ObjType /\ r.name = obj[o].name /\ r.odd = obj[o].odd
  BY <1>3 DEF ObjType
<1> HIDE DEF r
<1>5. /\ c \in ObjType /\ c.name = r.name
      /\ "channel" \in c.odd <=> "channel" \in r.odd
  BY <1>4, CleanCsFacts
<1> HIDE DEF c
<1>6. /\ d \in ObjType /\ d.name = c.name /\ d.st = "disabled"
      /\ FlagSound(d) /\ ("channel" \in d.odd <=> "channel" \in c.odd)
  BY <1>5, DisabledFacts
<1> HIDE DEF d
<1>7. QED
  BY <1>1, <1>2, <1>4, <1>5, <1>6, SetupStep

LEMMA TerminateStep ==
    ASSUME Inv, Terminate
    PROVE  Inv' /\ UNCHANGED wild
<1>1. EventLoop /\ events' \in 0..MaxEvents
  BY EventFacts DEF Terminate
<1>2. /\ phase' = "out" /\ next' = 1
      /\ UNCHANGED <<daemonize, slots, count, obj, busy, thread, toe, wild>>
  BY DEF Terminate
<1>3. busy = <<>> /\ count \in Nat /\ TypeInv /\ TableInv
  BY <1>1, LoopFacts DEF Inv
<1>4. TypeInv'
  <2>1. 1 \in 1..(MaxObject + 1)
    BY InterfacesConstants
  <2>2. QED
    BY <1>1, <1>2, <1>3, <2>1 DEF TypeInv
<1>5. TableInv'
  <2>1. MainInv'
    BY <1>2, <1>3 DEF MainInv
  <2>2. BusyInv'
    BY <1>2, <1>3 DEF BusyInv
  <2>3. QED
    BY <1>2, <1>3, <2>1, <2>2 DEF TableInv
<1>6. CallInv' /\ ChanInv' /\ FlagInv'
  BY <1>2, <1>3, NothingElse, FollowsSame, LoopKeeps
<1>7. QED
  BY <1>2, <1>4, <1>5, <1>6 DEF Inv

LEMMA FreedFacts ==
    ASSUME NEW r \in ObjType
    PROVE  /\ Freed(r) \in ObjType /\ Freed(r).name = r.name
           /\ Freed(r).st = "freed" /\ Freed(r).csa = FALSE
BY DEF Freed, NoObject, ObjType, Tuned, Status

\* An interface of the table is freed, and stays in it.
LEMMA FreeStep ==
    ASSUME Inv, NEW i \in 1..count, NEW k \in {"remove", "end"},
           busy = <<>>, phase' = phase,
           \/ phase = "out" /\ busy' = <<>>
           \/ phase = "run" /\ busy' = <<"remove", i>>,
           obj' = [obj EXCEPT ![slots[i]] = Freed(@)],
           thread' = Disturb(thread, k), MainInv',
           UNCHANGED <<daemonize, slots, count, toe, wild>>,
           next' \in 1..(MaxObject + 1), events' \in 0..MaxEvents
    PROVE  Inv' /\ UNCHANGED wild
<1> DEFINE o == slots[i]
           q == Freed(obj[o])
<1>1. TypeInv /\ TableInv
  BY DEF Inv
<1>2. o \in Object /\ obj[o] \in ObjType /\ obj[o].st # "unused"
  <2>1. o \in Object /\ i \in 1..Len(slots)
    BY <1>1 DEF TableInv, TypeInv
  <2>2. QED
    BY <1>1, <2>1 DEF TableInv, TypeInv
<1>3. q \in ObjType /\ q.name = obj[o].name /\ q.st = "freed" /\ q.csa = FALSE
  BY <1>2, FreedFacts
<1>4. obj' = [obj EXCEPT ![o] = q]
  OBVIOUS
<1> HIDE DEF q
<1>5. /\ obj' \in [Object -> ObjType]
      /\ \A p \in Object : obj'[p] = IF p = o THEN q ELSE obj[p]
  BY <1>1, <1>2, <1>3, <1>4 DEF TypeInv
<1>6. /\ thread' \in [Thread -> CallType]
      /\ \A u \in Thread : Follows(thread[u], thread'[u])
      /\ \A u \in Thread : thread[u].pc \in Running => k \in thread'[u].during
  BY DisturbFollows
<1>7. TypeInv'
  BY <1>1, <1>5, <1>6 DEF TypeInv
<1>8. \A j \in 1..Len(slots) :
         slots[j] \in Object => obj'[slots[j]].st # "unused"
  BY <1>1, <1>3, <1>5 DEF TableInv
<1>9. \A j \in 1..count : slots[j] \in Object
  BY <1>1 DEF TableInv
<1>10. \A p \in Object : /\ obj'[p].st = "unused" => count < p
  BY <1>1, <1>3, <1>5 DEF TableInv
<1>11. \A p \in Object : obj'[p].st # "noconf"
  BY <1>1, <1>3, <1>5 DEF TableInv
<1>12. \A p \in Object : obj'[p].st \notin {"unused", "freed"} =>
                            \E j \in 1..count : slots[j] = p
  BY <1>1, <1>3, <1>5 DEF TableInv
<1>13. \A j, l \in 1..count : slots[j] = slots[l] => j = l
  BY <1>1 DEF TableInv
<1>14. ASSUME NEW j \in 1..count, obj'[slots[j]].st = "freed"
       PROVE  phase' \in {"out", "exit"} \/ busy' = <<"remove", j>>
  <2>1. CASE j = i
    BY <2>1
  <2>2. CASE j # i
    <3>1. obj[slots[j]].st = "freed"
      BY <1>5, <1>9, <1>13, <1>14, <2>2
    <3>2. phase \in {"out", "exit"}
      BY <1>1, <3>1 DEF TableInv
    <3>3. QED
      BY <3>2
  <2>3. QED
    BY <2>1, <2>2
<1>15. BusyInv'
  <2>1. CASE busy' = <<>>
    BY <2>1 DEF BusyInv
  <2>2. CASE phase = "run" /\ busy' = <<"remove", i>>
    BY <1>2, <1>3, <1>5, <2>2 DEF BusyInv
  <2>3. QED
    BY <2>1, <2>2
<1>16. TableInv'
  BY <1>8, <1>9, <1>10, <1>11, <1>12, <1>13, <1>14, <1>15 DEF TableInv
<1>17. ObjectsKept
  BY <1>3, <1>5 DEF ObjectsKept
<1>18. FreedSeen
  BY <1>6 DEF FreedSeen
<1>19. EntriesKept
  <2>1. \A j \in 1..count : j <= count' /\ slots'[j] = slots[j]
    BY <1>1 DEF TypeInv
  <2>2. QED
    BY <2>1 DEF EntriesKept
<1>20. \A p \in Object : ChanKept(p) /\ FlagSound(obj'[p])
  <2>1. ASSUME NEW p \in Object, p # o
        PROVE  ChanKept(p) /\ FlagSound(obj'[p])
    <3>1. obj'[p] = obj[p]
      BY <1>5, <2>1
    <3>2. QED
      BY <3>1, FlagOf DEF ChanKept
  <2>2. ChanKept(o) /\ FlagSound(obj'[o])
    BY <1>2, <1>3, <1>5 DEF ChanKept, FlagSound
  <2>3. QED
    BY <2>1, <2>2
<1>21. CallInv' /\ ChanInv' /\ FlagInv'
  <2>1. count' \in Nat
    BY <1>1 DEF TypeInv
  <2>2. QED
    BY <2>1, <1>6, <1>17, <1>18, <1>19, <1>20, LoopKeeps
<1>22. QED
  BY <1>7, <1>16, <1>21 DEF Inv

LEMMA DeinitStep ==
    ASSUME Inv, DeinitNext
    PROVE  Inv' /\ UNCHANGED wild
<1>1. TypeInv /\ TableInv /\ BusyInv /\ MainInv
  BY DEF Inv, TableInv
<1>2. /\ phase = "out"
      /\ UNCHANGED <<daemonize, slots, count, busy, toe, events, wild>>
  BY DEF DeinitNext
<1>3. busy = <<>>
  BY <1>1, <1>2 DEF BusyInv
<1>4. /\ next \in Nat /\ 1 <= next /\ count \in Nat /\ count <= MaxObject
      /\ MaxObject \in Nat /\ events' \in 0..MaxEvents
  BY <1>1, <1>2, InterfacesConstants DEF TypeInv
<1>5. CASE /\ next <= count /\ obj' = [obj EXCEPT ![slots[next]] = Freed(@)]
           /\ next' = next + 1 /\ thread' = Disturb(thread, "end")
           /\ phase' = phase
  <2>1. next \in 1..count /\ next' \in 1..(MaxObject + 1) /\ next' <= count + 1
    BY <1>4, <1>5
  <2>2. MainInv'
    BY <1>2, <1>5, <2>1 DEF MainInv
  <2>3. QED
    BY <1>2, <1>3, <1>4, <1>5, <2>1, <2>2, FreeStep
<1>6. CASE phase' = "exit" /\ UNCHANGED <<obj, next, thread>>
  <2>1. TypeInv'
    BY <1>1, <1>2, <1>6 DEF TypeInv
  <2>2. MainInv'
    BY <1>6 DEF MainInv
  <2>3. BusyInv'
    BY <1>2, <1>3 DEF BusyInv
  <2>4. TableInv'
    BY <1>1, <1>2, <1>6, <2>2, <2>3 DEF TableInv
  <2>5. CallInv' /\ ChanInv' /\ FlagInv'
    BY <1>2, <1>4, <1>6, NothingElse, FollowsSame, LoopKeeps
  <2>6. QED
    BY <1>2, <2>1, <2>4, <2>5 DEF Inv
<1>7. QED
  BY <1>5, <1>6 DEF DeinitNext

LEMMA RemoveFreeStep ==
    ASSUME Inv, NEW n \in Name, RemoveFree(n)
    PROVE  Inv' /\ UNCHANGED wild
<1>1. EventLoop /\ events' \in 0..MaxEvents
  BY EventFacts DEF RemoveFree
<1>2. PICK i \in 1..count :
          /\ obj' = [obj EXCEPT ![slots[i]] = Freed(@)]
          /\ busy' = <<"remove", i>>
  BY DEF RemoveFree
<1>3. /\ thread' = Disturb(thread, "remove")
      /\ UNCHANGED <<phase, next, daemonize, slots, count, toe, wild>>
  BY DEF RemoveFree
<1>4. phase = "run" /\ busy = <<>> /\ count \in Nat
  BY <1>1, LoopFacts
<1>5. MainInv' /\ next' \in 1..(MaxObject + 1)
  BY <1>1, <1>3, <1>4, MainIdle
<1>6. QED
  BY <1>1, <1>2, <1>3, <1>4, <1>5, FreeStep

LEMMA RemoveShiftStep ==
    ASSUME Inv, RemoveShift
    PROVE  Inv' /\ UNCHANGED wild
<1>1. TypeInv /\ TableInv /\ BusyInv /\ MainInv
  BY DEF Inv, TableInv
<1>2. PICK d \in 1..count : /\ busy = <<"remove", d>> /\ phase = "run"
                            /\ obj[slots[d]].st = "freed"
  <2>1. busy # <<>> /\ busy[1] = "remove"
    BY DEF RemoveShift
  <2>2. QED
    BY <1>1, <2>1 DEF BusyInv
<1>3. /\ slots' = [i \in 1..Len(slots) |->
                     IF i \in d..(count - 1) THEN slots[i + 1] ELSE slots[i]]
      /\ count' = count - 1 /\ busy' = <<>>
      /\ thread' = Disturb(thread, "remove")
      /\ UNCHANGED <<phase, next, daemonize, obj, toe, events, wild>>
  BY <1>2 DEF RemoveShift
<1>4. /\ Len(slots) \in Nat /\ count \in Nat /\ count <= Len(slots)
      /\ d \in Nat /\ 1 <= d /\ d <= count
  BY <1>1, <1>2 DEF TypeInv
<1> DEFINE f(i) == IF i \in d..(count - 1) THEN i + 1 ELSE i
<1>5. \A i \in 1..Len(slots) : f(i) \in 1..Len(slots) /\ slots'[i] = slots[f(i)]
  BY <1>3, <1>4
<1>6. \A i \in 1..(count - 1) : f(i) \in 1..count /\ f(i) # d
  BY <1>4
<1>7. \A i, j \in 1..(count - 1) : f(i) = f(j) => i = j
  BY <1>4
<1>8. \A j \in 1..count : j # d => \E i \in 1..(count - 1) : f(i) = j
  <2>1. ASSUME NEW j \in 1..count, j # d
        PROVE  \E i \in 1..(count - 1) : f(i) = j
    <3>1. CASE j < d
      <4>1. j \in 1..(count - 1) /\ f(j) = j
        BY <1>4, <3>1
      <4>2. QED
        BY <4>1
    <3>2. CASE d < j
      <4>1. j - 1 \in 1..(count - 1) /\ f(j - 1) = j
        BY <1>4, <3>2
      <4>2. QED
        BY <4>1
    <3>3. QED
      BY <1>4, <2>1, <3>1, <3>2
  <2>2. QED
    BY <2>1
<1>9. /\ slots' \in Seq(Object \cup {Null}) /\ Len(slots') = Len(slots)
  <2>1. slots' \in [1..Len(slots) -> Object \cup {Null}]
    <3>1. \A i \in 1..Len(slots) : slots[i] \in Object \cup {Null}
      BY <1>1 DEF TypeInv
    <3>2. slots' = [i \in 1..Len(slots) |-> slots[f(i)]]
      BY <1>3
    <3>3. QED
      BY <1>5, <3>1, <3>2
  <2>2. QED
    BY <1>4, <2>1
<1> HIDE DEF f
<1>10. /\ thread' \in [Thread -> CallType]
       /\ \A u \in Thread : Follows(thread[u], thread'[u])
       /\ \A u \in Thread : thread[u].pc \in Running =>
                               "remove" \in thread'[u].during
  BY <1>3, DisturbFollows
<1>11. count' \in Nat /\ count' \in 0..Len(slots') /\ count' <= MaxObject
  BY <1>1, <1>3, <1>4, <1>9, InterfacesConstants DEF TypeInv
<1>12. TypeInv'
  BY <1>1, <1>3, <1>9, <1>10, <1>11 DEF TypeInv
<1>13. \A i \in 1..Len(slots') :
          slots'[i] \in Object => obj[slots'[i]].st # "unused"
  BY <1>1, <1>5, <1>9 DEF TableInv
<1>14. \A i \in 1..count' : i \in 1..Len(slots) /\ i \in 1..(count - 1)
  BY <1>3, <1>4
<1>15. \A i \in 1..count' : slots'[i] \in Object
  BY <1>1, <1>5, <1>6, <1>14 DEF TableInv
<1>16. \A i, j \in 1..count' : slots'[i] = slots'[j] => i = j
  <2>1. ASSUME NEW i \in 1..count', NEW j \in 1..count', slots'[i] = slots'[j]
        PROVE  i = j
    <3>1. slots[f(i)] = slots[f(j)] /\ f(i) \in 1..count /\ f(j) \in 1..count
      BY <1>5, <1>6, <1>14, <2>1
    <3>2. f(i) = f(j)
      BY <1>1, <3>1 DEF TableInv
    <3>3. QED
      BY <1>7, <1>14, <3>2
  <2>2. QED
    BY <2>1
<1>17. \A p \in Object : obj[p].st = "unused" => count' < p
  <2>1. \A p \in Object : obj[p].st = "unused" => count < p
    BY <1>1 DEF TableInv
  <2>2. QED
    BY <1>3, <1>4, <2>1 DEF Object
<1>18. \A p \in Object : obj[p].st \notin {"unused", "freed"} =>
                            \E i \in 1..count' : slots'[i] = p
  <2>1. ASSUME NEW p \in Object, obj[p].st \notin {"unused", "freed"}
        PROVE  \E i \in 1..count' : slots'[i] = p
    <3>1. PICK j \in 1..count : slots[j] = p
      BY <1>1, <2>1 DEF TableInv
    <3>2. j # d
      BY <1>2, <2>1, <3>1
    <3>3. PICK i \in 1..(count - 1) : f(i) = j
      BY <1>8, <3>2
    <3>4. i \in 1..count' /\ slots'[i] = p
      BY <1>3, <1>5, <1>14, <3>1, <3>3
    <3>5. QED
      BY <3>4
  <2>2. QED
    BY <2>1
<1>19. \A p \in Object : obj[p].st # "noconf"
  BY <1>1, <1>2 DEF TableInv
<1>20. \A i \in 1..count' : obj[slots'[i]].st # "freed"
  <2>1. ASSUME NEW i \in 1..count', obj[slots'[i]].st = "freed"
        PROVE  FALSE
    <3>1. obj[slots[f(i)]].st = "freed" /\ f(i) \in 1..count /\ f(i) # d
      BY <1>5, <1>6, <1>14, <2>1
    <3>2. busy = <<"remove", f(i)>>
      BY <1>1, <1>2, <3>1 DEF TableInv
    <3>3. QED
      BY <1>2, <3>1, <3>2
  <2>2. QED
    BY <2>1
<1>21. BusyInv'
  BY <1>3 DEF BusyInv
<1>22. MainInv'
  BY <1>1, <1>2, <1>3 DEF MainInv
<1>24. TableInv'
  BY <1>3, <1>13, <1>15, <1>16, <1>17, <1>18, <1>19, <1>20, <1>21, <1>22
     DEF TableInv
<1>25. ObjectsKept /\ FreedSeen /\ EntriesKept
  BY <1>3, <1>10 DEF ObjectsKept, FreedSeen, EntriesKept
<1>26. \A p \in Object : ChanKept(p) /\ FlagSound(obj'[p])
  BY <1>3, FlagOf DEF ChanKept
<1>27. CallInv' /\ ChanInv' /\ FlagInv'
  BY <1>3, <1>10, <1>11, <1>25, <1>26, LoopKeeps
<1>28. QED
  BY <1>3, <1>12, <1>24, <1>27 DEF Inv

LEMMA AddEndStep ==
    ASSUME Inv, AddEnd
    PROVE  Inv' /\ UNCHANGED wild
<1>1. TypeInv /\ TableInv /\ BusyInv /\ MainInv
  BY DEF Inv, TableInv
<1>2. PICK o \in Object : /\ busy = <<"add", o>> /\ phase = "run"
                          /\ 1 <= count /\ slots[count] = o
                          /\ obj[o].st = "noconf"
  <2>1. busy # <<>> /\ busy[1] = "add"
    BY DEF AddEnd
  <2>2. QED
    BY <1>1, <2>1 DEF BusyInv
<1>3. /\ busy[2] = o /\ busy' = <<>>
      /\ UNCHANGED <<phase, next, daemonize, thread, toe, events, wild>>
  BY <1>2 DEF AddEnd
<1>4. /\ obj[o] \in ObjType /\ FlagSound(obj[o]) /\ Len(slots) \in Nat
      /\ count \in Nat /\ count <= Len(slots) /\ count <= MaxObject
      /\ next = 1
  BY <1>1, <1>2, FlagOf DEF TypeInv, MainInv
<1>5. BusyInv'
  BY <1>3 DEF BusyInv
<1>6. MainInv'
  BY <1>2, <1>3, <1>4 DEF MainInv
<1>7. \A p \in Object : p # o => obj[p].st # "noconf"
  BY <1>1, <1>2 DEF TableInv
<1>8. \A i \in 1..count : obj[slots[i]].st # "freed"
  BY <1>1, <1>2 DEF TableInv
<1>9. CASE /\ obj' = [obj EXCEPT ![o].st = "configured", ![o].chan = Initial]
           /\ UNCHANGED <<slots, count>>
  <2> DEFINE q == [obj[o] EXCEPT !.st = "configured", !.chan = Initial]
  <2>1. Initial \in Tuned
    BY InterfacesConstants DEF Tuned
  <2>2. /\ q \in ObjType /\ q.name = obj[o].name /\ q.st = "configured"
        /\ q.csa = obj[o].csa /\ q.cs = obj[o].cs /\ q.drv = obj[o].drv
        /\ q.odd = obj[o].odd
    BY <1>4, <2>1 DEF ObjType, Status
  <2>3. \A p \in Object : obj'[p] = IF p = o THEN q ELSE obj[p]
    BY <1>1, <1>4, <1>9 DEF TypeInv, ObjType
  <2>4. obj' \in [Object -> ObjType]
    <3>1. obj' = [p \in Object |-> obj'[p]]
      BY <1>1, <1>9 DEF TypeInv
    <3>2. \A p \in Object : obj'[p] \in ObjType
      BY <1>1, <2>2, <2>3 DEF TypeInv
    <3>3. QED
      BY <3>1, <3>2
  <2> HIDE DEF q
  <2>5. TypeInv'
    BY <1>1, <1>3, <1>9, <2>4 DEF TypeInv
  <2>6. \A i \in 1..Len(slots) :
           slots[i] \in Object => obj'[slots[i]].st # "unused"
    BY <1>1, <2>2, <2>3 DEF TableInv
  <2>7. \A i \in 1..count : slots[i] \in Object /\ obj'[slots[i]].st # "freed"
    BY <1>1, <1>8, <2>2, <2>3 DEF TableInv
  <2>8. \A i, j \in 1..count : slots[i] = slots[j] => i = j
    BY <1>1 DEF TableInv
  <2>9. \A p \in Object : /\ obj'[p].st = "unused" => count < p
                          /\ obj'[p].st # "noconf"
    BY <1>1, <1>7, <2>2, <2>3 DEF TableInv
  <2>10. \A p \in Object : obj'[p].st \notin {"unused", "freed"} =>
                              \E i \in 1..count : slots[i] = p
    <3>1. \A p \in Object : obj'[p].st \notin {"unused", "freed"} =>
                               obj[p].st \notin {"unused", "freed"}
      BY <1>2, <2>3
    <3>2. QED
      BY <1>1, <3>1 DEF TableInv
  <2>11. TableInv'
    <3>1. slots' = slots /\ count' = count
      BY <1>9
    <3>2. QED
      BY <1>3, <1>5, <1>6, <2>6, <2>7, <2>8, <2>9, <2>10, <3>1 DEF TableInv
  <2>12. ObjectsKept /\ FreedSeen
    BY <2>2, <2>3 DEF ObjectsKept, FreedSeen
  <2>13. EntriesKept
    <3>1. \A j \in 1..count : j <= count' /\ slots'[j] = slots[j]
      BY <1>4, <1>9
    <3>2. QED
      BY <3>1 DEF EntriesKept
  <2>14. \A p \in Object : ChanKept(p) /\ FlagSound(obj'[p])
    <3>1. ASSUME NEW p \in Object, p # o
          PROVE  ChanKept(p) /\ FlagSound(obj'[p])
      <4>1. obj'[p] = obj[p]
        BY <2>3, <3>1
      <4>2. QED
        BY <4>1, FlagOf DEF ChanKept
    <3>2. ChanKept(o)
      BY <1>2, <2>2, <2>3 DEF ChanKept
    <3>3. FlagSound(obj'[o])
      BY <1>4, <2>2, <2>3 DEF FlagSound
    <3>4. QED
      BY <3>1, <3>2, <3>3
  <2>15. CallInv' /\ ChanInv' /\ FlagInv'
    BY <1>3, <1>4, <1>9, <2>12, <2>13, <2>14, FollowsSame, LoopKeeps
  <2>16. QED
    BY <1>3, <2>5, <2>11, <2>15 DEF Inv
<1>10. CASE /\ obj' = [obj EXCEPT ![o] = Freed(@)]
            /\ count' = count - 1
            /\ slots' = [slots EXCEPT ![count] = Null]
  <2> DEFINE q == Freed(obj[o])
  <2>1. /\ q \in ObjType /\ q.name = obj[o].name /\ q.st = "freed"
        /\ q.csa = FALSE
    BY <1>4, FreedFacts
  <2> HIDE DEF q
  <2>2. /\ obj' \in [Object -> ObjType]
        /\ \A p \in Object : obj'[p] = IF p = o THEN q ELSE obj[p]
    BY <1>1, <1>10, <2>1 DEF TypeInv, q
  <2>3. /\ slots' \in Seq(Object \cup {Null}) /\ Len(slots') = Len(slots)
        /\ \A i \in 1..Len(slots) :
              slots'[i] = IF i = count THEN Null ELSE slots[i]
    <3>1. /\ slots \in Seq(Object \cup {Null}) /\ count \in 1..Len(slots)
          /\ Null \in Object \cup {Null}
      BY <1>1, <1>2, <1>4 DEF TypeInv
    <3>2. QED
      BY <1>10, <3>1, ExceptSeq
  <2>4. /\ count' \in Nat /\ count' \in 0..Len(slots') /\ count' <= MaxObject
        /\ \A i \in 1..count' : /\ i \in 1..count /\ i # count
                                /\ i \in 1..Len(slots)
    BY <1>2, <1>4, <1>10, <2>3, InterfacesConstants
  <2>5. TypeInv'
    BY <1>1, <1>3, <2>2, <2>3, <2>4 DEF TypeInv
  <2>6. \A i \in 1..Len(slots') :
           slots'[i] \in Object => obj'[slots'[i]].st # "unused"
    <3>1. \A i \in 1..Len(slots) :
             slots[i] \in Object => obj'[slots[i]].st # "unused"
      BY <1>1, <2>1, <2>2 DEF TableInv
    <3>2. QED
      BY <2>3, <3>1, NotObjects
  <2>7. \A i \in 1..count' : slots'[i] = slots[i] /\ slots'[i] \in Object
    BY <1>1, <2>3, <2>4 DEF TableInv
  <2>8. \A i, j \in 1..count' : slots'[i] = slots'[j] => i = j
    BY <1>1, <2>4, <2>7 DEF TableInv
  <2>9. \A i \in 1..count' : slots[i] # o
    <3>1. count \in 1..count
      BY <1>2, <1>4
    <3>2. QED
      BY <1>1, <1>2, <2>4, <3>1 DEF TableInv
  <2>10. \A i \in 1..count' : obj'[slots'[i]].st # "freed"
    BY <1>8, <2>2, <2>4, <2>7, <2>9
  <2>11. \A p \in Object : /\ obj'[p].st # "noconf"
    BY <1>1, <1>7, <2>1, <2>2 DEF TableInv
  <2>12. \A p \in Object : obj'[p].st = "unused" => count' < p
    <3>1. \A p \in Object : obj'[p].st = "unused" => count < p
      BY <1>1, <2>1, <2>2 DEF TableInv
    <3>2. QED
      BY <1>4, <1>10, <3>1 DEF Object
  <2>13. \A p \in Object : obj'[p].st \notin {"unused", "freed"} =>
                              \E i \in 1..count' : slots'[i] = p
    <3>1. ASSUME NEW p \in Object, obj'[p].st \notin {"unused", "freed"}
          PROVE  \E i \in 1..count' : slots'[i] = p
      <4>1. p # o /\ obj[p].st \notin {"unused", "freed"}
        BY <2>1, <2>2, <3>1
      <4>2. PICK i \in 1..count : slots[i] = p
        BY <1>1, <4>1 DEF TableInv
      <4>3. i # count
        BY <1>2, <4>1, <4>2
      <4>4. i \in 1..count'
        BY <1>4, <1>10, <4>3
      <4>5. QED
        BY <2>7, <4>2, <4>4
    <3>2. QED
      BY <3>1
  <2>14. TableInv'
    BY <1>3, <1>5, <1>6, <2>6, <2>7, <2>8, <2>10, <2>11, <2>12, <2>13
       DEF TableInv
  <2>15. ObjectsKept
    BY <2>1, <2>2 DEF ObjectsKept
  <2>16. FreedSeen
    BY <1>2, <2>2 DEF FreedSeen
  <2>17. EntriesKept
    <3>1. ASSUME NEW i \in 1..count, obj[slots[i]].st # "noconf"
          PROVE  i <= count' /\ slots'[i] = slots[i]
      <4>1. i # count
        BY <1>2, <3>1
      <4>2. i \in 1..count'
        BY <1>4, <1>10, <4>1
      <4>3. QED
        BY <2>4, <2>7, <4>2
    <3>2. QED
      BY <3>1 DEF EntriesKept
  <2>18. \A p \in Object : ChanKept(p) /\ FlagSound(obj'[p])
    <3>1. ASSUME NEW p \in Object, p # o
          PROVE  ChanKept(p) /\ FlagSound(obj'[p])
      <4>1. obj'[p] = obj[p]
        BY <2>2, <3>1
      <4>2. QED
        BY <4>1, FlagOf DEF ChanKept
    <3>2. ChanKept(o) /\ FlagSound(obj'[o])
      BY <2>1, <2>2 DEF ChanKept, FlagSound
    <3>3. QED
      BY <3>1, <3>2
  <2>19. CallInv' /\ ChanInv' /\ FlagInv'
    BY <1>3, <2>4, <2>15, <2>16, <2>17, <2>18, FollowsSame, LoopKeeps
  <2>20. QED
    BY <1>3, <2>5, <2>14, <2>19 DEF Inv
<1>11. QED
  BY <1>3, <1>9, <1>10 DEF AddEnd

LEMMA AddBeginStep ==
    ASSUME Inv, NEW n \in Name, AddBegin(n)
    PROVE  Inv' /\ UNCHANGED wild
<1> DEFINE o == CHOOSE u \in Unused : \A v \in Unused : u <= v
           q == [NoObject EXCEPT !.name = n, !.st = "noconf"]
<1>1. TypeInv /\ TableInv
  BY DEF Inv
<1>2. EventLoop /\ events' \in 0..MaxEvents
  BY EventFacts DEF AddBegin
<1>3. phase = "run" /\ busy = <<>> /\ count \in Nat /\ next = 1
  BY <1>2, LoopFacts
<1>4. /\ Unused # {} /\ slots' = Append(SubSeq(slots, 1, count), o)
      /\ count' = count + 1 /\ obj' = [obj EXCEPT ![o] = q]
      /\ busy' = <<"add", o>>
      /\ UNCHANGED <<phase, next, daemonize, thread, toe, wild>>
  BY DEF AddBegin, hostapd_iface_alloc
<1>5. o \in Unused /\ \A v \in Unused : o <= v
  <2>1. Unused \subseteq Nat
    BY DEF Unused, Object
  <2>2. \E u \in Unused : \A v \in Unused : u <= v
    BY <1>4, <2>1, LeastNumber
  <2>3. QED
    BY <2>2
<1> HIDE DEF o
<1>6. o \in Object /\ obj[o].st = "unused"
  BY <1>5 DEF Unused
<1>7. /\ count < o /\ o <= MaxObject /\ o \in Nat /\ MaxObject \in Nat
  BY <1>1, <1>6, InterfacesConstants DEF TableInv, Object
<1>8. /\ q \in ObjType /\ q.name = n /\ q.st = "noconf" /\ q.csa = FALSE
  BY DEF NoObject, ObjType, Tuned, Status
<1> HIDE DEF q
<1>9. /\ obj' \in [Object -> ObjType]
      /\ \A p \in Object : obj'[p] = IF p = o THEN q ELSE obj[p]
  BY <1>1, <1>4, <1>6, <1>8 DEF TypeInv
<1>10. \A i \in 1..count : i \in 1..Len(slots) /\ slots[i] \in Object
  BY <1>1 DEF TableInv, TypeInv
<1> DEFINE kept == SubSeq(slots, 1, count)
<1>11. /\ kept \in Seq(Object) /\ Len(kept) = count
       /\ \A i \in 1..count : kept[i] = slots[i]
  <2>1. /\ kept \in Seq(Object)
        /\ Len(kept) = IF 1 <= count THEN count - 1 + 1 ELSE 0
        /\ \A i \in 1..(count - 1 + 1) : kept[i] = slots[1 + i - 1]
    BY <1>3, <1>10, SubSeqProperties
  <2>2. QED
    BY <1>3, <2>1
<1> HIDE DEF kept
<1>12. /\ slots' \in Seq(Object) /\ Len(slots') = count + 1
       /\ \A i \in 1..count : slots'[i] = slots[i]
       /\ slots'[count + 1] = o
  <2>1. slots' = Append(kept, o)
    BY <1>4 DEF kept
  <2>2. /\ Append(kept, o) \in Seq(Object)
        /\ Len(Append(kept, o)) = Len(kept) + 1
        /\ \A i \in 1..Len(kept) : Append(kept, o)[i] = kept[i]
        /\ Append(kept, o)[Len(kept) + 1] = o
    BY <1>6, <1>11, AppendProperties
  <2>3. QED
    BY <1>11, <2>1, <2>2
<1>13. \A i \in 1..count' : i \in 1..count \/ i = count + 1
  BY <1>3, <1>4
<1>14. /\ count' \in Nat /\ count' \in 0..Len(slots') /\ count' <= MaxObject
       /\ count + 1 \in 1..count'
  BY <1>3, <1>4, <1>7, <1>12
<1>15. slots' \in Seq(Object \cup {Null})
  BY <1>12
<1>16. TypeInv'
  BY <1>1, <1>2, <1>4, <1>9, <1>14, <1>15 DEF TypeInv
<1>17. \A i \in 1..count : slots[i] # o /\ obj'[slots[i]] = obj[slots[i]]
  BY <1>1, <1>6, <1>9, <1>10 DEF TableInv
<1>18. \A i \in 1..Len(slots') :
          slots'[i] \in Object => obj'[slots'[i]].st # "unused"
  <2>1. \A i \in 1..count : obj'[slots[i]].st # "unused"
    BY <1>1, <1>10, <1>17 DEF TableInv
  <2>2. \A i \in 1..Len(slots') : i \in 1..count \/ i = count + 1
    BY <1>4, <1>12, <1>13
  <2>3. obj'[o].st # "unused"
    BY <1>6, <1>8, <1>9
  <2>4. QED
    BY <1>12, <2>1, <2>2, <2>3
<1>19. \A i \in 1..count' : slots'[i] \in Object
  BY <1>6, <1>10, <1>12, <1>13
<1>20. \A i, j \in 1..count' : slots'[i] = slots'[j] => i = j
  <2>1. \A i, j \in 1..count : slots[i] = slots[j] => i = j
    BY <1>1 DEF TableInv
  <2>2. QED
    BY <1>12, <1>13, <1>17, <2>1
<1>21. \A p \in Object : obj'[p].st = "unused" => count' < p
  <2>1. ASSUME NEW p \in Object, obj'[p].st = "unused"
        PROVE  count' < p
    <3>1. p # o /\ p \in Unused
      BY <1>8, <1>9, <2>1 DEF Unused
    <3>2. o <= p /\ p \in Nat
      BY <1>5, <3>1 DEF Object
    <3>3. QED
      BY <1>3, <1>4, <1>7, <3>1, <3>2
  <2>2. QED
    BY <2>1
<1>22. \A p \in Object : obj'[p].st \notin {"unused", "freed"} =>
                            \E i \in 1..count' : slots'[i] = p
  <2>1. ASSUME NEW p \in Object, p # o, obj'[p].st \notin {"unused", "freed"}
        PROVE  \E i \in 1..count' : slots'[i] = p
    <3>1. obj[p].st \notin {"unused", "freed"}
      BY <1>9, <2>1
    <3>2. PICK i \in 1..count : slots[i] = p
      BY <1>1, <3>1 DEF TableInv
    <3>3. i \in 1..count' /\ slots'[i] = p
      BY <1>3, <1>4, <1>12, <3>2
    <3>4. QED
      BY <3>3
  <2>2. QED
    BY <1>12, <1>14, <2>1
<1>23. \A p \in Object : /\ obj'[p].st = "noconf" => busy' = <<"add", p>>
  <2>1. \A p \in Object : /\ obj[p].st # "noconf"
    BY <1>1, <1>3 DEF TableInv
  <2>2. QED
    BY <1>4, <1>8, <1>9, <2>1
<1>24. \A i \in 1..count' : obj'[slots'[i]].st # "freed"
  <2>1. \A i \in 1..count : obj[slots[i]].st # "freed"
    BY <1>1, <1>3 DEF TableInv
  <2>2. QED
    BY <1>6, <1>8, <1>9, <1>12, <1>13, <1>17, <2>1
<1>25. BusyInv'
  <2>1. /\ 1 <= count' /\ slots'[count'] = o /\ obj'[o].st = "noconf"
        /\ phase' = "run" /\ busy' = <<"add", o>>
    BY <1>3, <1>4, <1>6, <1>8, <1>9, <1>12
  <2>2. QED
    BY <1>6, <2>1 DEF BusyInv
<1>26. MainInv'
  BY <1>3, <1>4 DEF MainInv
<1>27. TableInv'
  BY <1>18, <1>19, <1>20, <1>21, <1>22, <1>23, <1>24, <1>25, <1>26 DEF TableInv
<1>28. ObjectsKept /\ FreedSeen
  BY <1>6, <1>8, <1>9 DEF ObjectsKept, FreedSeen
<1>29. EntriesKept
  <2>1. \A i \in 1..count : i <= count' /\ slots'[i] = slots[i]
    BY <1>3, <1>4, <1>12
  <2>2. QED
    BY <2>1 DEF EntriesKept
<1>30. \A p \in Object : ChanKept(p) /\ FlagSound(obj'[p])
  <2>1. ASSUME NEW p \in Object, p # o
        PROVE  ChanKept(p) /\ FlagSound(obj'[p])
    <3>1. obj'[p] = obj[p]
      BY <1>9, <2>1
    <3>2. QED
      BY <3>1, FlagOf DEF ChanKept
  <2>2. \A u \in Thread : ~Fills(u, o)
    BY <1>6, CallOf DEF Fills, Holds, Holding
  <2>3. ChanKept(o) /\ FlagSound(obj'[o])
    BY <1>6, <1>8, <1>9, <2>2 DEF ChanKept, FlagSound
  <2>4. QED
    BY <2>1, <2>3
<1>31. CallInv' /\ ChanInv' /\ FlagInv'
  BY <1>4, <1>14, <1>28, <1>29, <1>30, FollowsSame, LoopKeeps
<1>32. QED
  BY <1>4, <1>16, <1>27, <1>31 DEF Inv

LEMMA GlobalRunStep ==
    ASSUME Inv, hostapd_global_run
    PROVE  Inv' /\ UNCHANGED wild
<1> DEFINE lost == [IdleThread EXCEPT !.pc = "lost"]
           hit(o) == daemonize /\ \E t \in Thread : thread[t].at = o
           odd(o) == obj[o].odd \cup {"channel", "switch"}
           mark(o) == [obj[o] EXCEPT !.odd = odd(o)]
<1>1. TypeInv /\ TableInv /\ MainInv
  BY DEF Inv, TableInv
<1>2. /\ phase = "setup" /\ phase' = "run" /\ next' = 1
      /\ thread' = IF daemonize THEN [t \in Thread |-> lost] ELSE thread
      /\ obj' = [o \in Object |-> IF hit(o) THEN mark(o) ELSE obj[o]]
      /\ UNCHANGED <<daemonize, slots, count, busy, toe, events, wild>>
  BY DEF hostapd_global_run
<1>3. busy = <<>> /\ count' \in Nat /\ 1 \in 1..(MaxObject + 1)
  BY <1>1, <1>2, InterfacesConstants DEF MainInv, TypeInv
<1>4. Sound(lost) /\ lost.pc = "lost" /\ lost \in CallType
  BY IdleSound DEF Sound
<1>5. lost.conf = "none" /\ lost.other = FALSE
  BY DEF IdleThread
<1> HIDE DEF lost
<1>6. ASSUME NEW o \in Object
      PROVE  /\ obj'[o] \in ObjType /\ obj'[o].name = obj[o].name
             /\ obj'[o].st = obj[o].st /\ obj'[o].mode = obj[o].mode
             /\ obj'[o].freq = obj[o].freq /\ obj'[o].chan = obj[o].chan
             /\ FlagSound(obj'[o])
             /\ "channel" \in obj[o].odd => "channel" \in obj'[o].odd
             /\ hit(o) => "channel" \in obj'[o].odd
  <2>1. obj[o] \in ObjType /\ FlagSound(obj[o])
    BY FlagOf
  <2>2. CASE hit(o)
    <3>1. obj'[o] = mark(o)
      BY <1>2, <2>2
    <3>2. /\ odd(o) \in SUBSET {"channel", "switch"}
          /\ "channel" \in odd(o) /\ "switch" \in odd(o)
      BY <2>1, ObjFields
    <3> HIDE DEF odd
    <3>3. /\ mark(o) \in ObjType /\ mark(o).name = obj[o].name
          /\ mark(o).st = obj[o].st /\ mark(o).mode = obj[o].mode
          /\ mark(o).freq = obj[o].freq /\ mark(o).chan = obj[o].chan
          /\ mark(o).odd = odd(o)
      BY <2>1, <3>2 DEF ObjType
    <3> HIDE DEF mark
    <3>4. FlagSound(mark(o))
      BY <3>2, <3>3 DEF FlagSound
    <3>5. QED
      BY <3>1, <3>2, <3>3, <3>4
  <2>3. CASE ~hit(o)
    BY <1>2, <2>1, <2>3
  <2>4. QED
    BY <2>2, <2>3
<1>7. obj' \in [Object -> ObjType]
  <2>1. obj' = [o \in Object |-> obj'[o]]
    BY <1>2
  <2>2. QED
    BY <1>6, <2>1
<1>8. thread' \in [Thread -> CallType]
  BY <1>1, <1>2, <1>4 DEF TypeInv
<1>9. TypeInv'
  BY <1>1, <1>2, <1>3, <1>7, <1>8 DEF TypeInv
<1>10. TableInv'
  <2>1. MainInv'
    BY <1>2 DEF MainInv
  <2>2. BusyInv'
    BY <1>2, <1>3 DEF BusyInv
  <2>3. \A i \in 1..Len(slots) :
           slots[i] \in Object => obj'[slots[i]].st # "unused"
    BY <1>1, <1>6 DEF TableInv
  <2>4. \A i \in 1..count : slots[i] \in Object /\ obj'[slots[i]].st # "freed"
    BY <1>1, <1>2, <1>3, <1>6 DEF TableInv
  <2>5. \A o \in Object : /\ obj'[o].st = "unused" => count < o
                          /\ obj'[o].st = "noconf" => busy = <<"add", o>>
    BY <1>1, <1>6 DEF TableInv
  <2>6. \A o \in Object : obj'[o].st \notin {"unused", "freed"} =>
                             \E i \in 1..count : slots[i] = o
    BY <1>1, <1>6 DEF TableInv
  <2>7. \A i, j \in 1..count : slots[i] = slots[j] => i = j
    BY <1>1 DEF TableInv
  <2>8. slots' = slots /\ count' = count /\ busy' = busy
    BY <1>2
  <2>9. QED
    BY <2>1, <2>2, <2>3, <2>4, <2>5, <2>6, <2>7, <2>8 DEF TableInv
<1>11. \A u \in Thread : \/ Follows(thread[u], thread'[u])
                         \/ Ends(thread[u], thread'[u])
  <2>1. ASSUME NEW u \in Thread
        PROVE  \/ Follows(thread[u], thread'[u])
               \/ Ends(thread[u], thread'[u])
    <3>1. CASE daemonize
      <4>1. thread'[u] = lost
        BY <1>2, <3>1
      <4>2. thread[u].pc = "restore" => thread[u].at \in Object
        BY CallOf DEF Holds, Holding
      <4>3. thread[u].pc = "restore" => "channel" \in obj'[thread[u].at].odd
        BY <1>6, <3>1, <4>2
      <4>4. QED
        BY <1>4, <1>5, <4>1, <4>3 DEF Ends
    <3>2. CASE ~daemonize
      BY <1>2, <3>2, FollowsSame
    <3>3. QED
      BY <3>1, <3>2
  <2>2. QED
    BY <2>1
<1>12. ObjectsKept
  BY <1>6 DEF ObjectsKept
<1>13. FreedSeen
  BY <1>6 DEF FreedSeen
<1>14. EntriesKept
  <2>1. \A i \in 1..count : i <= count' /\ slots'[i] = slots[i]
    BY <1>1, <1>2 DEF TypeInv
  <2>2. QED
    BY <2>1 DEF EntriesKept
<1>15. \A o \in Object : ChanKept(o) /\ FlagSound(obj'[o])
  BY <1>6 DEF ChanKept
<1>16. CallInv' /\ ChanInv' /\ FlagInv'
  BY <1>2, <1>3, <1>11, <1>12, <1>13, <1>14, <1>15, LoopKeeps
<1>17. QED
  BY <1>2, <1>9, <1>10, <1>16 DEF Inv

-----------------------------------------------------------------------------
(* The invariant holds *)

LEMMA InitInv == Init => Inv
<1> SUFFICES ASSUME Init PROVE Inv
  OBVIOUS
<1> DEFINE n == Len(Started)
<1>1. /\ n \in Nat /\ n <= MaxObject /\ MaxObject \in Nat /\ MaxEvents \in Nat
      /\ \A i \in 1..n : Started[i] \in Name
  BY InterfacesConstants
<1>2. /\ slots = [i \in 1..n |-> i] /\ count = n /\ toe = n
      /\ obj = [o \in Object |-> IF o <= n THEN Configured(Started[o])
                                 ELSE NoObject]
      /\ phase = "setup" /\ next = 1 /\ daemonize \in Background
      /\ busy = <<>> /\ thread = [t \in Thread |-> IdleThread]
      /\ events = 0 /\ wild = "no"
  BY DEF Init
<1> HIDE DEF n
<1>3. slots \in Seq(Object \cup {Null}) /\ Len(slots) = n
      /\ \A i \in 1..n : slots[i] = i /\ i \in Object
  <2>1. slots \in [1..n -> Object \cup {Null}]
    BY <1>1, <1>2 DEF Object
  <2>2. \A i \in 1..n : slots[i] = i /\ i \in Object
    BY <1>1, <1>2 DEF Object
  <2>3. QED
    BY <1>1, <2>1, <2>2
<1>4. /\ NoObject \in ObjType /\ NoObject.st = "unused" /\ NoObject.csa = FALSE
      /\ NoObject.odd = {}
  BY DEF NoObject, ObjType, Tuned, Status
<1>5. \A m \in Name : /\ Configured(m) \in ObjType
                      /\ Configured(m).st = "configured"
                      /\ Configured(m).csa = FALSE
  BY InterfacesConstants DEF Configured, NoObject, ObjType, Tuned, Status
<1>6. ASSUME NEW o \in Object
      PROVE  /\ obj[o] \in ObjType /\ obj[o].csa = FALSE
             /\ o <= n => obj[o].st = "configured"
             /\ ~(o <= n) => obj[o].st = "unused"
  <2>1. CASE o <= n
    <3>1. o \in 1..n
      BY <1>1, <2>1 DEF Object
    <3>2. Started[o] \in Name /\ obj[o] = Configured(Started[o])
      BY <1>1, <1>2, <2>1, <3>1
    <3>3. QED
      BY <1>5, <2>1, <3>2
  <2>2. CASE ~(o <= n)
    BY <1>2, <1>4, <2>2
  <2>3. QED
    BY <2>1, <2>2
<1>7. /\ IdleThread \in CallType /\ IdleThread.pc = "idle"
      /\ IdleThread.conf = "none" /\ IdleThread.other = FALSE
  BY <1>1 DEF IdleThread, CallType, Pc, Tuned
<1>8. TypeInv
  <2>1. obj \in [Object -> ObjType]
    BY <1>2, <1>6
  <2>2. thread \in [Thread -> CallType]
    BY <1>2, <1>7
  <2>3. daemonize \in BOOLEAN
    BY <1>2, InterfacesConstants
  <2>4. /\ next \in 1..(MaxObject + 1) /\ toe \in 0..MaxObject
        /\ events \in 0..MaxEvents /\ count \in 0..Len(slots)
        /\ count <= MaxObject
    BY <1>1, <1>2, <1>3
  <2>5. QED
    BY <1>2, <1>3, <2>1, <2>2, <2>3, <2>4 DEF TypeInv
<1>9. TableInv
  <2>1. /\ MainInv /\ BusyInv
    BY <1>1, <1>2 DEF MainInv, BusyInv
  <2>2. \A i \in 1..n : obj[slots[i]].st = "configured"
    <3>1. ASSUME NEW i \in 1..n
          PROVE  obj[slots[i]].st = "configured"
      <4>1. slots[i] = i /\ i \in Object /\ i <= n
        BY <1>1, <1>3
      <4>2. QED
        BY <1>6, <4>1
    <3>2. QED
      BY <3>1
  <2>3. \A o \in Object : obj[o].st = "unused" => count < o
    <3>1. ASSUME NEW o \in Object, obj[o].st = "unused"
          PROVE  count < o
      <4>1. ~(o <= n)
        BY <1>6, <3>1
      <4>2. o \in Nat
        BY DEF Object
      <4>3. QED
        BY <1>1, <1>2, <4>1, <4>2
    <3>2. QED
      BY <3>1
  <2>4. \A o \in Object : obj[o].st # "unused" =>
                             \E i \in 1..count : slots[i] = o
    <3>1. ASSUME NEW o \in Object, obj[o].st # "unused"
          PROVE  \E i \in 1..count : slots[i] = o
      <4>1. o <= n
        BY <1>6, <3>1
      <4>2. o \in 1..n
        BY <1>1, <4>1 DEF Object
      <4>3. QED
        BY <1>2, <1>3, <4>2
    <3>2. QED
      BY <3>1
  <2>5. \A o \in Object : obj[o].st \in {"configured", "unused"}
    BY <1>6
  <2>6. \A i \in 1..count : slots[i] = i /\ slots[i] \in Object
                            /\ obj[slots[i]].st = "configured"
    BY <1>2, <1>3, <2>2
  <2>7. Len(slots) = count
    BY <1>2, <1>3
  <2>8. \A i, j \in 1..count : slots[i] = slots[j] => i = j
    BY <2>6
  <2>9. QED
    BY <2>1, <2>3, <2>4, <2>5, <2>6, <2>7, <2>8 DEF TableInv
<1>10. \A t \in Thread : thread[t] = IdleThread
  BY <1>2
<1>11. CallInv
  BY <1>7, <1>10 DEF CallInv, Locals, Holds, Knows, Setting, Holding, Running, Pc
<1>12. ChanInv
  <2>1. \A t \in Thread, o \in Object : ~Fills(t, o)
    BY <1>7, <1>10 DEF Fills
  <2>2. \A o \in Object : obj[o].st # "up"
    BY <1>6
  <2>3. QED
    BY <2>1, <2>2 DEF ChanInv
<1>13. FlagInv
  BY <1>6 DEF FlagInv
<1>14. QED
  BY <1>8, <1>9, <1>11, <1>12, <1>13 DEF Inv

\* Every step keeps the invariant; it ends the process for a known reason only.
LEMMA StepInv ==
    ASSUME Inv, Next
    PROVE  /\ Inv'
           /\ \/ wild' = "no"
              \/ \E t \in Thread : Fails(t) /\ Alive
              \/ NoWildAccess'
<1>1. ASSUME NEW t \in Thread, Alive, Moves(t) \/ Fails(t) \/ Writes(t)
      PROVE  Inv' /\ (wild' = "no" \/ (Fails(t) /\ Alive))
  <2>1. CASE Moves(t)
    <3>1. wild' = "no"
      BY <1>1, <2>1 DEF Moves, To, Alive
    <3>2. QED
      BY <1>1, <2>1, <3>1, MovesKeeps
  <2>2. CASE Fails(t)
    BY <1>1, <2>2, FailsKeeps
  <2>3. CASE Writes(t)
    <3>1. wild' = "no"
      BY <1>1, <2>3 DEF Writes, Write, Alive
    <3>2. QED
      BY <1>1, <2>3, <3>1, WritesKeeps
  <2>4. QED
    BY <1>1, <2>1, <2>2, <2>3
<1>2. ASSUME NEW t \in Thread, Step(t)
      PROVE  Inv' /\ (wild' = "no" \/ (Fails(t) /\ Alive))
  <2>1. CASE get_wiphy(t)
    <3>1. Alive
      BY <2>1 DEF get_wiphy, ThreadAt
    <3>2. QED
      BY <1>1, <2>1, <3>1, GetWiphyStep
  <2>2. CASE get_wiphy_compare(t)
    <3>1. Alive
      BY <2>2 DEF get_wiphy_compare, ThreadAt
    <3>2. QED
      BY <1>1, <2>2, <3>1, CompareStep
  <2>3. CASE Fetch(t)
    <3>1. Alive
      BY <2>3 DEF Fetch, ThreadAt
    <3>2. QED
      BY <1>1, <2>3, <3>1, FetchStep
  <2>4. CASE Read(t)
    <3>1. Alive
      BY <2>4 DEF Read, ThreadAt
    <3>2. QED
      BY <1>1, <2>4, <3>1, ReadStep
  <2>5. CASE Finish(t)
    <3>1. Alive
      BY <2>5 DEF Finish, ThreadAt
    <3>2. QED
      BY <1>1, <2>5, <3>1, FinishStep
  <2>6. CASE set_current_channel(t)
    <3>1. Alive
      BY <2>6 DEF set_current_channel, ThreadAt
    <3>2. QED
      BY <1>1, <2>6, <3>1, ConvertStep
  <2>7. CASE set_current_frequency(t)
    <3>1. Alive
      BY <2>7 DEF set_current_frequency, ThreadAt
    <3>2. QED
      BY <1>1, <2>7, <3>1, FillStep
  <2>8. CASE hostapd_fill_csa_settings(t)
    <3>1. Alive
      BY <2>8 DEF hostapd_fill_csa_settings, ThreadAt
    <3>2. QED
      BY <1>1, <2>8, <3>1, RestoreStep
  <2>9. CASE hostapd_drv_switch_channel(t)
    <3>1. Alive
      BY <2>9 DEF hostapd_drv_switch_channel, ThreadAt
    <3>2. QED
      BY <1>1, <2>9, <3>1, SwitchStep
  <2>10. CASE hostapd_switch_channel(t)
    <3>1. Alive
      BY <2>10 DEF hostapd_switch_channel, ThreadAt
    <3>2. QED
      BY <1>1, <2>10, <3>1, FlagStep
  <2>11. CASE BruteForce(t)
    <3>1. Alive
      BY <2>11 DEF BruteForce, ThreadAt
    <3>2. QED
      BY <1>1, <2>11, <3>1, ForceStep
  <2>12. CASE hostapd_reload_config(t)
    <3>1. Alive
      BY <2>12 DEF hostapd_reload_config, ThreadAt
    <3>2. QED
      BY <1>1, <2>12, <3>1, ReloadStep
  <2>13. CASE hostapd_clear_old(t)
    <3>1. Alive
      BY <2>13 DEF hostapd_clear_old, ThreadAt
    <3>2. QED
      BY <1>1, <2>13, <3>1, FlushStep
  <2>14. CASE ReplaceConf(t)
    <3>1. Alive
      BY <2>14 DEF ReplaceConf, ThreadAt
    <3>2. Fails(t) \/ (Inv' /\ wild' = wild)
      BY <2>14, ReplaceStep
    <3>3. QED
      BY <1>1, <3>1, <3>2 DEF Alive
  <2>15. CASE ArrayMoved(t)
    BY <1>1, <2>15, MovedStep
  <2>16. QED
    BY <1>2, <2>1, <2>2, <2>3, <2>4, <2>5, <2>6, <2>7, <2>8, <2>9, <2>10,
       <2>11, <2>12, <2>13, <2>14, <2>15 DEF Step
<1>3. ASSUME Main \/ Loop
      PROVE  Inv' /\ (wild' = "no" \/ NoWildAccess')
  <2>1. Alive
    BY <1>3 DEF Main, Loop, SetupNext, hostapd_global_run, Terminate,
                DeinitNext, AddEnd, RemoveShift, handle_reload, AddBegin,
                RemoveFree, hostapd_enable_iface, hostapd_disable_iface,
                SetupComplete, hostapd_event_ch_switch,
                hostapd_event_iface_unavailable, StationLost, Event, EventLoop
  <2>2. CASE Main
    BY <2>1, <2>2, SetupNextStep, GlobalRunStep, TerminateStep, DeinitStep
       DEF Main, Alive
  <2>3. CASE Loop
    BY <2>1, <2>3, LostStep, AddEndStep, RemoveShiftStep, SighupStep, AddBeginStep,
       RemoveFreeStep, EnableStep, DisableStep, CompleteStep, SwitchedStep,
       UnavailableStep DEF Loop, Alive
  <2>4. QED
    BY <1>3, <2>2, <2>3
<1>4. ASSUME NEW t \in Thread, NEW op \in Request, NEW n \in Named,
             NEW c \in Asked, Begin(t, op, n, c)
      PROVE  Inv' /\ (wild' = "no" \/ (Fails(t) /\ Alive))
  BY <1>1, <1>4, BeginStep
<1>5. QED
  BY <1>2, <1>3, <1>4 DEF Next, Alive

\* The access that ends the process has its cause.
LEMMA FailsCause ==
    ASSUME Inv, Alive, NEW t \in Thread, Fails(t)
    PROVE  NoWildAccess'
<1>1. PICK k \in Kinds : Crash(t, k) /\ Cause(t)[k]
  BY DEF Fails
<1>2. /\ wild' = k /\ UNCHANGED <<phase, busy, slots, count, obj>>
      /\ thread' = [thread EXCEPT ![t].pc = "wild"]
  BY <1>1 DEF Crash
<1>3. thread[t] \in CallType /\ thread \in [Thread -> CallType]
  BY DEF Inv, TypeInv
<1>4. /\ thread'[t].during = thread[t].during /\ thread'[t].op = thread[t].op
      /\ \A u \in Thread : u # t => thread'[u] = thread[u]
  BY <1>2, <1>3 DEF CallType
<1>5. \A u \in Thread : thread[u].pc # "wild"
  BY CallOf DEF Locals, Alive
<1>6. UNCHANGED Table
  BY <1>2 DEF Table
<1>10. (Flushing(t))' = Flushing(t)
  <2>1. \A u \in Thread \ {t} : thread'[u] = thread[u]
    BY <1>4
  <2>2. thread'[t].at = thread[t].at
    BY <1>2, <1>3 DEF CallType
  <2>3. QED
    BY <2>1, <2>2 DEF Flushing
<1>7. /\ (Cause(t).outside)' = Cause(t).outside
      /\ (Cause(t).moved)' = Cause(t).moved
      /\ (Cause(t).station)' = Cause(t).station
      /\ (Cause(t).null)' = Cause(t).null
      /\ (Cause(t).freed)' = Cause(t).freed
      /\ (Cause(t).noconf)' = Cause(t).noconf
      /\ (Cause(t).conf)' = Cause(t).conf
      /\ (Cause(t).nomode)' = Cause(t).nomode
      /\ (Cause(t).mode)' = Cause(t).mode
      /\ (Cause(t).driver)' = Cause(t).driver
  BY <1>2, <1>4, <1>6, <1>10 DEF Cause, HasDriver
<1>8. (Cause(t))'[k]
  BY <1>1, <1>7 DEF Kinds
<1>11. thread'[t].pc = "wild"
  BY <1>2, <1>3 DEF CallType
<1>9. QED
  BY <1>2, <1>4, <1>5, <1>8, <1>11 DEF NoWildAccess

-----------------------------------------------------------------------------
(* The theorems *)

\* The invariant, from which the others follow.
THEOREM Invariant == Spec => []Inv
<1>1. Inv /\ [Next]_vars => Inv'
  <2>1. CASE Next
    BY <2>1, StepInv
  <2>2. CASE UNCHANGED vars
    BY <2>2 DEF vars, Inv, TypeInv, TableInv, BusyInv, MainInv, Table, CallInv,
                Locals, Holds, Knows, ChanInv, FlagInv, Fills
  <2>3. QED
    BY <2>1, <2>2
<1>2. QED
  BY InitInv, <1>1, PTL DEF Spec

\* The table never counts more entries than the array has (hostapd_iface_alloc
\* and the loops of hostapd_remove_iface), and the loops of main() stay within
\* it, whatever the events and the calls of servlets.
THEOREM TypeCorrect == Spec => []TypeOK
<1>1. Inv => TypeOK
  <2>1. SUFFICES ASSUME Inv PROVE TypeOK
    OBVIOUS
  <2>2. TypeInv
    BY <2>1 DEF Inv
  <2>3. ASSUME NEW o \in Object
        PROVE  /\ obj[o].st \in {"unused", "noconf", "configured", "starting",
                                 "failed", "up", "disabled", "freed"}
               /\ obj[o].mode \in {"none", "valid", "freed"}
               /\ {obj[o].chan, obj[o].freq, obj[o].cs, obj[o].drv}
                     \subseteq Channel \cup {0}
    <3>1. obj[o] \in ObjType
      BY <2>2 DEF TypeInv
    <3>2. QED
      BY <3>1, ObjFields DEF Status, Tuned
  <2>4. ASSUME NEW t \in Thread
        PROVE  /\ thread[t].at \in Object \cup {Null}
               /\ thread[t].wiphy \in -1..(MaxObject - 1)
    BY <2>1, CallOf, CallFields
  <2>5. QED
    BY <2>2, <2>3, <2>4 DEF TypeInv, TypeOK
<1>2. QED
  BY Invariant, <1>1, PTL

\* A servlet uses memory of the interfaces that it must not use only when an
\* interface is removed, added or reloaded or the process ends meanwhile, or
\* when it sets a channel on an interface without driver or modes; and the
\* event loop loses a station or a configuration it works with only to a
\* servlet that sets a channel of the radio by hostapd_reload_config: for any
\* number of interfaces, servlets and administrative events.
THEOREM KnownCauses == Spec => []NoWildAccess
<1>1. Init => NoWildAccess
  BY DEF Init, IdleThread, NoWildAccess
<1>2. Inv /\ NoWildAccess /\ [Next]_vars => NoWildAccess'
  <2>1. SUFFICES ASSUME Inv, NoWildAccess, [Next]_vars
                 PROVE  NoWildAccess'
    OBVIOUS
  <2>2. CASE Next
    <3>1. /\ Inv'
          /\ \/ wild' = "no"
             \/ \E t \in Thread : Fails(t) /\ Alive
             \/ NoWildAccess'
      BY <2>1, <2>2, StepInv
    <3>2. CASE wild' = "no"
      <4>1. \A t \in Thread : thread'[t].pc # "wild"
        BY <3>1, <3>2 DEF Inv, CallInv, Locals
      <4>2. QED
        BY <3>2, <4>1 DEF NoWildAccess
    <3>3. CASE \E t \in Thread : Fails(t) /\ Alive
      BY <2>1, <3>3, FailsCause
    <3>4. QED
      BY <3>1, <3>2, <3>3
  <2>3. CASE UNCHANGED vars
    BY <2>1, <2>3 DEF vars, NoWildAccess, Cause, Table, Flushing, HasDriver
  <2>4. QED
    BY <2>1, <2>2, <2>3
<1>3. QED
  BY Invariant, <1>1, <1>2, PTL DEF Spec

\* What a servlet reads and sets belongs to the interface its request names,
\* unless an interface was removed while it ran (get_wiphy returns an index,
\* and the accessors use it later).
THEOREM RightInterfaceEver == Spec => []RightInterface
<1>1. Inv => RightInterface
  BY DEF Inv, CallInv, Locals, RightInterface
<1>2. QED
  BY Invariant, <1>1, PTL

\* An interface that operates is configured for the channel its radio is on,
\* unless two writers of the channel met or the channel was forced
\* (hostapd_fill_csa_settings puts the new channel into the configuration for a
\* moment and writes the old one back).
THEOREM ChannelKept == Spec => []ChannelMatchesRadio
<1>1. Inv => ChannelMatchesRadio
  <2>1. SUFFICES ASSUME Inv, NEW o \in Object, obj[o].st = "up", obj[o].freq # 0,
                        ~Filling(o), "channel" \notin obj[o].odd
                 PROVE  obj[o].chan = obj[o].freq
    BY DEF ChannelMatchesRadio
  <2>2. \A t \in Thread : ~Fills(t, o)
    BY <2>1 DEF Filling, Fills
  <2>3. QED
    BY <2>1, <2>2 DEF Inv, ChanInv
<1>2. QED
  BY Invariant, <1>1, PTL

\* A channel switch that has been announced is over once the driver has
\* switched, unless one of the known races left csa_in_progress behind.
THEOREM SwitchEndsEver == Spec => []SwitchEnds
<1>1. Inv => SwitchEnds
  BY DEF Inv, FlagInv, SwitchEnds
<1>2. QED
  BY Invariant, <1>1, PTL
=============================================================================
