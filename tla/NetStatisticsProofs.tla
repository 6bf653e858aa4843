------------------------- MODULE NetStatisticsProofs -------------------------
(***************************************************************************)
(* Proofs about the list of net_statistics.c, for any number of            *)
(* interfaces, connections, collectors and cells: what its walks may meet  *)
(* without harm, and that it implements the set of InterfaceSet.           *)
(*                                                                         *)
(* The list is described by its length m and the function L from 1..m to   *)
(* its cells.                                                              *)
(***************************************************************************)
EXTENDS NetStatistics, NatLemmas, TLAPS

Removal == {"remove", "unlink", "jump", "free"}

Change == Removal \cup {"add", "insert", "publish"}

Getting == {"count", "fill"}

Walk == Change \cup Getting \cup {"update", "store"}

Period == {"time", "stopped", "start", "create", "assign"}

Kinds == {"changes", "removal", "get", "period"}

Record ==
    [pc : Walk \cup Period \cup {"idle", "created", "loop", "sleep"},
     intf : Intf \cup {NULL}, usec : (-IntMax - 1)..IntMax,
     p : Pointer, q : Pointer, n : Nat, i : Nat, names : SUBSET Intf]

\* The locals fit the place in the code.
Fine(r) ==
    /\ r.pc \in Change => r.intf \in Intf
    /\ r.pc \in {"unlink", "jump", "free", "publish", "store"} => r.p \in Node
    /\ r.pc = "assign" \/ r.pc = "start" \/ r.pc = "create" => r.usec > 0
    /\ r.pc = "count" => r.i = 0 /\ r.names = {}
    /\ r.pc \notin Getting => r.n = 0 /\ r.i = 0

TypeInv ==
    /\ list_net_statistics \in Pointer
    /\ heap \in [Node -> Cell]
    /\ allocated \subseteq Node
    /\ collect_usec \in -1..IntMax
    /\ running_thread \in BOOLEAN
    /\ th \in [Thread -> Record]
    /\ \A t \in Thread : Fine(th[t])
    /\ undefined \in BOOLEAN /\ overrun \in BOOLEAN
    /\ got \subseteq Intf
    /\ overlap \subseteq Kinds

\* What is under way has been recorded.
MetInv == Met(th) \subseteq overlap

-----------------------------------------------------------------------------
(* Lists *)

\* The j-th item of a list, NULL after the last one.
Nth(m, L, j) == IF j \in 1..m THEN L[j] ELSE NULL

\* The pointers of h lead along the cells of L, all in A, and then to e.
Path(m, L, e, h, A) ==
    /\ m \in Nat /\ L \in [1..m -> Node]
    /\ \A j \in 1..m :
          L[j] \in A /\ h[L[j]].next = IF j < m THEN L[j + 1] ELSE e

From(m, L, e) == IF m = 0 THEN e ELSE L[1]

\* A list that ends.
Chain(m, L, h, A) ==
    /\ Path(m, L, NULL, h, A)
    /\ \A j, k \in 1..m : L[j] = L[k] => j = k

In(m, L, x) == \E j \in 1..m : L[j] = x

Names(m, L, h) == {h[L[j]].intf_name : j \in 1..m}

\* Where a removal r stands.
Position(m, L, r, A) ==
    /\ r.pc = "remove" =>
          \E j \in 1..(m + 1) : r.p = Nth(m, L, j) /\ r.q = Nth(m, L, j - 1)
    /\ r.pc = "unlink" =>
          \E j \in 1..m : r.p = L[j] /\ r.q = Nth(m, L, j - 1)
    /\ r.pc = "jump" =>
          /\ r.p \in A
          /\ \/ r.q = NULL /\ ~In(m, L, r.p)
             \/ \E j \in 2..m : r.p = L[j] /\ r.q = L[j - 1]
    /\ r.pc = "free" => r.p \in A /\ ~In(m, L, r.p)

\* What an addition r knows of the list with head a.
Knows(m, L, r, a, h, A) ==
    /\ r.pc = "add" =>
          \E j \in 1..(m + 1) :
             /\ r.p = Nth(m, L, j)
             /\ \A k \in 1..(j - 1) : h[L[k]].intf_name # r.intf
    /\ r.pc = "insert" => \A k \in 1..m : h[L[k]].intf_name # r.intf
    /\ r.pc = "publish" =>
          /\ r.p \in A /\ ~In(m, L, r.p)
          /\ h[r.p].intf_name = r.intf /\ h[r.p].next = a
          /\ \A k \in 1..m : h[L[k]].intf_name # r.intf

\* A request has a cell that is not in the list, or is about to be.
Holds(r, x) == r.p = x /\ r.pc \in {"publish", "jump", "free"}

\* What holds of a list that one request at a time changes.
Sound(m, L) ==
    /\ \A j, k \in 1..m :
          heap[L[j]].intf_name = heap[L[k]].intf_name => j = k
    /\ \A x \in allocated : In(m, L, x) \/ \E s \in Servlet : Holds(th[s], x)
    /\ \A s \in Servlet :
          Knows(m, L, th[s], list_net_statistics, heap, allocated)

TheList(m, L) ==
    /\ Chain(m, L, heap, allocated)
    /\ list_net_statistics = Nth(m, L, 1)
    /\ \A s \in Servlet : Position(m, L, th[s], allocated)
    /\ "changes" \notin overlap => Sound(m, L)

ListInv ==
    "changes" \notin overlap \/ "removal" \notin overlap
       => \E m, L : TheList(m, L)

\* A walk r stands on the j-th item of a list that ends.
Stands(m, L, j, r, h, A) ==
    /\ Chain(m, L, h, A) /\ j \in 1..(m + 1) /\ r.p = Nth(m, L, j)
    /\ r.pc = "publish" => j = 1
    /\ r.pc = "count" => j = r.n + 1
    /\ r.pc = "fill" => j = r.i + 1 /\ r.n <= Cardinality(Node)

OnList(r, h, A) == \E m, L, j : Stands(m, L, j, r, h, A)

Walker == Walk \ (Removal \cup {"insert"})

\* As long as no removal meets a walk.
WalkInv ==
    "removal" \notin overlap =>
       /\ \A t \in Thread : th[t].pc \in Walker
                               => OnList(th[t], heap, allocated)
       /\ ~undefined

\* A "get" r has come along L from a; then it does so again.
Follows(m, L, r, a, h, A) ==
    /\ r.pc = "count" =>
          /\ Path(m, L, r.p, h, A) /\ From(m, L, r.p) = a
          /\ r.n = m
    /\ r.pc = "fill" =>
          /\ Path(m, L, NULL, h, A) /\ From(m, L, NULL) = a
          /\ r.n = m /\ r.i <= m /\ r.p = Nth(m, L, r.i + 1)
          /\ r.names = {h[L[k]].intf_name : k \in 1..r.i}

\* As long as no change meets a "get", it walks one path, twice.
GetInv ==
    "get" \notin overlap /\ ~undefined =>
       /\ \A t \in Thread : th[t].pc \in Getting =>
             \E m, L : Follows(m, L, th[t], list_net_statistics, heap,
                               allocated)
       /\ ~overrun

Inv == TypeInv /\ MetInv /\ ListInv /\ WalkInv /\ GetInv

-----------------------------------------------------------------------------
(* Lemmas about lists *)

\* A list stays one when its cells do.
LEMMA ChainFrame ==
    ASSUME NEW m, NEW L, NEW h, NEW A, NEW h2, NEW A2,
           Chain(m, L, h, A),
           \A j \in 1..m : L[j] \in A2 /\ h2[L[j]].next = h[L[j]].next
    PROVE  Chain(m, L, h2, A2)
BY DEF Chain, Path

LEMMA PathFrame ==
    ASSUME NEW m, NEW L, NEW e, NEW h, NEW A, NEW h2, NEW A2,
           Path(m, L, e, h, A),
           \A j \in 1..m : L[j] \in A2 /\ h2[L[j]].next = h[L[j]].next
    PROVE  Path(m, L, e, h2, A2)
BY DEF Path

\* A cell is put in front.
Prepended(m, L, x) ==
    [j \in 1..(m + 1) |-> IF j = 1 THEN x ELSE L[j - 1]]

LEMMA ChainPrepend ==
    ASSUME NEW m, NEW L, NEW h, NEW A, NEW x \in Node,
           Chain(m, L, h, A), ~In(m, L, x), x \in A,
           h[x].next = Nth(m, L, 1)
    PROVE  Chain(m + 1, Prepended(m, L, x), h, A)
<1> DEFINE K == Prepended(m, L, x)
<1>1. m \in Nat /\ L \in [1..m -> Node]
  BY DEF Chain, Path
<1>2. K \in [1..(m + 1) -> Node]
  BY <1>1 DEF Prepended
<1>3. K[1] = x /\ \A j \in 1..m : K[j + 1] = L[j]
  BY <1>1 DEF Prepended
<1>4. ASSUME NEW j \in 1..(m + 1)
      PROVE  j = 1 \/ (j - 1 \in 1..m /\ K[j] = L[j - 1])
  BY <1>1 DEF Prepended
<1> HIDE DEF K
<1>5. ASSUME NEW j \in 1..(m + 1)
      PROVE  K[j] \in A /\ h[K[j]].next = IF j < m + 1 THEN K[j + 1] ELSE NULL
  <2>1. CASE j = 1
    <3>1. K[j] = x
      BY <2>1, <1>3
    <3>2. CASE m = 0
      BY <3>1, <3>2, <2>1 DEF Nth
    <3>3. CASE m # 0
      <4>1. 1 \in 1..m /\ j < m + 1
        BY <1>1, <3>3, <2>1
      <4>2. K[j + 1] = L[1]
        BY <4>1, <1>3, <2>1
      <4>3. QED
        BY <4>1, <4>2, <3>1 DEF Nth
    <3>4. QED
      BY <3>2, <3>3
  <2>2. CASE j # 1
    <3>1. j - 1 \in 1..m /\ K[j] = L[j - 1]
      BY <1>4, <2>2
    <3>2. L[j - 1] \in A
          /\ h[L[j - 1]].next = IF j - 1 < m THEN L[(j - 1) + 1] ELSE NULL
      BY <3>1 DEF Chain, Path
    <3>3. CASE j - 1 < m
      <4>1. j \in 1..m /\ j < m + 1 /\ (j - 1) + 1 = j
        BY <1>1, <3>3
      <4>2. K[j + 1] = L[j]
        BY <4>1, <1>3
      <4>3. QED
        BY <4>1, <4>2, <3>1, <3>2, <3>3
    <3>4. CASE ~(j - 1 < m)
      <4>1. ~(j < m + 1)
        BY <1>1, <3>4
      <4>2. QED
        BY <4>1, <3>1, <3>2, <3>4
    <3>5. QED
      BY <3>3, <3>4
  <2>3. QED
    BY <2>1, <2>2
<1>6. ASSUME NEW j \in 1..(m + 1), NEW k \in 1..(m + 1), K[j] = K[k]
      PROVE  j = k
  <2>1. \A i \in 1..m : L[i] # x
    BY DEF In
  <2>2. j = 1 <=> k = 1
    BY <2>1, <1>3, <1>4, <1>6
  <2>3. CASE j # 1
    <3>1. j - 1 \in 1..m /\ k - 1 \in 1..m /\ L[j - 1] = L[k - 1]
      BY <2>2, <2>3, <1>4, <1>6
    <3>2. j - 1 = k - 1
      BY <3>1 DEF Chain
    <3>3. QED
      BY <3>2, <1>1
  <2>4. QED
    BY <2>2, <2>3
<1>7. m + 1 \in Nat
  BY <1>1
<1>8. QED
  BY <1>2, <1>5, <1>6, <1>7 DEF Chain, Path, K

\* Its j-th item is taken out.
Dropped(m, L, j) == [k \in 1..(m - 1) |-> IF k < j THEN L[k] ELSE L[k + 1]]

LEMMA DroppedItems ==
    ASSUME NEW m, NEW L, NEW h, NEW A, NEW j \in 1..m, Chain(m, L, h, A)
    PROVE  LET K == Dropped(m, L, j)
           IN  /\ m \in Nat /\ m - 1 \in Nat /\ K \in [1..(m - 1) -> Node]
               /\ \A k \in 1..(m - 1) : IF k < j THEN k \in 1..m /\ K[k] = L[k]
                                        ELSE k + 1 \in 1..m /\ K[k] = L[k + 1]
               /\ \A k \in 1..m : k < j => k \in 1..(m - 1) /\ K[k] = L[k]
               /\ \A k \in 1..m : j < k => k - 1 \in 1..(m - 1)
                                           /\ K[k - 1] = L[k]
<1>1. m \in Nat /\ L \in [1..m -> Node] /\ m - 1 \in Nat
  BY DEF Chain, Path
<1>2. QED
  BY <1>1 DEF Dropped

LEMMA DroppedDistinct ==
    ASSUME NEW m, NEW L, NEW h, NEW A, NEW j \in 1..m, Chain(m, L, h, A)
    PROVE  /\ \A i, k \in 1..(m - 1) :
                 Dropped(m, L, j)[i] = Dropped(m, L, j)[k] => i = k
           /\ ~In(m - 1, Dropped(m, L, j), L[j])
           /\ \A x : In(m, L, x) => x = L[j] \/ In(m - 1, Dropped(m, L, j), x)
           /\ \A x : In(m - 1, Dropped(m, L, j), x) => In(m, L, x)
<1> DEFINE K == Dropped(m, L, j)
<1>1. /\ m \in Nat
      /\ \A k \in 1..(m - 1) : IF k < j THEN k \in 1..m /\ K[k] = L[k]
                               ELSE k + 1 \in 1..m /\ K[k] = L[k + 1]
      /\ \A k \in 1..m : k < j => k \in 1..(m - 1) /\ K[k] = L[k]
      /\ \A k \in 1..m : j < k => k - 1 \in 1..(m - 1) /\ K[k - 1] = L[k]
  BY DroppedItems
<1>2. \A i, k \in 1..m : L[i] = L[k] => i = k
  BY DEF Chain
<1> HIDE DEF K
<1>3. ASSUME NEW i \in 1..(m - 1), NEW k \in 1..(m - 1), K[i] = K[k]
      PROVE  i = k
  <2>1. CASE i < j /\ k < j
    BY <2>1, <1>1, <1>2, <1>3
  <2>2. CASE i < j /\ ~(k < j)
    <3>1. i = k + 1
      BY <2>2, <1>1, <1>2, <1>3
    <3>2. QED
      BY <2>2, <3>1, <1>1
  <2>3. CASE ~(i < j) /\ k < j
    <3>1. i + 1 = k
      BY <2>3, <1>1, <1>2, <1>3
    <3>2. QED
      BY <2>3, <3>1, <1>1
  <2>4. CASE ~(i < j) /\ ~(k < j)
    <3>1. i + 1 = k + 1
      BY <2>4, <1>1, <1>2, <1>3
    <3>2. QED
      BY <3>1, <1>1
  <2>5. QED
    BY <2>1, <2>2, <2>3, <2>4
<1>4. ~In(m - 1, K, L[j])
  <2>1. SUFFICES ASSUME NEW k \in 1..(m - 1), K[k] = L[j]
                 PROVE  FALSE
    BY DEF In
  <2>2. CASE k < j
    BY <2>1, <2>2, <1>1, <1>2
  <2>3. CASE ~(k < j)
    <3>1. k + 1 = j
      BY <2>1, <2>3, <1>1, <1>2
    <3>2. QED
      BY <2>3, <3>1, <1>1
  <2>4. QED
    BY <2>2, <2>3
<1>5. ASSUME NEW x, In(m, L, x)
      PROVE  x = L[j] \/ In(m - 1, K, x)
  <2>1. PICK k \in 1..m : L[k] = x
    BY <1>5 DEF In
  <2>2. k < j \/ k = j \/ j < k
    BY <1>1
  <2>3. QED
    BY <2>1, <2>2, <1>1 DEF In
<1>6. ASSUME NEW x, In(m - 1, K, x)
      PROVE  In(m, L, x)
  <2>1. PICK k \in 1..(m - 1) : K[k] = x
    BY <1>6 DEF In
  <2>2. QED
    BY <2>1, <1>1 DEF In
<1>7. QED
  BY <1>3, <1>4, <1>5, <1>6 DEF K

\* The first item is taken out.
LEMMA ChainRest ==
    ASSUME NEW m, NEW L, NEW h, NEW A, 1 \in 1..m, Chain(m, L, h, A)
    PROVE  /\ Chain(m - 1, Dropped(m, L, 1), h, A)
           /\ h[L[1]].next = Nth(m - 1, Dropped(m, L, 1), 1)
<1> DEFINE K == Dropped(m, L, 1)
<1>1. /\ m \in Nat /\ m - 1 \in Nat /\ K \in [1..(m - 1) -> Node]
      /\ \A k \in 1..(m - 1) : k + 1 \in 1..m /\ K[k] = L[k + 1]
  <2>1. \A k \in 1..(m - 1) : ~(k < 1)
    OBVIOUS
  <2>2. QED
    BY <2>1, DroppedItems
<1>2. \A i, k \in 1..(m - 1) : K[i] = K[k] => i = k
  BY DroppedDistinct
<1> HIDE DEF K
<1>3. \A k \in 1..m :
         L[k] \in A /\ h[L[k]].next = IF k < m THEN L[k + 1] ELSE NULL
  BY DEF Chain, Path
<1>4. ASSUME NEW k \in 1..(m - 1)
      PROVE  /\ K[k] \in A
             /\ h[K[k]].next = IF k < m - 1 THEN K[k + 1] ELSE NULL
  <2>1. L[k + 1] \in A /\ h[L[k + 1]].next = IF k + 1 < m
                                            THEN L[(k + 1) + 1] ELSE NULL
    BY <1>1, <1>3
  <2>2. CASE k < m - 1
    <3>1. k + 1 \in 1..(m - 1) /\ k + 1 < m
      BY <2>2, <1>1
    <3>2. K[k + 1] = L[(k + 1) + 1] /\ K[k] = L[k + 1]
      BY <3>1, <1>1
    <3>3. QED
      BY <2>1, <2>2, <3>1, <3>2
  <2>3. CASE ~(k < m - 1)
    <3>1. ~(k + 1 < m)
      BY <2>3, <1>1
    <3>2. QED
      BY <2>1, <2>3, <3>1, <1>1
  <2>4. QED
    BY <2>2, <2>3
<1>5. h[L[1]].next = Nth(m - 1, K, 1)
  <2>1. CASE m = 1
    BY <2>1, <1>3 DEF Nth
  <2>2. CASE m # 1
    <3>1. 1 < m /\ 1 \in 1..(m - 1)
      BY <2>2, <1>1
    <3>2. K[1] = L[1 + 1]
      BY <3>1, <1>1
    <3>3. QED
      BY <3>1, <3>2, <1>3 DEF Nth
  <2>3. QED
    BY <2>1, <2>2
<1>6. QED
  BY <1>1, <1>2, <1>4, <1>5 DEF Chain, Path, K

\* The link jumps over the j-th item.
LEMMA ChainJump ==
    ASSUME NEW m, NEW L, NEW h \in [Node -> Cell], NEW A, NEW j \in 2..m,
           NEW h2, Chain(m, L, h, A),
           h2 = [h EXCEPT ![L[j - 1]].next = h[L[j]].next]
    PROVE  /\ Chain(m - 1, Dropped(m, L, j), h2, A)
           /\ Nth(m - 1, Dropped(m, L, j), 1) = Nth(m, L, 1)
<1> DEFINE K == Dropped(m, L, j)
<1>0. m \in Nat /\ j \in 1..m /\ j - 1 \in 1..m /\ j - 1 < j /\ j \in Nat
  BY DEF Chain, Path
<1>1. /\ m \in Nat /\ m - 1 \in Nat /\ K \in [1..(m - 1) -> Node]
      /\ \A k \in 1..(m - 1) : IF k < j THEN k \in 1..m /\ K[k] = L[k]
                               ELSE k + 1 \in 1..m /\ K[k] = L[k + 1]
  BY <1>0, DroppedItems
<1>2. \A i, k \in 1..(m - 1) : K[i] = K[k] => i = k
  BY <1>0, DroppedDistinct
<1> HIDE DEF K
<1>3. \A k \in 1..m :
         L[k] \in A /\ h[L[k]].next = IF k < m THEN L[k + 1] ELSE NULL
  BY DEF Chain, Path
<1>4. L \in [1..m -> Node] /\ \A i, k \in 1..m : L[i] = L[k] => i = k
  BY DEF Chain, Path
<1>5. ASSUME NEW k \in 1..m
      PROVE  h2[L[k]].next = IF k = j - 1 THEN h[L[j]].next ELSE h[L[k]].next
  <2>1. L[k] \in Node /\ L[j - 1] \in Node /\ (L[k] = L[j - 1] <=> k = j - 1)
    BY <1>0, <1>4
  <2>2. h[L[k]] \in Cell /\ h[L[j - 1]] \in Cell
    BY <2>1
  <2>3. QED
    BY <2>1, <2>2 DEF Cell
<1>6. ASSUME NEW k \in 1..(m - 1)
      PROVE  /\ K[k] \in A
             /\ h2[K[k]].next = IF k < m - 1 THEN K[k + 1] ELSE NULL
  <2>1. CASE k < j - 1
    <3>1. k < j /\ k + 1 < j /\ k + 1 \in 1..(m - 1) /\ k < m - 1 /\ k < m
          /\ k \in 1..m /\ k # j - 1
      BY <2>1, <1>0
    <3>2. K[k] = L[k] /\ K[k + 1] = L[k + 1]
      BY <3>1, <1>1
    <3>3. QED
      BY <3>1, <3>2, <1>3, <1>5
  <2>2. CASE k = j - 1
    <3>1. k < j /\ k \in 1..m /\ ~(k + 1 < j) /\ k + 1 = j
      BY <2>2, <1>0
    <3>2. K[k] = L[k] /\ h2[L[k]].next = h[L[j]].next
      BY <3>1, <1>1, <1>5, <2>2
    <3>3. CASE k < m - 1
      <4>1. k + 1 \in 1..(m - 1) /\ j < m
        BY <3>3, <3>1, <1>0
      <4>2. K[k + 1] = L[(k + 1) + 1]
        BY <4>1, <3>1, <1>1
      <4>3. h[L[j]].next = L[j + 1]
        BY <4>1, <1>0, <1>3
      <4>4. QED
        BY <3>1, <3>2, <3>3, <4>2, <4>3, <1>3
    <3>4. CASE ~(k < m - 1)
      <4>1. ~(j < m)
        BY <3>4, <3>1, <1>0
      <4>2. h[L[j]].next = NULL
        BY <4>1, <1>0, <1>3
      <4>3. QED
        BY <3>1, <3>2, <3>4, <4>2, <1>3
    <3>5. QED
      BY <3>3, <3>4
  <2>3. CASE j - 1 < k
    <3>1. ~(k < j) /\ k + 1 \in 1..m /\ ~(k + 1 < j) /\ k + 1 # j - 1
      BY <2>3, <1>0
    <3>2. K[k] = L[k + 1] /\ h2[L[k + 1]].next = h[L[k + 1]].next
      BY <3>1, <1>1, <1>5
    <3>3. L[k + 1] \in A /\ h[L[k + 1]].next = IF k + 1 < m
                                              THEN L[(k + 1) + 1] ELSE NULL
      BY <3>1, <1>3
    <3>4. CASE k < m - 1
      <4>1. k + 1 \in 1..(m - 1) /\ k + 1 < m
        BY <3>4, <1>0
      <4>2. K[k + 1] = L[(k + 1) + 1]
        BY <4>1, <3>1, <1>1
      <4>3. QED
        BY <3>2, <3>3, <3>4, <4>1, <4>2
    <3>5. CASE ~(k < m - 1)
      <4>1. ~(k + 1 < m)
        BY <3>5, <1>0
      <4>2. QED
        BY <3>2, <3>3, <3>5, <4>1
    <3>6. QED
      BY <3>4, <3>5
  <2>4. k < j - 1 \/ k = j - 1 \/ j - 1 < k
    BY <1>0
  <2>5. QED
    BY <2>1, <2>2, <2>3, <2>4
<1>7. Nth(m - 1, K, 1) = Nth(m, L, 1)
  <2>1. 1 \in 1..(m - 1) /\ 1 < j /\ 1 \in 1..m
    BY <1>0
  <2>2. QED
    BY <2>1, <1>1 DEF Nth
<1>8. QED
  BY <1>1, <1>2, <1>6, <1>7 DEF Chain, Path, K

\* A list has no more items than there are cells.
LEMMA ChainLength ==
    ASSUME NEW m, NEW L, NEW h, NEW A, Chain(m, L, h, A)
    PROVE  m <= Cardinality(Node) /\ Cardinality(Node) \in Nat
<1>1. m \in Nat /\ L \in [1..m -> Node]
      /\ \A j, k \in 1..m : L[j] = L[k] => j = k
  BY DEF Chain, Path
<1>2. L \in Injection(1..m, Node)
  BY <1>1 DEF Injection, IsInjective
<1>3. IsFiniteSet(Node)
  BY NetConstants
<1>4. Cardinality(1..m) <= Cardinality(Node)
  BY <1>2, <1>3, FS_Injection
<1>5. Cardinality(1..m) = m
  <2>1. Cardinality(1..m) = IF 1 > m THEN 0 ELSE m - 1 + 1
    BY <1>1, FS_Interval
  <2>2. QED
    BY <2>1, <1>1
<1>6. Cardinality(Node) \in Nat
  BY <1>3, FS_CardinalityType
<1>7. QED
  BY <1>4, <1>5, <1>6

\* The walk goes on to the next cell.
Extended(m, L, x) == [j \in 1..(m + 1) |-> IF j <= m THEN L[j] ELSE x]

LEMMA PathExtend ==
    ASSUME NEW m, NEW L, NEW h, NEW A, NEW x \in Node,
           Path(m, L, x, h, A), x \in A
    PROVE  /\ Path(m + 1, Extended(m, L, x), h[x].next, h, A)
           /\ From(m + 1, Extended(m, L, x), h[x].next) = From(m, L, x)
<1> DEFINE K == Extended(m, L, x)
<1>1. m \in Nat /\ L \in [1..m -> Node]
      /\ \A j \in 1..m :
            L[j] \in A /\ h[L[j]].next = IF j < m THEN L[j + 1] ELSE x
  BY DEF Path
<1>2. K \in [1..(m + 1) -> Node] /\ K[m + 1] = x /\ \A j \in 1..m : K[j] = L[j]
  BY <1>1 DEF Extended
<1> HIDE DEF K
<1>3. ASSUME NEW j \in 1..(m + 1)
      PROVE  /\ K[j] \in A
             /\ h[K[j]].next = IF j < m + 1 THEN K[j + 1] ELSE h[x].next
  <2>1. CASE j < m
    <3>1. j \in 1..m /\ j + 1 \in 1..m /\ j < m + 1
      BY <2>1, <1>1
    <3>2. QED
      BY <2>1, <3>1, <1>1, <1>2
  <2>2. CASE j = m
    <3>1. j \in 1..m /\ ~(j < m) /\ j < m + 1
      BY <2>2, <1>1
    <3>2. QED
      BY <2>2, <3>1, <1>1, <1>2
  <2>3. CASE j = m + 1
    <3>1. ~(j < m + 1)
      BY <2>3, <1>1
    <3>2. QED
      BY <2>3, <3>1, <1>2
  <2>4. j < m \/ j = m \/ j = m + 1
    BY <1>1
  <2>5. QED
    BY <2>1, <2>2, <2>3, <2>4
<1>4. K[1] = From(m, L, x)
  <2>1. CASE m = 0
    BY <2>1, <1>2 DEF From
  <2>2. CASE m # 0
    <3>1. 1 \in 1..m
      BY <2>2, <1>1
    <3>2. QED
      BY <2>2, <3>1, <1>2 DEF From
  <2>3. QED
    BY <2>1, <2>2
<1>5. m + 1 \in Nat /\ m + 1 # 0
  BY <1>1
<1>6. QED
  BY <1>2, <1>3, <1>4, <1>5 DEF Path, From, K

\* The recursive definition of Reached.
Reaches(f, a, h) ==
    f = [k \in Nat |-> IF k = 0 THEN {a} \ {NULL}
                       ELSE f[k - 1]
                            \cup ({h[x].next : x \in f[k - 1]} \ {NULL})]

LEMMA ReachedRecursion ==
    ASSUME NEW a, NEW h, NEW g, Reaches(g, a, h)
    PROVE  Reaches(Reached(a, h), a, h)
<1>1. Reached(a, h) = CHOOSE f : Reaches(f, a, h)
  BY DEF Reached, Reaches
<1>2. QED
  BY <1>1

\* Along a path that ends, k steps reach its first k + 1 cells.
LEMMA ReachedPath ==
    ASSUME NEW m, NEW L, NEW h, NEW A, Path(m, L, NULL, h, A)
    PROVE  \A k \in Nat : Reached(From(m, L, NULL), h)[k] =
                             {L[j] : j \in {i \in 1..m : i <= k + 1}}
<1> DEFINE S(k) == {L[j] : j \in {i \in 1..m : i <= k + 1}}
           a == From(m, L, NULL)
           g == [k \in Nat |-> S(k)]
           F == Reached(a, h)
<1>1. m \in Nat /\ L \in [1..m -> Node] /\ NULL \notin Node
      /\ \A j \in 1..m : h[L[j]].next = IF j < m THEN L[j + 1] ELSE NULL
  BY NetConstants DEF Path
<1>2. S(0) = {a} \ {NULL}
  <2>1. CASE m = 0
    BY <2>1 DEF From
  <2>2. CASE m # 0
    <3>1. {i \in 1..m : i <= 0 + 1} = {1} /\ 1 \in 1..m
      BY <2>2, <1>1
    <3>2. S(0) = {L[1]}
      BY <3>1
    <3>3. a = L[1] /\ L[1] \in Node
      BY <2>2, <3>1, <1>1 DEF From
    <3>4. QED
      BY <3>2, <3>3, <1>1
  <2>3. QED
    BY <2>1, <2>2
<1>3. ASSUME NEW k \in Nat
      PROVE  S(k + 1) = S(k) \cup ({h[x].next : x \in S(k)} \ {NULL})
  <2>1. ASSUME NEW y \in S(k + 1)
        PROVE  y \in S(k) \cup ({h[x].next : x \in S(k)} \ {NULL})
    <3>1. PICK j \in 1..m : j <= (k + 1) + 1 /\ y = L[j]
      BY <2>1
    <3>2. CASE j <= k + 1
      BY <3>1, <3>2
    <3>3. CASE ~(j <= k + 1)
      <4>1. j - 1 \in 1..m /\ j - 1 <= k + 1 /\ j - 1 < m /\ (j - 1) + 1 = j
        BY <3>1, <3>3, <1>1
      <4>2. h[L[j - 1]].next = y
        BY <4>1, <3>1, <1>1
      <4>3. L[j - 1] \in S(k)
        BY <4>1
      <4>4. y # NULL
        BY <3>1, <1>1
      <4>5. QED
        BY <4>2, <4>3, <4>4
    <3>4. QED
      BY <3>2, <3>3
  <2>2. ASSUME NEW y \in S(k)
        PROVE  y \in S(k + 1)
    <3>1. PICK j \in 1..m : j <= k + 1 /\ y = L[j]
      BY <2>2
    <3>2. j <= (k + 1) + 1
      BY <3>1, <1>1
    <3>3. QED
      BY <3>1, <3>2
  <2>3. ASSUME NEW x \in S(k), h[x].next # NULL
        PROVE  h[x].next \in S(k + 1)
    <3>1. PICK j \in 1..m : j <= k + 1 /\ x = L[j]
      BY <2>3
    <3>2. j < m /\ h[x].next = L[j + 1]
      BY <3>1, <1>1, <2>3
    <3>3. j + 1 \in 1..m /\ j + 1 <= (k + 1) + 1
      BY <3>1, <3>2, <1>1
    <3>4. QED
      BY <3>2, <3>3
  <2> HIDE DEF S
  <2>4. QED
    BY <2>1, <2>2, <2>3
<1> HIDE DEF S, a
<1>4. ASSUME NEW k \in Nat
      PROVE  S(k) = IF k = 0 THEN {a} \ {NULL}
                    ELSE g[k - 1]
                         \cup ({h[x].next : x \in g[k - 1]} \ {NULL})
  <2>1. CASE k = 0
    BY <2>1, <1>2
  <2>2. CASE k # 0
    <3>1. k - 1 \in Nat /\ (k - 1) + 1 = k
      BY <2>2
    <3>2. S(k) = S(k - 1) \cup ({h[x].next : x \in S(k - 1)} \ {NULL})
      BY <3>1, <1>3
    <3>3. g[k - 1] = S(k - 1)
      BY <3>1
    <3>4. QED
      BY <2>2, <3>2, <3>3
  <2>3. QED
    BY <2>1, <2>2
<1>5. Reaches(g, a, h)
  BY <1>4 DEF Reaches
<1>6. \A k \in Nat :
         F[k] = IF k = 0 THEN {a} \ {NULL}
                ELSE F[k - 1] \cup ({h[x].next : x \in F[k - 1]} \ {NULL})
  <2>1. Reaches(F, a, h)
    BY <1>5, ReachedRecursion
  <2> HIDE DEF F
  <2>2. QED
    BY <2>1 DEF Reaches
<1> HIDE DEF F
<1> DEFINE T == {k \in Nat : F[k] = S(k)}
<1>7. 0 \in T
  BY <1>2, <1>6
<1>8. ASSUME NEW k \in Nat, k \in T
      PROVE  k + 1 \in T
  <2>1. k + 1 \in Nat /\ k + 1 # 0 /\ (k + 1) - 1 = k
    OBVIOUS
  <2>2. F[k + 1] = F[k] \cup ({h[x].next : x \in F[k]} \ {NULL})
    BY <2>1, <1>6
  <2>3. F[k] = S(k)
    BY <1>8
  <2>4. QED
    BY <2>1, <2>2, <2>3, <1>3
<1>9. Nat \subseteq T
  <2> HIDE DEF T
  <2>1. QED
    BY <1>7, <1>8, NumberInduction
<1>10. QED
  BY <1>9 DEF F, S, a

\* The names of the cells that the pointers lead to.
LEMMA ListedChain ==
    ASSUME NEW m, NEW L, NEW h, NEW A, NEW a,
           Chain(m, L, h, A), a = Nth(m, L, 1)
    PROVE  Reached(a, h)[Cardinality(Node)] = {L[j] : j \in 1..m}
<1>1. m \in Nat /\ m <= Cardinality(Node) /\ Cardinality(Node) \in Nat
  <2>1. m \in Nat
    BY DEF Chain, Path
  <2>2. QED
    BY <2>1, ChainLength
<1>2. a = From(m, L, NULL)
  BY <1>1 DEF Nth, From
<1>3. Path(m, L, NULL, h, A)
  BY DEF Chain
<1>4. Reached(a, h)[Cardinality(Node)] =
         {L[j] : j \in {i \in 1..m : i <= Cardinality(Node) + 1}}
  BY <1>1, <1>2, <1>3, ReachedPath
<1>5. {i \in 1..m : i <= Cardinality(Node) + 1} = 1..m
  BY <1>1
<1>6. QED
  BY <1>4, <1>5

\* Two paths that end and begin with the same cell have the same cells.
LEMMA SamePath ==
    ASSUME NEW m, NEW L, NEW k, NEW K, NEW h, NEW A, NEW B,
           Path(m, L, NULL, h, A), Path(k, K, NULL, h, B),
           From(m, L, NULL) = From(k, K, NULL)
    PROVE  \A x : In(m, L, x) <=> In(k, K, x)
<1>1. m \in Nat /\ k \in Nat /\ m + k \in Nat
  BY DEF Path
<1>2. {L[j] : j \in {i \in 1..m : i <= (m + k) + 1}} =
      {K[j] : j \in {i \in 1..k : i <= (m + k) + 1}}
  <2> DEFINE n == m + k
  <2>1. n \in Nat
    BY <1>1
  <2> HIDE DEF n
  <2>2. Reached(From(m, L, NULL), h)[n] =
           {L[j] : j \in {i \in 1..m : i <= n + 1}}
    BY <2>1, ReachedPath
  <2>3. Reached(From(k, K, NULL), h)[n] =
           {K[j] : j \in {i \in 1..k : i <= n + 1}}
    BY <2>1, ReachedPath
  <2>4. QED
    BY <2>2, <2>3 DEF n
<1>3. {i \in 1..m : i <= (m + k) + 1} = 1..m
      /\ {i \in 1..k : i <= (m + k) + 1} = 1..k
  BY <1>1
<1>4. {L[j] : j \in 1..m} = {K[j] : j \in 1..k}
  BY <1>2, <1>3
<1>5. QED
  BY <1>4 DEF In

-----------------------------------------------------------------------------
(* What one step of a thread changes *)

LEMMA WrapRange ==
    ASSUME NEW x \in Int
    PROVE  Wrap(x) \in (-IntMax - 1)..IntMax
<1> DEFINE w == 2 * (IntMax + 1)
           y == x + IntMax + 1
<1>1. IntMax \in Nat
  BY NetConstants
<1>2. w \in Nat /\ w > 0 /\ y \in Int
  BY <1>1
<1>3. y % w \in 0..(w - 1)
  <2> HIDE DEF w, y
  <2>1. QED
    BY <1>2
<1>4. Wrap(x) = (y % w) - (IntMax + 1)
  BY DEF Wrap
<1>5. w - 1 = 2 * IntMax + 1
  BY <1>1
<1> HIDE DEF w, y
<1>6. QED
  BY <1>1, <1>3, <1>4, <1>5

\* What the ghost overlap says of two threads.
LEMMA Exclusive ==
    ASSUME NEW f, NEW o, Met(f) \subseteq o,
           NEW s \in Thread, NEW t \in Thread, s # t
    PROVE  /\ "changes" \notin o
                 => ~(f[s].pc \in Change /\ f[t].pc \in Change)
           /\ "removal" \notin o
                 => ~(f[s].pc \in Removal /\ f[t].pc \in Walk)
           /\ "get" \notin o
                 => ~(f[s].pc \in Getting /\ f[t].pc \in Change)
<1> DEFINE I(pcs) == {u \in Thread : f[u].pc \in pcs}
           removal == I({"remove", "unlink", "jump", "free"})
           change  == removal \cup I({"add", "insert", "publish"})
           get     == I({"count", "fill"})
           walk    == change \cup get \cup I({"update", "store"})
<1>1. f[s].pc \in Change => s \in change
  BY DEF Change, Removal
<1>2. f[t].pc \in Change => t \in change \ {s}
  BY DEF Change, Removal
<1>3. f[s].pc \in Removal => s \in removal
  BY DEF Removal
<1>4. f[t].pc \in Walk => t \in walk \ {s}
  BY DEF Walk, Change, Removal, Getting
<1>5. f[s].pc \in Getting => s \in get
  BY DEF Getting
<1>6. (\E u \in change : change \ {u} # {}) => "changes" \in Met(f)
  BY Zenon DEF Met
<1>7. (\E u \in removal : walk \ {u} # {}) => "removal" \in Met(f)
  BY Zenon DEF Met
<1>8. (\E u \in get : change \ {u} # {}) => "get" \in Met(f)
  BY Zenon DEF Met
<1> HIDE DEF removal, change, get, walk
<1>9. QED
  BY <1>1, <1>2, <1>3, <1>4, <1>5, <1>6, <1>7, <1>8

LEMMA MetKinds ==
    ASSUME NEW f
    PROVE  Met(f) \subseteq Kinds
BY DEF Met, Kinds

\* Only thread t has moved.
Moved(t) ==
    /\ MetInv' /\ overlap \subseteq overlap' /\ overlap' \subseteq Kinds
    /\ \A u \in Thread : u # t => th'[u] = th[u]

ThreadsOK == th \in [Thread -> Record] /\ \A t \in Thread : Fine(th[t])

LEMMA Becomes ==
    ASSUME TypeInv, NEW t \in Thread, NEW r \in Record, Fine(r), Become(t, r)
    PROVE  th'[t] = r /\ Moved(t) /\ ThreadsOK'
<1>1. th' = [th EXCEPT ![t] = r] /\ overlap' = overlap \cup Met(th')
  BY DEF Become, Threads
<1>2. th \in [Thread -> Record] /\ \A u \in Thread : Fine(th[u])
  BY DEF TypeInv
<1>3. th' \in [Thread -> Record] /\ th'[t] = r
      /\ \A u \in Thread : u # t => th'[u] = th[u]
  BY <1>1, <1>2
<1>4. \A u \in Thread : Fine(th'[u])
  BY <1>2, <1>3
<1>5. MetInv' /\ overlap \subseteq overlap'
  BY <1>1 DEF MetInv
<1>6. overlap' \subseteq Kinds
  BY <1>1, MetKinds DEF TypeInv
<1>7. QED
  BY <1>3, <1>4, <1>5, <1>6 DEF Moved, ThreadsOK

LEMMA IdleOK == Idle \in Record /\ Fine(Idle) /\ Idle.pc = "idle"
BY NetConstants DEF Idle, Record, Fine, Pointer, Change, Removal, Getting,
                    Walk, Period

\* The list is as it was.
SameList ==
    /\ list_net_statistics' = list_net_statistics
    /\ heap' = heap /\ allocated' = allocated

\* A step that leaves the shared variables alone.
LEMMA QuietStep ==
    ASSUME TypeInv, NEW t \in Thread, NEW r \in Record, Fine(r), Become(t, r),
           UNCHANGED shared,
           undefined' \in BOOLEAN, overrun' \in BOOLEAN, got' \subseteq Intf
    PROVE  TypeInv' /\ Moved(t) /\ SameList /\ th'[t] = r
<1>1. th'[t] = r /\ Moved(t) /\ ThreadsOK'
  BY Becomes
<1>2. SameList /\ collect_usec' = collect_usec
      /\ running_thread' = running_thread
  BY DEF shared, SameList
<1>3. QED
  BY <1>1, <1>2 DEF TypeInv, ThreadsOK, Moved, SameList

\* What reading a cell can give.
LEMMA ReadCell ==
    ASSUME TypeInv, NEW y \in Node, NEW x \in Read(y)
    PROVE  x \in Cell /\ (y \in allocated => x = heap[y])
<1>1. CASE y \in allocated
  BY <1>1 DEF Read, TypeInv
<1>2. CASE y \notin allocated
  BY <1>2 DEF Read
<1>3. QED
  BY <1>1, <1>2

LEMMA add_find_Step ==
    ASSUME TypeInv, NEW s \in Servlet, add_intf_find(s)
    PROVE  /\ TypeInv' /\ Moved(s) /\ SameList
           /\ th[s].pc = "add"
           /\ \/ /\ th[s].p = NULL /\ undefined' = undefined
                 /\ th'[s].pc = "insert" /\ th'[s].intf = th[s].intf
              \/ /\ th[s].p \in Node
                 /\ undefined' = (undefined \/ th[s].p \notin allocated)
                 /\ \E x \in Read(th[s].p) :
                       \/ /\ x.intf_name # th[s].intf
                          /\ th'[s].pc = "add" /\ th'[s].intf = th[s].intf
                          /\ th'[s].p = x.next
                       \/ th'[s] = Idle
<1>1. s \in Thread /\ th[s] \in Record /\ Fine(th[s])
  BY DEF TypeInv, Thread
<1>2. th[s].pc = "add" /\ UNCHANGED shared /\ got' \subseteq Intf
      /\ overrun' \in BOOLEAN
  BY DEF add_intf_find, At, TypeInv
<1>3. CASE th[s].p = NULL
  <2> DEFINE r == [th[s] EXCEPT !.pc = "insert"]
  <2>1. r \in Record /\ Fine(r) /\ r.pc = "insert" /\ r.intf = th[s].intf
    BY <1>1, <1>2 DEF Record, Fine, Walk, Change, Removal, Getting
  <2>2. Become(s, r) /\ undefined' = undefined
    BY <1>3 DEF add_intf_find
  <2> HIDE DEF r
  <2>3. undefined' \in BOOLEAN
    BY <2>2 DEF TypeInv
  <2>4. QED
    BY <1>1, <1>2, <1>3, <2>1, <2>2, <2>3, QuietStep
<1>4. CASE th[s].p # NULL
  <2>1. th[s].p \in Node
    BY <1>1, <1>4 DEF Record, Pointer
  <2>2. undefined' = (undefined \/ th[s].p \notin allocated)
    BY <1>4 DEF add_intf_find, Access
  <2>3. PICK x \in Read(th[s].p) :
           Become(s, IF Searching(x, th[s].intf)
                     THEN [th[s] EXCEPT !.p = x.next] ELSE Idle)
    BY <1>4 DEF add_intf_find
  <2>4. x \in Cell
    BY <2>1, ReadCell
  <2>5. undefined' \in BOOLEAN
    BY <2>2 DEF TypeInv
  <2>6. CASE x.intf_name # th[s].intf
    <3> DEFINE r == [th[s] EXCEPT !.p = x.next]
    <3>1. r \in Record /\ Fine(r) /\ r.pc = "add" /\ r.intf = th[s].intf
          /\ r.p = x.next
      BY <1>1, <1>2, <2>4 DEF Record, Cell, Fine, Change, Removal, Getting
    <3>2. Become(s, r)
      BY <2>3, <2>6 DEF Searching
    <3> HIDE DEF r
    <3>3. QED
      BY <1>1, <1>2, <2>1, <2>2, <2>5, <2>6, <3>1, <3>2, QuietStep
  <2>7. CASE ~(x.intf_name # th[s].intf)
    <3>1. Become(s, Idle)
      BY <2>3, <2>7 DEF Searching
    <3>2. QED
      BY <1>1, <1>2, <2>1, <2>2, <2>5, <3>1, QuietStep, IdleOK
  <2>8. QED
    BY <2>6, <2>7
<1>5. QED
  BY <1>3, <1>4

LEMMA insert_Step ==
    ASSUME TypeInv, NEW s \in Servlet, add_intf_insert(s)
    PROVE  /\ TypeInv' /\ Moved(s)
           /\ th[s].pc = "insert" /\ th'[s].pc = "publish"
           /\ list_net_statistics' = list_net_statistics
           /\ undefined' = undefined /\ overrun' = overrun /\ got' = got
           /\ th'[s].intf = th[s].intf
           /\ \E x \in Node \ allocated :
                 /\ allocated' = allocated \cup {x} /\ th'[s].p = x
                 /\ heap'[x].intf_name = th[s].intf
                 /\ heap'[x].next = list_net_statistics
                 /\ \A y \in Node : y # x => heap'[y] = heap[y]
<1>1. s \in Thread /\ th[s] \in Record /\ Fine(th[s])
  BY DEF TypeInv, Thread
<1>2. th[s].pc = "insert" /\ list_net_statistics' = list_net_statistics
      /\ collect_usec' = collect_usec /\ running_thread' = running_thread
      /\ undefined' = undefined /\ overrun' = overrun /\ got' = got
  BY DEF add_intf_insert, At, ghosts
<1>3. PICK x \in Node \ allocated :
         /\ allocated' = allocated \cup {x}
         /\ heap' = [heap EXCEPT ![x] = [intf_name |-> th[s].intf,
                                         next |-> list_net_statistics]]
         /\ Become(s, [th[s] EXCEPT !.pc = "publish", !.p = x])
  BY DEF add_intf_insert, LinkTo
<1> DEFINE r == [th[s] EXCEPT !.pc = "publish", !.p = x]
           c == [intf_name |-> th[s].intf, next |-> list_net_statistics]
<1>4. r \in Record /\ Fine(r) /\ r.pc = "publish" /\ r.p = x
      /\ r.intf = th[s].intf
  BY <1>1, <1>2, <1>3 DEF Record, Fine, Walk, Change, Removal, Getting, Pointer
<1>5. c \in Cell /\ c.intf_name = th[s].intf /\ c.next = list_net_statistics
  BY <1>1, <1>2 DEF Cell, Fine, Change, TypeInv
<1>6. heap' = [heap EXCEPT ![x] = c] /\ Become(s, r)
  BY <1>3
<1> HIDE DEF r, c
<1>7. th'[s] = r /\ Moved(s) /\ ThreadsOK'
  BY <1>1, <1>4, <1>6, Becomes
<1>8. heap' \in [Node -> Cell] /\ heap'[x] = c
      /\ \A y \in Node : y # x => heap'[y] = heap[y]
  BY <1>5, <1>6 DEF TypeInv
<1>9. TypeInv'
  BY <1>2, <1>3, <1>7, <1>8 DEF TypeInv, ThreadsOK, Moved
<1>10. QED
  BY <1>2, <1>3, <1>4, <1>5, <1>7, <1>8, <1>9

LEMMA publish_Step ==
    ASSUME TypeInv, NEW s \in Servlet, add_intf_publish(s)
    PROVE  /\ TypeInv' /\ Moved(s)
           /\ th[s].pc = "publish" /\ th[s].p \in Node /\ th'[s] = Idle
           /\ list_net_statistics' = th[s].p
           /\ heap' = heap /\ allocated' = allocated
           /\ undefined' = undefined /\ overrun' = overrun /\ got' = got
<1>1. s \in Thread /\ th[s] \in Record /\ Fine(th[s])
  BY DEF TypeInv, Thread
<1>2. /\ th[s].pc = "publish" /\ list_net_statistics' = th[s].p
      /\ heap' = heap /\ allocated' = allocated
      /\ collect_usec' = collect_usec /\ running_thread' = running_thread
      /\ undefined' = undefined /\ overrun' = overrun /\ got' = got
      /\ Become(s, Idle)
  BY DEF add_intf_publish, At
<1>3. th[s].p \in Node
  BY <1>1, <1>2 DEF Fine
<1>4. th'[s] = Idle /\ Moved(s) /\ ThreadsOK'
  BY <1>1, <1>2, Becomes, IdleOK
<1>5. QED
  BY <1>2, <1>3, <1>4 DEF TypeInv, ThreadsOK, Moved, Pointer

LEMMA absent_Step ==
    ASSUME TypeInv, NEW s \in Servlet, remove_intf_absent(s)
    PROVE  /\ TypeInv' /\ Moved(s) /\ SameList
           /\ th[s].pc = "remove" /\ th'[s] = Idle
           /\ undefined' = undefined /\ overrun' = overrun /\ got' = got
<1>1. s \in Thread
  BY DEF Thread
<1>2. th[s].pc = "remove" /\ UNCHANGED shared /\ Become(s, Idle)
      /\ undefined' = undefined /\ overrun' = overrun /\ got' = got
  BY DEF remove_intf_absent, At
<1>3. undefined' \in BOOLEAN /\ overrun' \in BOOLEAN /\ got' \subseteq Intf
  BY <1>2 DEF TypeInv
<1>4. QED
  BY <1>1, <1>2, <1>3, QuietStep, IdleOK

LEMMA remove_find_Step ==
    ASSUME TypeInv, NEW s \in Servlet, remove_intf_find(s)
    PROVE  /\ TypeInv' /\ Moved(s) /\ SameList
           /\ th[s].pc = "remove" /\ th[s].p \in Node
           /\ undefined' = (undefined \/ th[s].p \notin allocated)
           /\ overrun' = overrun /\ got' = got
           /\ \E x \in Read(th[s].p) :
                 \/ th'[s].pc = "remove" /\ th'[s].q = th[s].p
                    /\ th'[s].p = x.next
                 \/ th'[s].pc = "unlink" /\ th'[s].q = th[s].q
                    /\ th'[s].p = th[s].p
<1>1. s \in Thread /\ th[s] \in Record /\ Fine(th[s])
  BY DEF TypeInv, Thread
<1>2. th[s].pc = "remove" /\ th[s].p # NULL /\ UNCHANGED shared
      /\ undefined' = (undefined \/ th[s].p \notin allocated)
      /\ overrun' = overrun /\ got' = got
  BY DEF remove_intf_find, At, Access
<1>3. undefined' \in BOOLEAN /\ overrun' \in BOOLEAN /\ got' \subseteq Intf
  BY <1>2 DEF TypeInv
<1>4. th[s].p \in Node
  BY <1>1, <1>2 DEF Record, Pointer
<1>5. PICK x \in Read(th[s].p) :
         Become(s, IF x.intf_name # th[s].intf
                   THEN [th[s] EXCEPT !.q = th[s].p, !.p = x.next]
                   ELSE [th[s] EXCEPT !.pc = "unlink"])
  BY DEF remove_intf_find
<1>6. x \in Cell
  BY <1>4, ReadCell
<1>7. CASE x.intf_name # th[s].intf
  <2> DEFINE r == [th[s] EXCEPT !.q = th[s].p, !.p = x.next]
  <2>1. r \in Record /\ Fine(r) /\ r.pc = "remove" /\ r.p = x.next
        /\ r.q = th[s].p
    BY <1>1, <1>2, <1>6 DEF Record, Cell, Fine, Change, Removal, Getting
  <2>2. Become(s, r)
    BY <1>5, <1>7
  <2> HIDE DEF r
  <2>3. QED
    BY <1>1, <1>2, <1>3, <1>4, <2>1, <2>2, QuietStep
<1>8. CASE ~(x.intf_name # th[s].intf)
  <2> DEFINE r == [th[s] EXCEPT !.pc = "unlink"]
  <2>1. r \in Record /\ Fine(r) /\ r.pc = "unlink" /\ r.p = th[s].p
        /\ r.q = th[s].q
    BY <1>1, <1>2, <1>4
       DEF Record, Fine, Walk, Change, Removal, Getting
  <2>2. Become(s, r)
    BY <1>5, <1>8
  <2> HIDE DEF r
  <2>3. QED
    BY <1>1, <1>2, <1>3, <1>4, <2>1, <2>2, QuietStep
<1>9. QED
  BY <1>7, <1>8

LEMMA unlink_Step ==
    ASSUME TypeInv, NEW s \in Servlet, remove_intf_unlink_head(s)
    PROVE  /\ TypeInv' /\ Moved(s)
           /\ th[s].pc = "unlink" /\ th[s].p \in Node
           /\ th'[s].pc = "jump" /\ th'[s].p = th[s].p /\ th'[s].q = th[s].q
           /\ heap' = heap /\ allocated' = allocated
           /\ overrun' = overrun /\ got' = got
           /\ IF th[s].p = list_net_statistics
              THEN /\ undefined' = (undefined \/ th[s].p \notin allocated)
                   /\ \E x \in Read(th[s].p) : list_net_statistics' = x.next
              ELSE /\ undefined' = undefined
                   /\ list_net_statistics' = list_net_statistics
<1>1. s \in Thread /\ th[s] \in Record /\ Fine(th[s])
  BY DEF TypeInv, Thread
<1>2. th[s].pc = "unlink" /\ heap' = heap /\ allocated' = allocated
      /\ collect_usec' = collect_usec /\ running_thread' = running_thread
      /\ overrun' = overrun /\ got' = got
  BY DEF remove_intf_unlink_head, At
<1>3. th[s].p \in Node
  BY <1>1, <1>2 DEF Fine
<1>4. IF th[s].p = list_net_statistics
      THEN /\ undefined' = (undefined \/ th[s].p \notin allocated)
           /\ \E x \in Read(th[s].p) : list_net_statistics' = x.next
      ELSE /\ undefined' = undefined
           /\ list_net_statistics' = list_net_statistics
  BY DEF remove_intf_unlink_head, Access
<1>5. list_net_statistics' \in Pointer /\ undefined' \in BOOLEAN
  <2>1. CASE th[s].p = list_net_statistics
    <3>1. PICK x \in Read(th[s].p) : list_net_statistics' = x.next
      BY <2>1, <1>4
    <3>2. x \in Cell
      BY <1>3, ReadCell
    <3>3. undefined' \in BOOLEAN
      BY <2>1, <1>4 DEF TypeInv
    <3>4. QED
      BY <3>1, <3>2, <3>3 DEF Cell
  <2>2. CASE th[s].p # list_net_statistics
    BY <2>2, <1>4 DEF TypeInv
  <2>3. QED
    BY <2>1, <2>2
<1> DEFINE r == [th[s] EXCEPT !.pc = "jump"]
<1>6. r \in Record /\ Fine(r) /\ r.pc = "jump" /\ r.p = th[s].p
      /\ r.q = th[s].q
  BY <1>1, <1>2, <1>3 DEF Record, Fine, Walk, Change, Removal, Getting
<1>7. Become(s, r)
  BY DEF remove_intf_unlink_head
<1> HIDE DEF r
<1>8. th'[s] = r /\ Moved(s) /\ ThreadsOK'
  BY <1>1, <1>6, <1>7, Becomes
<1>9. TypeInv'
  BY <1>2, <1>5, <1>8 DEF TypeInv, ThreadsOK, Moved
<1>10. QED
  BY <1>2, <1>3, <1>4, <1>6, <1>8, <1>9

LEMMA jump_Step ==
    ASSUME TypeInv, NEW s \in Servlet, remove_intf_jump(s)
    PROVE  /\ TypeInv' /\ Moved(s)
           /\ th[s].pc = "jump" /\ th[s].p \in Node /\ th[s].q \in Pointer
           /\ th'[s].pc = "free" /\ th'[s].p = th[s].p
           /\ heap' = JumpOver(s) /\ allocated' = allocated
           /\ list_net_statistics' = list_net_statistics
           /\ overrun' = overrun /\ got' = got
           /\ undefined' = (\/ undefined
                            \/ /\ th[s].q # NULL
                               /\ ~({th[s].q, th[s].p} \subseteq allocated))
<1>1. s \in Thread /\ th[s] \in Record /\ Fine(th[s])
  BY DEF TypeInv, Thread
<1>2. /\ th[s].pc = "jump" /\ heap' = JumpOver(s) /\ allocated' = allocated
      /\ list_net_statistics' = list_net_statistics
      /\ collect_usec' = collect_usec /\ running_thread' = running_thread
      /\ overrun' = overrun /\ got' = got
      /\ undefined' = (\/ undefined
                       \/ /\ th[s].q # NULL
                          /\ ~({th[s].q, th[s].p} \subseteq allocated))
  BY DEF remove_intf_jump, At
<1>3. th[s].p \in Node /\ th[s].q \in Pointer
  BY <1>1, <1>2 DEF Fine, Record
<1>4. undefined' \in BOOLEAN
  BY <1>2 DEF TypeInv
<1>5. JumpOver(s) \in [Node -> Cell]
  <2>1. CASE th[s].q \in allocated
    <3>1. heap[th[s].p] \in Cell /\ heap[th[s].q] \in Cell
      BY <1>3, <2>1 DEF TypeInv
    <3>2. [heap EXCEPT ![th[s].q].next = heap[th[s].p].next]
             \in [Node -> Cell]
      BY <3>1 DEF TypeInv, Cell
    <3>3. QED
      BY <2>1, <3>2 DEF JumpOver
  <2>2. CASE th[s].q \notin allocated
    BY <2>2 DEF JumpOver, TypeInv
  <2>3. QED
    BY <2>1, <2>2
<1> DEFINE r == [th[s] EXCEPT !.pc = "free"]
<1>6. r \in Record /\ Fine(r) /\ r.pc = "free" /\ r.p = th[s].p
  BY <1>1, <1>2, <1>3 DEF Record, Fine, Walk, Change, Removal, Getting
<1>7. Become(s, r)
  BY DEF remove_intf_jump
<1> HIDE DEF r
<1>8. th'[s] = r /\ Moved(s) /\ ThreadsOK'
  BY <1>1, <1>6, <1>7, Becomes
<1>9. TypeInv'
  BY <1>2, <1>4, <1>5, <1>8 DEF TypeInv, ThreadsOK, Moved
<1>10. QED
  BY <1>2, <1>3, <1>6, <1>8, <1>9

LEMMA BlankCell == Blank \in Cell
BY NetConstants DEF Blank, Cell, Pointer

LEMMA free_Step ==
    ASSUME TypeInv, NEW s \in Servlet, remove_intf_free(s)
    PROVE  /\ TypeInv' /\ Moved(s)
           /\ th[s].pc = "free" /\ th[s].p \in Node /\ th'[s] = Idle
           /\ allocated' = allocated \ {th[s].p}
           /\ \A y \in Node : y # th[s].p => heap'[y] = heap[y]
           /\ list_net_statistics' = list_net_statistics
           /\ overrun' = overrun /\ got' = got
           /\ undefined' = (undefined \/ th[s].p \notin allocated)
<1>1. s \in Thread /\ th[s] \in Record /\ Fine(th[s])
  BY DEF TypeInv, Thread
<1>2. /\ th[s].pc = "free" /\ allocated' = allocated \ {th[s].p}
      /\ heap' = [heap EXCEPT ![th[s].p] = Blank]
      /\ list_net_statistics' = list_net_statistics
      /\ collect_usec' = collect_usec /\ running_thread' = running_thread
      /\ overrun' = overrun /\ got' = got
      /\ undefined' = (undefined \/ th[s].p \notin allocated)
      /\ Become(s, Idle)
  BY DEF remove_intf_free, At, Access
<1>3. th[s].p \in Node
  BY <1>1, <1>2 DEF Fine
<1>4. undefined' \in BOOLEAN
  BY <1>2 DEF TypeInv
<1>5. heap' \in [Node -> Cell] /\ \A y \in Node : y # th[s].p
                                                   => heap'[y] = heap[y]
  BY <1>2, BlankCell DEF TypeInv
<1>6. th'[s] = Idle /\ Moved(s) /\ ThreadsOK'
  BY <1>1, <1>2, Becomes, IdleOK
<1>7. TypeInv'
  BY <1>2, <1>4, <1>5, <1>6 DEF TypeInv, ThreadsOK, Moved
<1>8. QED
  BY <1>2, <1>3, <1>5, <1>6, <1>7

LEMMA count_Step ==
    ASSUME TypeInv, NEW s \in Servlet, get_all_count(s)
    PROVE  /\ TypeInv' /\ Moved(s) /\ SameList
           /\ th[s].pc = "count" /\ th[s].p \in Node
           /\ undefined' = (undefined \/ th[s].p \notin allocated)
           /\ overrun' = overrun /\ got' = got
           /\ th'[s].pc = "count" /\ th'[s].n = th[s].n + 1
           /\ \E x \in Read(th[s].p) : th'[s].p = x.next
<1>1. s \in Thread /\ th[s] \in Record /\ Fine(th[s])
  BY DEF TypeInv, Thread
<1>2. th[s].pc = "count" /\ th[s].p # NULL /\ UNCHANGED shared
      /\ undefined' = (undefined \/ th[s].p \notin allocated)
      /\ overrun' = overrun /\ got' = got
  BY DEF get_all_count, At, Access
<1>3. undefined' \in BOOLEAN /\ overrun' \in BOOLEAN /\ got' \subseteq Intf
  BY <1>2 DEF TypeInv
<1>4. th[s].p \in Node
  BY <1>1, <1>2 DEF Record, Pointer
<1>5. PICK x \in Read(th[s].p) :
         Become(s, [th[s] EXCEPT !.p = x.next, !.n = @ + 1])
  BY DEF get_all_count
<1>6. x \in Cell
  BY <1>4, ReadCell
<1> DEFINE r == [th[s] EXCEPT !.p = x.next, !.n = @ + 1]
<1>7. r \in Record /\ Fine(r) /\ r.pc = "count" /\ r.p = x.next
      /\ r.n = th[s].n + 1
  <2>1. th[s].n + 1 \in Nat /\ x.next \in Pointer
    BY <1>1, <1>6 DEF Record, Cell
  <2>2. /\ r.pc = th[s].pc /\ r.p = x.next /\ r.n = th[s].n + 1
        /\ r.i = th[s].i /\ r.names = th[s].names
    BY <1>1 DEF Record
  <2>3. r \in Record
    BY <1>1, <2>1 DEF Record
  <2>4. Fine(r)
    BY <1>1, <1>2, <2>2 DEF Fine, Change, Removal, Getting
  <2>5. QED
    BY <1>2, <2>2, <2>3, <2>4
<1>8. Become(s, r)
  BY <1>5
<1> HIDE DEF r
<1>9. QED
  BY <1>1, <1>2, <1>3, <1>4, <1>7, <1>8, QuietStep

LEMMA alloc_Step ==
    ASSUME TypeInv, NEW s \in Servlet, get_all_alloc(s)
    PROVE  /\ TypeInv' /\ Moved(s) /\ SameList
           /\ th[s].pc = "count" /\ th[s].p = NULL
           /\ undefined' = undefined /\ overrun' = overrun
           /\ \/ th[s].n = 0 /\ th'[s] = Idle /\ got' = {}
              \/ /\ th'[s].pc = "fill" /\ th'[s].p = list_net_statistics
                 /\ th'[s].n = th[s].n /\ th'[s].i = 0
                 /\ th'[s].names = {} /\ got' = got
<1>1. s \in Thread /\ th[s] \in Record /\ Fine(th[s])
  BY DEF TypeInv, Thread
<1>2. th[s].pc = "count" /\ th[s].p = NULL /\ UNCHANGED shared
      /\ undefined' = undefined /\ overrun' = overrun
  BY DEF get_all_alloc, At
<1>3. undefined' \in BOOLEAN /\ overrun' \in BOOLEAN
  BY <1>2 DEF TypeInv
<1>4. CASE th[s].n = 0
  <2>1. Become(s, Idle) /\ got' = {}
    BY <1>4 DEF get_all_alloc
  <2>2. QED
    BY <1>1, <1>2, <1>3, <1>4, <2>1, QuietStep, IdleOK
<1>5. CASE th[s].n # 0
  <2> DEFINE r == [th[s] EXCEPT !.pc = "fill", !.p = list_net_statistics]
  <2>1. r \in Record /\ Fine(r) /\ r.pc = "fill"
        /\ r.p = list_net_statistics /\ r.n = th[s].n /\ r.i = 0
        /\ r.names = {}
    <3>1. list_net_statistics \in Pointer /\ th[s].i = 0 /\ th[s].names = {}
      BY <1>1, <1>2 DEF TypeInv, Fine
    <3>2. QED
      BY <1>1, <1>2, <3>1 DEF Record, Fine, Walk, Change, Removal, Getting
  <2>2. Become(s, r) /\ got' = got
    BY <1>5 DEF get_all_alloc
  <2>3. got' \subseteq Intf
    BY <2>2 DEF TypeInv
  <2> HIDE DEF r
  <2>4. QED
    BY <1>1, <1>2, <1>3, <2>1, <2>2, <2>3, QuietStep
<1>6. QED
  BY <1>4, <1>5

LEMMA fill_Step ==
    ASSUME TypeInv, NEW s \in Servlet, get_all_fill(s)
    PROVE  /\ TypeInv' /\ Moved(s) /\ SameList
           /\ th[s].pc = "fill" /\ th[s].p \in Node
           /\ undefined' = (undefined \/ th[s].p \notin allocated)
           /\ overrun' = (overrun \/ th[s].i >= th[s].n) /\ got' = got
           /\ th'[s].pc = "fill" /\ th'[s].n = th[s].n
           /\ th'[s].i = th[s].i + 1
           /\ \E x \in Read(th[s].p) :
                 /\ th'[s].p = x.next
                 /\ th'[s].names = th[s].names \cup {x.intf_name}
<1>1. s \in Thread /\ th[s] \in Record /\ Fine(th[s])
  BY DEF TypeInv, Thread
<1>2. th[s].pc = "fill" /\ th[s].p # NULL /\ UNCHANGED shared
      /\ undefined' = (undefined \/ th[s].p \notin allocated)
      /\ overrun' = (overrun \/ th[s].i >= th[s].n) /\ got' = got
  BY DEF get_all_fill, At, Access, Room
<1>3. undefined' \in BOOLEAN /\ overrun' \in BOOLEAN /\ got' \subseteq Intf
  BY <1>2 DEF TypeInv
<1>4. th[s].p \in Node
  BY <1>1, <1>2 DEF Record, Pointer
<1>5. PICK x \in Read(th[s].p) :
         Become(s, [th[s] EXCEPT !.p = x.next, !.i = @ + 1,
                                 !.names = @ \cup {x.intf_name}])
  BY DEF get_all_fill
<1>6. x \in Cell
  BY <1>4, ReadCell
<1> DEFINE r == [th[s] EXCEPT !.p = x.next, !.i = @ + 1,
                              !.names = @ \cup {x.intf_name}]
<1>7. r \in Record /\ Fine(r) /\ r.pc = "fill" /\ r.p = x.next
      /\ r.n = th[s].n /\ r.i = th[s].i + 1
      /\ r.names = th[s].names \cup {x.intf_name}
  <2>1. th[s].i + 1 \in Nat /\ x.next \in Pointer
        /\ th[s].names \cup {x.intf_name} \in SUBSET Intf
    BY <1>1, <1>6 DEF Record, Cell
  <2>2. /\ r.pc = th[s].pc /\ r.p = x.next /\ r.n = th[s].n
        /\ r.i = th[s].i + 1 /\ r.names = th[s].names \cup {x.intf_name}
    BY <1>1 DEF Record
  <2>3. r \in Record
    BY <1>1, <2>1 DEF Record
  <2>4. Fine(r)
    BY <1>2, <2>2 DEF Fine, Change, Removal, Getting
  <2>5. QED
    BY <1>2, <2>2, <2>3, <2>4
<1>8. Become(s, r)
  BY <1>5
<1> HIDE DEF r
<1>9. QED
  BY <1>1, <1>2, <1>3, <1>4, <1>7, <1>8, QuietStep

LEMMA return_Step ==
    ASSUME TypeInv, NEW s \in Servlet, get_all_return(s)
    PROVE  /\ TypeInv' /\ Moved(s) /\ SameList
           /\ th[s].pc = "fill" /\ th[s].p = NULL
           /\ undefined' = undefined
           /\ overrun' = (overrun \/ th[s].i < th[s].n)
           /\ th'[s] = Idle /\ got' = th[s].names
<1>1. s \in Thread /\ th[s] \in Record
  BY DEF TypeInv, Thread
<1>2. th[s].pc = "fill" /\ th[s].p = NULL /\ UNCHANGED shared
      /\ undefined' = undefined /\ overrun' = (overrun \/ th[s].i < th[s].n)
      /\ Become(s, Idle) /\ got' = th[s].names
  BY DEF get_all_return, At
<1>3. undefined' \in BOOLEAN /\ overrun' \in BOOLEAN /\ got' \subseteq Intf
  BY <1>1, <1>2 DEF TypeInv, Record
<1>4. QED
  BY <1>1, <1>2, <1>3, QuietStep, IdleOK

LEMMA process_Step ==
    ASSUME TypeInv, NEW s \in Servlet, process_msg_mean_sta_statistics(s)
    PROVE  /\ TypeInv' /\ Moved(s) /\ SameList
           /\ th[s].pc = "idle" /\ got' = {}
           /\ undefined' = undefined /\ overrun' = overrun
           /\ \/ th'[s].pc \in {"add", "remove", "count"}
                 /\ th'[s].p = list_net_statistics /\ th'[s].q = NULL
                 /\ th'[s].n = 0
              \/ th'[s].pc = "time"
<1>1. s \in Thread /\ list_net_statistics \in Pointer /\ NULL \in Pointer
  BY DEF TypeInv, Thread, Pointer
<1>2. th[s].pc = "idle" /\ got' = {} /\ UNCHANGED shared
      /\ undefined' = undefined /\ overrun' = overrun
  BY DEF process_msg_mean_sta_statistics, At
<1>3. undefined' \in BOOLEAN /\ overrun' \in BOOLEAN /\ got' \subseteq Intf
  BY <1>2 DEF TypeInv
<1>4. 0 \in (-IntMax - 1)..IntMax
  BY NetConstants
<1>5. ASSUME NEW i \in Intf, NEW c \in {"add", "remove"},
             Become(s, [Idle EXCEPT !.pc = c, !.intf = i,
                                    !.p = list_net_statistics])
      PROVE  /\ TypeInv' /\ Moved(s) /\ SameList
             /\ th'[s].pc = c /\ th'[s].p = list_net_statistics
             /\ th'[s].q = NULL /\ th'[s].n = 0
  <2> DEFINE r == [Idle EXCEPT !.pc = c, !.intf = i,
                               !.p = list_net_statistics]
  <2>1. r \in Record /\ Fine(r) /\ r.pc = c /\ r.p = list_net_statistics
        /\ r.q = NULL /\ r.n = 0
    BY <1>1, <1>4
       DEF Idle, Record, Fine, Walk, Change, Removal, Getting
  <2>2. Become(s, r)
    BY <1>5
  <2> HIDE DEF r
  <2>3. QED
    BY <1>1, <1>2, <1>3, <2>1, <2>2, QuietStep
<1>6. ASSUME Become(s, [Idle EXCEPT !.pc = "count",
                                    !.p = list_net_statistics])
      PROVE  /\ TypeInv' /\ Moved(s) /\ SameList
             /\ th'[s].pc = "count" /\ th'[s].p = list_net_statistics
             /\ th'[s].q = NULL /\ th'[s].n = 0
  <2> DEFINE r == [Idle EXCEPT !.pc = "count", !.p = list_net_statistics]
  <2>1. r \in Record /\ Fine(r) /\ r.pc = "count"
        /\ r.p = list_net_statistics /\ r.q = NULL /\ r.n = 0
    BY <1>1, <1>4
       DEF Idle, Record, Fine, Walk, Change, Removal, Getting
  <2>2. Become(s, r)
    BY <1>6
  <2> HIDE DEF r
  <2>3. QED
    BY <1>1, <1>2, <1>3, <2>1, <2>2, QuietStep
<1>7. ASSUME NEW msec \in Msec,
             Become(s, [Idle EXCEPT !.pc = "time",
                                    !.usec = Wrap(msec * Factor)])
      PROVE  TypeInv' /\ Moved(s) /\ SameList /\ th'[s].pc = "time"
  <2> DEFINE u == Wrap(msec * Factor)
             r == [Idle EXCEPT !.pc = "time", !.usec = u]
  <2>1. u \in (-IntMax - 1)..IntMax
    <3>1. msec * Factor \in Int
      BY NetConstants
    <3>2. QED
      BY <3>1, WrapRange
  <2>2. Become(s, r)
    BY <1>7
  <2> HIDE DEF u
  <2>3. r \in Record /\ Fine(r) /\ r.pc = "time"
    BY <1>1, <2>1
       DEF Idle, Record, Fine, Walk, Change, Removal, Getting, Period
  <2> HIDE DEF r
  <2>4. QED
    BY <1>1, <1>2, <1>3, <2>2, <2>3, QuietStep
<1>8. \/ \E i \in Intf, c \in {"add", "remove"} :
            Become(s, [Idle EXCEPT !.pc = c, !.intf = i,
                                   !.p = list_net_statistics])
      \/ Become(s, [Idle EXCEPT !.pc = "count", !.p = list_net_statistics])
      \/ \E msec \in Msec :
            Become(s, [Idle EXCEPT !.pc = "time",
                                   !.usec = Wrap(msec * Factor)])
  BY Zenon DEF process_msg_mean_sta_statistics
<1>9. QED
  BY <1>2, <1>5, <1>6, <1>7, <1>8

\* A step away from the list.
Aside ==
    /\ MetInv' /\ overlap \subseteq overlap' /\ SameList
    /\ undefined' = undefined /\ overrun' = overrun /\ got' = got
    /\ \A u \in Thread : \/ th'[u] = th[u]
                         \/ th[u].pc \notin Walk /\ th'[u].pc \notin Walk

LEMMA AsideStep ==
    ASSUME TypeInv, NEW t \in Thread, NEW r \in Record, Fine(r), Become(t, r),
           list_net_statistics' = list_net_statistics,
           heap' = heap, allocated' = allocated,
           collect_usec' \in -1..IntMax, running_thread' \in BOOLEAN,
           UNCHANGED ghosts, th[t].pc \notin Walk, r.pc \notin Walk
    PROVE  TypeInv' /\ Aside
<1>1. th'[t] = r /\ Moved(t) /\ ThreadsOK'
  BY Becomes
<1>2. undefined' = undefined /\ overrun' = overrun /\ got' = got
  BY DEF ghosts
<1>3. TypeInv'
  BY <1>1, <1>2 DEF TypeInv, ThreadsOK, Moved
<1>4. Aside
  BY <1>1, <1>2 DEF Aside, Moved, SameList
<1>5. QED
  BY <1>3, <1>4

LEMMA PeriodAside ==
    \A c \in Period \cup {"idle", "created", "loop", "sleep"} : c \notin Walk
BY DEF Period, Walk, Change, Removal, Getting

LEMMA time_Step ==
    ASSUME TypeInv, NEW s \in Servlet,
           \/ set_timed_stop(s) \/ set_timed_stopped(s) \/ set_timed_check(s)
           \/ set_timed_start(s) \/ set_timed_create(s) \/ set_timed_assign(s)
    PROVE  TypeInv' /\ Aside
<1>1. s \in Thread /\ th[s] \in Record /\ Fine(th[s])
      /\ collect_usec \in -1..IntMax /\ running_thread \in BOOLEAN
  BY DEF TypeInv, Thread
<1>2. -1 \in -1..IntMax
  BY NetConstants
<1>3. ASSUME NEW c \in Period, th[s].pc \in Period,
             th[s].usec > 0 \/ c \in {"time", "stopped"}
      PROVE  LET r == [th[s] EXCEPT !.pc = c]
             IN  r \in Record /\ Fine(r) /\ r.pc = c
  <2> DEFINE r == [th[s] EXCEPT !.pc = c]
  <2>1. r.pc = c /\ r.usec = th[s].usec /\ r.n = th[s].n /\ r.i = th[s].i
        /\ r \in Record
    BY <1>1 DEF Record
  <2>2. c \notin Change /\ c \notin Getting /\ th[s].pc \notin Getting
        /\ c \notin {"unlink", "jump", "free", "publish", "store", "count"}
    BY <1>3 DEF Period, Change, Removal, Getting
  <2> HIDE DEF r
  <2>3. Fine(r)
    BY <1>1, <1>3, <2>1, <2>2 DEF Fine
  <2>4. QED
    BY <2>1, <2>3 DEF r
<1>4. CASE set_timed_stop(s)
  <2> DEFINE r == [th[s] EXCEPT !.pc = "stopped"]
  <2>1. th[s].pc = "time" /\ running_thread' = FALSE /\ Become(s, r)
        /\ list_net_statistics' = list_net_statistics
        /\ heap' = heap /\ allocated' = allocated
        /\ collect_usec' = collect_usec /\ UNCHANGED ghosts
    BY <1>4 DEF set_timed_stop, At, StopLoop
  <2>2. r \in Record /\ Fine(r) /\ r.pc = "stopped"
    BY <2>1, <1>3 DEF Period
  <2> HIDE DEF r
  <2>3. th[s].pc \notin Walk /\ r.pc \notin Walk
    BY <2>1, <2>2, PeriodAside DEF Period
  <2>4. QED
    BY <1>1, <2>1, <2>2, <2>3, AsideStep
<1>5. CASE set_timed_stopped(s)
  <2>1. th[s].pc = "stopped" /\ collect_usec' = -1 /\ Become(s, Idle)
        /\ list_net_statistics' = list_net_statistics
        /\ heap' = heap /\ allocated' = allocated
        /\ running_thread' = running_thread /\ UNCHANGED ghosts
    BY <1>5 DEF set_timed_stopped, At
  <2>2. th[s].pc \notin Walk /\ Idle.pc \notin Walk
    BY <2>1, IdleOK, PeriodAside DEF Period
  <2>3. QED
    BY <1>1, <1>2, <2>1, <2>2, IdleOK, AsideStep
<1>6. CASE set_timed_check(s)
  <2> DEFINE c == IF collect_usec <= 0 THEN "start" ELSE "assign"
             r == [th[s] EXCEPT !.pc = c]
  <2>1. th[s].pc = "time" /\ th[s].usec > 0 /\ Become(s, r)
        /\ list_net_statistics' = list_net_statistics
        /\ heap' = heap /\ allocated' = allocated
        /\ collect_usec' = collect_usec /\ running_thread' = running_thread
        /\ UNCHANGED ghosts
    BY <1>6 DEF set_timed_check, At, shared
  <2>2. c \in Period
    BY DEF Period
  <2> HIDE DEF c
  <2>3. r \in Record /\ Fine(r) /\ r.pc = c
    BY <2>1, <2>2, <1>3 DEF Period
  <2> HIDE DEF r
  <2>4. th[s].pc \notin Walk /\ r.pc \notin Walk
    BY <2>1, <2>2, <2>3, PeriodAside DEF Period
  <2>5. QED
    BY <1>1, <2>1, <2>3, <2>4, AsideStep
<1>7. CASE set_timed_start(s)
  <2> DEFINE r == [th[s] EXCEPT !.pc = "create"]
  <2>1. th[s].pc = "start" /\ running_thread' = TRUE /\ Become(s, r)
        /\ list_net_statistics' = list_net_statistics
        /\ heap' = heap /\ allocated' = allocated
        /\ collect_usec' = collect_usec /\ UNCHANGED ghosts
    BY <1>7 DEF set_timed_start, At
  <2>2. r \in Record /\ Fine(r) /\ r.pc = "create"
    <3>1. th[s].usec > 0
      BY <2>1, <1>1 DEF Fine
    <3>2. QED
      BY <2>1, <3>1, <1>3 DEF Period
  <2> HIDE DEF r
  <2>3. th[s].pc \notin Walk /\ r.pc \notin Walk
    BY <2>1, <2>2, PeriodAside DEF Period
  <2>4. QED
    BY <1>1, <2>1, <2>2, <2>3, AsideStep
<1>8. CASE set_timed_create(s)
  <2> DEFINE r == [th[s] EXCEPT !.pc = "assign"]
  <2>1. th[s].pc = "create"
        /\ list_net_statistics' = list_net_statistics
        /\ heap' = heap /\ allocated' = allocated
        /\ collect_usec' = collect_usec /\ running_thread' = running_thread
        /\ UNCHANGED ghosts
    BY <1>8 DEF set_timed_create, At, shared
  <2>2. r \in Record /\ Fine(r) /\ r.pc = "assign"
    <3>1. th[s].usec > 0
      BY <2>1, <1>1 DEF Fine
    <3>2. QED
      BY <2>1, <3>1, <1>3 DEF Period
  <2>3. th[s].pc \notin Walk /\ r.pc \notin Walk
    BY <2>1, <2>2, PeriodAside DEF Period
  <2>4. CASE \E c \in Collector : At(c, "idle")
    <3>1. PICK c \in Collector :
             At(c, "idle") /\ Threads([th EXCEPT ![c].pc = "created",
                                                 ![s].pc = "assign"])
      BY <1>8, <2>4 DEF set_timed_create
    <3>2. c \in Thread /\ c # s /\ th[c].pc = "idle"
      BY <3>1, <2>1 DEF Thread, At
    <3> DEFINE q == [th[c] EXCEPT !.pc = "created"]
    <3>3. q \in Record /\ Fine(q) /\ q.pc = "created"
      <4>1. th[c] \in Record /\ Fine(th[c])
        BY <3>2 DEF TypeInv
      <4>2. q \in Record /\ q.pc = "created" /\ q.n = th[c].n /\ q.i = th[c].i
        BY <4>1 DEF Record
      <4> HIDE DEF q
      <4>3. th[c].n = 0 /\ th[c].i = 0
        BY <4>1, <3>2 DEF Fine, Getting
      <4>4. Fine(q)
        BY <4>2, <4>3 DEF Fine, Change, Removal, Getting
      <4>5. QED
        BY <4>2, <4>4
    <3>4. th' = [[th EXCEPT ![c] = q] EXCEPT ![s] = r]
      BY <3>1, <3>2, <1>1 DEF Threads, TypeInv
    <3> HIDE DEF q, r
    <3>5. th \in [Thread -> Record] /\ \A u \in Thread : Fine(th[u])
      BY DEF TypeInv
    <3>6. th' \in [Thread -> Record] /\ th'[s] = r /\ th'[c] = q
          /\ \A u \in Thread : u # s /\ u # c => th'[u] = th[u]
      BY <3>2, <3>3, <3>4, <3>5, <2>2, <1>1
    <3>7. \A u \in Thread : Fine(th'[u])
      BY <3>3, <3>5, <3>6, <2>2
    <3>8. MetInv' /\ overlap \subseteq overlap' /\ overlap' \subseteq Kinds
      BY <3>1, MetKinds DEF Threads, MetInv, TypeInv
    <3>9. undefined' = undefined /\ overrun' = overrun /\ got' = got
      BY <2>1 DEF ghosts
    <3>10. TypeInv'
      BY <2>1, <3>6, <3>7, <3>8, <3>9 DEF TypeInv
    <3>11. th[c].pc \notin Walk /\ th'[c].pc \notin Walk
           /\ th[s].pc \notin Walk /\ th'[s].pc \notin Walk
      BY <2>3, <3>2, <3>3, <3>6, PeriodAside
    <3>12. QED
      BY <2>1, <3>6, <3>8, <3>9, <3>10, <3>11 DEF Aside, SameList
  <2>5. CASE ~(\E c \in Collector : At(c, "idle"))
    <3>1. Become(s, r)
      BY <1>8, <2>5 DEF set_timed_create
    <3> HIDE DEF r
    <3>2. QED
      BY <1>1, <2>1, <2>2, <2>3, <3>1, AsideStep
  <2>6. QED
    BY <2>4, <2>5
<1>9. CASE set_timed_assign(s)
  <2>1. th[s].pc = "assign" /\ collect_usec' = th[s].usec /\ Become(s, Idle)
        /\ list_net_statistics' = list_net_statistics
        /\ heap' = heap /\ allocated' = allocated
        /\ running_thread' = running_thread /\ UNCHANGED ghosts
    BY <1>9 DEF set_timed_assign, At
  <2>2. th[s].usec \in -1..IntMax
    <3>1. th[s].usec > 0 /\ th[s].usec \in (-IntMax - 1)..IntMax
      BY <2>1, <1>1 DEF Fine, Record
    <3>2. QED
      BY <3>1, NetConstants
  <2>3. th[s].pc \notin Walk /\ Idle.pc \notin Walk
    BY <2>1, IdleOK, PeriodAside DEF Period
  <2>4. QED
    BY <1>1, <2>1, <2>2, <2>3, IdleOK, AsideStep
<1>10. QED
  BY <1>4, <1>5, <1>6, <1>7, <1>8, <1>9

LEMMA rest_Step ==
    ASSUME TypeInv, NEW c \in Collector,
           thread_get_net_statistics(c) \/ collector_sleep(c)
    PROVE  TypeInv' /\ Aside
<1> DEFINE r == [Idle EXCEPT !.pc = "loop"]
<1>1. c \in Thread /\ collect_usec \in -1..IntMax
      /\ running_thread \in BOOLEAN
  BY DEF TypeInv, Thread
<1>2. /\ UNCHANGED ghosts
      /\ list_net_statistics' = list_net_statistics /\ heap' = heap
      /\ allocated' = allocated /\ collect_usec' = collect_usec
      /\ running_thread' = running_thread
      /\ th[c].pc \in {"created", "sleep"}
      /\ Become(c, r) \/ Become(c, Idle)
  BY DEF thread_get_net_statistics, collector_sleep, At, shared
<1>3. r \in Record /\ Fine(r) /\ r.pc = "loop"
  <2>1. Idle \in Record /\ Fine(Idle) /\ Idle.n = 0 /\ Idle.i = 0
    BY IdleOK DEF Idle
  <2>2. r \in Record /\ r.pc = "loop" /\ r.n = 0 /\ r.i = 0
    BY <2>1 DEF Record
  <2> HIDE DEF r
  <2>3. QED
    BY <2>2 DEF Fine, Change, Removal, Getting
<1> HIDE DEF r
<1>4. th[c].pc \notin Walk /\ r.pc \notin Walk /\ Idle.pc \notin Walk
  BY <1>2, <1>3, IdleOK, PeriodAside
<1>5. CASE Become(c, r)
  BY <1>1, <1>2, <1>3, <1>4, <1>5, AsideStep
<1>6. CASE Become(c, Idle)
  BY <1>1, <1>2, <1>4, <1>6, IdleOK, AsideStep
<1>7. QED
  BY <1>2, <1>5, <1>6

LEMMA loop_Step ==
    ASSUME TypeInv, NEW c \in Collector, collector_loop(c)
    PROVE  /\ TypeInv' /\ Moved(c) /\ SameList
           /\ th[c].pc = "loop"
           /\ undefined' = undefined /\ overrun' = overrun /\ got' = got
           /\ \/ th'[c].pc = "update" /\ th'[c].p = list_net_statistics
              \/ th'[c] = Idle
<1> DEFINE r == [Idle EXCEPT !.pc = "update", !.p = list_net_statistics]
<1>1. c \in Thread /\ list_net_statistics \in Pointer
  BY DEF TypeInv, Thread
<1>2. /\ UNCHANGED shared /\ th[c].pc = "loop"
      /\ undefined' = undefined /\ overrun' = overrun /\ got' = got
      /\ Become(c, r) \/ Become(c, Idle)
  BY DEF collector_loop, At, ghosts
<1>3. undefined' \in BOOLEAN /\ overrun' \in BOOLEAN /\ got' \subseteq Intf
  BY <1>2 DEF TypeInv
<1>4. r \in Record /\ Fine(r) /\ r.pc = "update"
      /\ r.p = list_net_statistics
  <2>1. Idle \in Record /\ Idle.n = 0 /\ Idle.i = 0
    BY IdleOK DEF Idle
  <2>2. r \in Record /\ r.pc = "update" /\ r.n = 0 /\ r.i = 0
        /\ r.p = list_net_statistics
    BY <1>1, <2>1 DEF Record, Walk
  <2> HIDE DEF r
  <2>3. QED
    BY <2>2 DEF Fine, Change, Removal, Getting
<1> HIDE DEF r
<1>5. CASE Become(c, r)
  BY <1>1, <1>2, <1>3, <1>4, <1>5, QuietStep
<1>6. CASE Become(c, Idle)
  BY <1>1, <1>2, <1>3, <1>6, IdleOK, QuietStep
<1>7. QED
  BY <1>2, <1>5, <1>6

LEMMA read_Step ==
    ASSUME TypeInv, NEW c \in Collector, update_means_read(c)
    PROVE  /\ TypeInv' /\ Moved(c) /\ SameList
           /\ th[c].pc = "update"
           /\ overrun' = overrun /\ got' = got
           /\ \/ /\ th'[c].pc = "sleep" /\ undefined' = undefined
              \/ /\ th'[c].pc = "store" /\ th'[c].p = th[c].p
                 /\ th[c].p \in Node
                 /\ undefined' = (undefined \/ th[c].p \notin allocated)
<1>1. c \in Thread /\ th[c] \in Record /\ Fine(th[c])
  BY DEF TypeInv, Thread
<1>2. /\ UNCHANGED shared /\ th[c].pc = "update"
      /\ overrun' = overrun /\ got' = got
  BY DEF update_means_read, At
<1>3. overrun' \in BOOLEAN /\ got' \subseteq Intf
  BY <1>2 DEF TypeInv
<1>4. CASE th[c].p = NULL
  <2> DEFINE r == [Idle EXCEPT !.pc = "sleep"]
  <2>1. undefined' = undefined /\ Become(c, r)
    BY <1>4 DEF update_means_read
  <2>2. undefined' \in BOOLEAN
    BY <2>1 DEF TypeInv
  <2>3. r \in Record /\ Fine(r) /\ r.pc = "sleep"
    <3>1. Idle \in Record /\ Idle.n = 0 /\ Idle.i = 0
      BY IdleOK DEF Idle
    <3>2. r \in Record /\ r.pc = "sleep" /\ r.n = 0 /\ r.i = 0
      BY <3>1 DEF Record
    <3> HIDE DEF r
    <3>3. QED
      BY <3>2 DEF Fine, Change, Removal, Getting
  <2> HIDE DEF r
  <2>4. QED
    BY <1>1, <1>2, <1>3, <2>1, <2>2, <2>3, QuietStep
<1>5. CASE th[c].p # NULL
  <2> DEFINE r == [th[c] EXCEPT !.pc = "store"]
  <2>1. undefined' = (undefined \/ th[c].p \notin allocated) /\ Become(c, r)
    BY <1>5 DEF update_means_read, Access
  <2>2. undefined' \in BOOLEAN
    BY <2>1 DEF TypeInv
  <2>3. th[c].p \in Node
    BY <1>1, <1>5 DEF Record, Pointer
  <2>4. r \in Record /\ Fine(r) /\ r.pc = "store" /\ r.p = th[c].p
    BY <1>1, <1>2, <2>3 DEF Record, Fine, Walk, Change, Removal, Getting
  <2> HIDE DEF r
  <2>5. QED
    BY <1>1, <1>2, <1>3, <2>1, <2>2, <2>3, <2>4, QuietStep
<1>6. QED
  BY <1>4, <1>5

LEMMA store_Step ==
    ASSUME TypeInv, NEW c \in Collector, update_means_store(c)
    PROVE  /\ TypeInv' /\ Moved(c) /\ SameList
           /\ th[c].pc = "store" /\ th[c].p \in Node
           /\ undefined' = (undefined \/ th[c].p \notin allocated)
           /\ overrun' = overrun /\ got' = got
           /\ th'[c].pc = "update"
           /\ \E x \in Read(th[c].p) : th'[c].p = x.next
<1>1. c \in Thread /\ th[c] \in Record /\ Fine(th[c])
  BY DEF TypeInv, Thread
<1>2. /\ UNCHANGED shared /\ th[c].pc = "store"
      /\ undefined' = (undefined \/ th[c].p \notin allocated)
      /\ overrun' = overrun /\ got' = got
  BY DEF update_means_store, At, Access
<1>3. undefined' \in BOOLEAN /\ overrun' \in BOOLEAN /\ got' \subseteq Intf
  BY <1>2 DEF TypeInv
<1>4. th[c].p \in Node
  BY <1>1, <1>2 DEF Fine
<1>5. PICK x \in Read(th[c].p) :
         Become(c, [th[c] EXCEPT !.pc = "update", !.p = x.next])
  BY DEF update_means_store
<1>6. x \in Cell
  BY <1>4, ReadCell
<1> DEFINE r == [th[c] EXCEPT !.pc = "update", !.p = x.next]
<1>7. r \in Record /\ Fine(r) /\ r.pc = "update" /\ r.p = x.next
  BY <1>1, <1>2, <1>6 DEF Record, Cell, Fine, Walk, Change, Removal, Getting
<1>8. Become(c, r)
  BY <1>5
<1> HIDE DEF r
<1>9. QED
  BY <1>1, <1>2, <1>3, <1>4, <1>7, <1>8, QuietStep

-----------------------------------------------------------------------------
(* What a step keeps of the list *)

\* A thread away from the list knows nothing of it.
LEMMA AwayKnows ==
    ASSUME NEW m, NEW L, NEW r, NEW a, NEW h, NEW A, r.pc \notin Change
    PROVE  Position(m, L, r, A) /\ Knows(m, L, r, a, h, A)
BY DEF Position, Knows, Change, Removal

LEMMA AddsNothing ==
    ASSUME NEW m, NEW L, NEW r, NEW A, r.pc \notin Removal
    PROVE  Position(m, L, r, A)
BY DEF Position, Removal

\* The list does not change, and every request whose record does knows where
\* it stands.
LEMMA ListKept ==
    ASSUME TypeInv, ListInv, SameList, overlap \subseteq overlap',
           \A u \in Servlet :
              \/ th'[u] = th[u]
              \/ /\ th[u].pc \notin {"publish", "jump", "free"}
                 /\ \A m, L : TheList(m, L) =>
                       /\ Position(m, L, th'[u], allocated)
                       /\ "changes" \notin overlap' =>
                             Knows(m, L, th'[u], list_net_statistics, heap,
                                   allocated)
    PROVE  ListInv'
<1>1. SUFFICES ASSUME "changes" \notin overlap' \/ "removal" \notin overlap'
               PROVE  \E m, L : TheList(m, L)'
  BY DEF ListInv
<1>2. PICK m, L : TheList(m, L)
  BY <1>1 DEF ListInv
<1>3. Chain(m, L, heap, allocated)' /\ (list_net_statistics = Nth(m, L, 1))'
  BY <1>2 DEF TheList, SameList
<1>4. \A u \in Servlet : Position(m, L, th[u], allocated)'
  BY <1>2 DEF TheList, SameList
<1>5. ASSUME "changes" \notin overlap'
      PROVE  Sound(m, L)'
  <2>1. Sound(m, L)
    BY <1>2, <1>5 DEF TheList
  <2>2. \A j, k \in 1..m :
           heap'[L[j]].intf_name = heap'[L[k]].intf_name => j = k
    BY <2>1 DEF Sound, SameList
  <2>3. ASSUME NEW x \in allocated'
        PROVE  In(m, L, x) \/ \E u \in Servlet : Holds(th'[u], x)
    <3>1. In(m, L, x) \/ \E u \in Servlet : Holds(th[u], x)
      BY <2>1 DEF Sound, SameList
    <3>2. ASSUME NEW u \in Servlet, Holds(th[u], x)
          PROVE  Holds(th'[u], x)
      BY <3>2 DEF Holds
    <3>3. QED
      BY <3>1, <3>2
  <2>4. \A u \in Servlet :
           Knows(m, L, th'[u], list_net_statistics', heap', allocated')
    BY <1>2, <1>5, <2>1 DEF Sound, SameList
  <2>5. QED
    BY <2>2, <2>3, <2>4 DEF Sound
<1>6. TheList(m, L)'
  BY <1>3, <1>4, <1>5 DEF TheList
<1>7. QED
  BY <1>6

\* While a request changes a list that is not damaged, no other removal goes
\* on, and no other change if it is a removal or changes have not met.
LEMMA Alone ==
    ASSUME MetInv, NEW s \in Servlet, NEW u \in Servlet, u # s,
           th[s].pc \in Change,
           "changes" \notin overlap \/ "removal" \notin overlap
    PROVE  /\ th[u].pc \notin Removal
           /\ th[s].pc \in Removal \/ "changes" \notin overlap
                 => th[u].pc \notin Change
<1>1. s \in Thread /\ u \in Thread
  BY DEF Thread
<1>2. Removal \subseteq Change /\ Change \subseteq Walk
  BY DEF Change, Walk
<1>3. /\ "changes" \notin overlap
            => ~(th[s].pc \in Change /\ th[u].pc \in Change)
      /\ "removal" \notin overlap
            => ~(th[s].pc \in Removal /\ th[u].pc \in Walk)
      /\ "removal" \notin overlap
            => ~(th[u].pc \in Removal /\ th[s].pc \in Walk)
  BY <1>1, Exclusive DEF MetInv
<1>4. QED
  BY <1>2, <1>3

LEMMA insert_List ==
    ASSUME TypeInv, MetInv, ListInv, NEW s \in Servlet, add_intf_insert(s),
           "changes" \notin overlap' \/ "removal" \notin overlap'
    PROVE  \E m, L : /\ TheList(m, L) /\ TheList(m, L)'
                     /\ \A j \in 1..m : heap'[L[j]] = heap[L[j]]
<1>1. /\ Moved(s) /\ th[s].pc = "insert" /\ th'[s].pc = "publish"
      /\ list_net_statistics' = list_net_statistics
      /\ th'[s].intf = th[s].intf
  BY insert_Step
<1>2. PICK x \in Node \ allocated :
         /\ allocated' = allocated \cup {x} /\ th'[s].p = x
         /\ heap'[x].intf_name = th[s].intf
         /\ heap'[x].next = list_net_statistics
         /\ \A y \in Node : y # x => heap'[y] = heap[y]
  BY insert_Step
<1>3. "changes" \notin overlap \/ "removal" \notin overlap
  BY <1>1 DEF Moved
<1>4. PICK m, L : TheList(m, L)
  BY <1>3 DEF ListInv
<1>5. /\ m \in Nat /\ L \in [1..m -> Node]
      /\ \A j \in 1..m : L[j] \in allocated
  BY <1>4 DEF TheList, Chain, Path
<1>6. ~In(m, L, x) /\ \A j \in 1..m : heap'[L[j]] = heap[L[j]]
  BY <1>2, <1>5 DEF In
<1>7. Chain(m, L, heap, allocated)'
  <2>1. Chain(m, L, heap, allocated)
    BY <1>4 DEF TheList
  <2>2. \A j \in 1..m : L[j] \in allocated' /\ heap'[L[j]].next = heap[L[j]].next
    BY <1>2, <1>5, <1>6
  <2>3. QED
    BY <2>1, <2>2, ChainFrame
<1>8. (list_net_statistics = Nth(m, L, 1))'
  BY <1>1, <1>4 DEF TheList
<1>9. ASSUME NEW u \in Servlet
      PROVE  /\ Position(m, L, th'[u], allocated')
             /\ u # s => th'[u] = th[u]
  <2>1. th'[u].pc \notin Removal /\ (u # s => th'[u] = th[u])
    <3>1. CASE u = s
      BY <1>1, <3>1 DEF Removal
    <3>2. CASE u # s
      <4>1. th'[u] = th[u]
        BY <1>1, <3>2 DEF Moved, Thread
      <4>2. QED
        BY <1>1, <1>3, <3>2, <4>1, Alone DEF Change
    <3>3. QED
      BY <3>1, <3>2
  <2>2. QED
    BY <2>1, AddsNothing
<1>10. ASSUME "changes" \notin overlap'
       PROVE  Sound(m, L)'
  <2>1. "changes" \notin overlap /\ Sound(m, L)
    BY <1>1, <1>4, <1>10 DEF TheList, Moved
  <2>2. \A j, k \in 1..m :
           heap'[L[j]].intf_name = heap'[L[k]].intf_name => j = k
    BY <1>6, <2>1 DEF Sound
  <2>3. ASSUME NEW y \in allocated'
        PROVE  In(m, L, y) \/ \E u \in Servlet : Holds(th'[u], y)
    <3>1. CASE y = x
      BY <3>1, <1>1, <1>2 DEF Holds
    <3>2. CASE y # x
      <4>1. y \in allocated
        BY <3>2, <1>2
      <4>2. CASE In(m, L, y)
        BY <4>2
      <4>3. ASSUME NEW u \in Servlet, Holds(th[u], y)
            PROVE  Holds(th'[u], y)
        <5>1. u # s
          BY <4>3, <1>1 DEF Holds
        <5>2. QED
          BY <4>3, <5>1, <1>9
      <4>4. QED
        BY <4>1, <4>2, <4>3, <2>1 DEF Sound
    <3>3. QED
      BY <3>1, <3>2
  <2>4. ASSUME NEW u \in Servlet
        PROVE  Knows(m, L, th'[u], list_net_statistics', heap', allocated')
    <3>1. CASE u = s
      <4>1. \A k \in 1..m : heap[L[k]].intf_name # th[s].intf
        BY <2>1, <1>1 DEF Sound, Knows
      <4>2. QED
        BY <3>1, <4>1, <1>1, <1>2, <1>6 DEF Knows
    <3>2. CASE u # s
      <4>1. th'[u].pc \notin Change
        BY <1>1, <1>3, <1>9, <2>1, <3>2, Alone DEF Change
      <4>2. QED
        BY <4>1, AwayKnows
    <3>3. QED
      BY <3>1, <3>2
  <2>5. QED
    BY <2>2, <2>3, <2>4 DEF Sound
<1>11. TheList(m, L)'
  BY <1>7, <1>8, <1>9, <1>10 DEF TheList
<1>12. QED
  BY <1>4, <1>6, <1>11

LEMMA publish_List ==
    ASSUME TypeInv, MetInv, ListInv, WalkInv,
           NEW s \in Servlet, add_intf_publish(s),
           "changes" \notin overlap' \/ "removal" \notin overlap'
    PROVE  \E m, L, k, K :
              /\ TheList(m, L) /\ TheList(k, K)'
              /\ "changes" \notin overlap' =>
                    /\ k = m + 1 /\ K = Prepended(m, L, th[s].p)
                    /\ m \in Nat
<1>1. /\ Moved(s) /\ th[s].pc = "publish" /\ th[s].p \in Node
      /\ th'[s] = Idle /\ list_net_statistics' = th[s].p
      /\ heap' = heap /\ allocated' = allocated
  BY publish_Step
<1>2. "changes" \notin overlap \/ "removal" \notin overlap
  BY <1>1 DEF Moved
<1>3. PICK m, L : TheList(m, L)
  BY <1>2 DEF ListInv
<1>4. ASSUME NEW u \in Servlet
      PROVE  /\ th'[u].pc \notin Removal
             /\ "changes" \notin overlap => th'[u].pc \notin Change
  <2>1. CASE u = s
    BY <1>1, <2>1, IdleOK DEF Removal, Change
  <2>2. CASE u # s
    <3>1. th'[u] = th[u]
      BY <1>1, <2>2 DEF Moved, Thread
    <3>2. QED
      BY <1>1, <1>2, <2>2, <3>1, Alone DEF Change
  <2>3. QED
    BY <2>1, <2>2
<1>5. CASE "changes" \notin overlap'
  <2>a. PICK x \in Node : x = th[s].p
    BY <1>1
  <2>b. PICK K : K = Prepended(m, L, x)
    OBVIOUS
  <2>1. "changes" \notin overlap /\ Sound(m, L) /\ m \in Nat
    BY <1>1, <1>3, <1>5 DEF TheList, Moved, Chain, Path
  <2>2. /\ x \in allocated /\ ~In(m, L, x)
        /\ heap[x].intf_name = th[s].intf
        /\ heap[x].next = list_net_statistics
        /\ \A j \in 1..m : heap[L[j]].intf_name # th[s].intf
    BY <2>1, <2>a, <1>1 DEF Sound, Knows
  <2>3. Chain(m + 1, K, heap, allocated)
    BY <1>3, <2>b, <2>2, ChainPrepend DEF TheList
  <2>4. /\ K[1] = x /\ 1 \in 1..(m + 1)
        /\ \A j \in 1..m : j + 1 \in 1..(m + 1) /\ K[j + 1] = L[j]
        /\ \A j \in 1..(m + 1) : j # 1 => j - 1 \in 1..m /\ K[j] = L[j - 1]
    BY <2>1, <2>b DEF Prepended
  <2>5. x = Nth(m + 1, K, 1)
    BY <2>4 DEF Nth
  <2>6. ASSUME NEW j \in 1..(m + 1), NEW k \in 1..(m + 1),
               heap[K[j]].intf_name = heap[K[k]].intf_name
        PROVE  j = k
    <3>1. j = 1 <=> k = 1
      BY <2>2, <2>4, <2>6
    <3>2. CASE j # 1
      <4>1. j - 1 \in 1..m /\ k - 1 \in 1..m
            /\ heap[L[j - 1]].intf_name = heap[L[k - 1]].intf_name
        BY <2>4, <2>6, <3>1, <3>2
      <4>2. j - 1 = k - 1
        BY <4>1, <2>1 DEF Sound
      <4>3. QED
        BY <4>2, <2>1
    <3>3. QED
      BY <3>1, <3>2
  <2>7. ASSUME NEW y \in allocated
        PROVE  In(m + 1, K, y)
    <3>1. CASE In(m, L, y)
      BY <3>1, <2>4 DEF In
    <3>2. CASE y = x
      BY <3>2, <2>4 DEF In
    <3>3. ASSUME NEW u \in Servlet, Holds(th[u], y)
          PROVE  y = x
      <4>1. u = s
        <5>1. th[u].pc \in Change
          BY <3>3 DEF Holds, Change, Removal
        <5>2. QED
          BY <5>1, <1>1, <1>2, <2>1, Alone DEF Change
      <4>2. QED
        BY <4>1, <3>3, <2>a DEF Holds
    <3>4. QED
      BY <3>1, <3>2, <3>3, <2>1 DEF Sound
  <2>8. \A u \in Servlet :
           /\ Position(m + 1, K, th'[u], allocated')
           /\ Knows(m + 1, K, th'[u], list_net_statistics', heap', allocated')
    BY <1>4, <2>1, AwayKnows
  <2>9. Sound(m + 1, K)'
    BY <1>1, <2>6, <2>7, <2>8 DEF Sound
  <2>10. TheList(m + 1, K)'
    BY <1>1, <2>a, <2>3, <2>5, <2>8, <2>9 DEF TheList
  <2>11. QED
    BY <1>3, <2>1, <2>10, <2>a, <2>b
<1>6. CASE "changes" \in overlap'
  <2>1. "removal" \notin overlap /\ s \in Thread
    BY <1>1, <1>6 DEF Moved, Thread
  <2>2. OnList(th[s], heap, allocated)
    BY <1>1, <2>1 DEF WalkInv, Walker, Walk, Change, Removal
  <2>3. PICK k, K, j : Stands(k, K, j, th[s], heap, allocated)
    BY <2>2 DEF OnList
  <2>4. Chain(k, K, heap, allocated) /\ th[s].p = Nth(k, K, 1)
    BY <2>3, <1>1 DEF Stands
  <2>5. \A u \in Servlet : Position(k, K, th'[u], allocated')
    BY <1>4, AddsNothing
  <2>6. TheList(k, K)'
    BY <1>1, <1>6, <2>4, <2>5 DEF TheList
  <2>7. QED
    BY <1>3, <1>6, <2>6
<1>7. QED
  BY <1>5, <1>6

\* An item is taken out by the request that holds it.
LEMMA DropSound ==
    ASSUME TypeInv, MetInv, NEW s \in Servlet, Moved(s),
           NEW m, NEW L, NEW j \in 1..m, NEW K, K = Dropped(m, L, j),
           Chain(m, L, heap, allocated), Sound(m, L),
           "changes" \notin overlap, th[s].pc \in Removal,
           L[j] = th[s].p, th'[s].p = th[s].p, th'[s].pc \in {"jump", "free"},
           allocated' = allocated,
           \A y \in Node : heap'[y].intf_name = heap[y].intf_name
    PROVE  Sound(m - 1, K)'
<1>1. /\ m \in Nat /\ m - 1 \in Nat /\ K \in [1..(m - 1) -> Node]
      /\ L \in [1..m -> Node]
      /\ \A i \in 1..(m - 1) : IF i < j THEN i \in 1..m /\ K[i] = L[i]
                               ELSE i + 1 \in 1..m /\ K[i] = L[i + 1]
  <2>1. m \in Nat /\ L \in [1..m -> Node]
    BY DEF Chain, Path
  <2>2. /\ m - 1 \in Nat /\ Dropped(m, L, j) \in [1..(m - 1) -> Node]
        /\ \A i \in 1..(m - 1) :
              IF i < j THEN i \in 1..m /\ Dropped(m, L, j)[i] = L[i]
              ELSE i + 1 \in 1..m /\ Dropped(m, L, j)[i] = L[i + 1]
    BY DroppedItems
  <2>3. QED
    BY <2>1, <2>2
<1>2. \A x : In(m, L, x) => x = L[j] \/ In(m - 1, K, x)
  BY DroppedDistinct
<1>3. ASSUME NEW u \in Servlet, u # s
      PROVE  th'[u] = th[u] /\ th[u].pc \notin Change
  <2>1. th'[u] = th[u]
    BY <1>3 DEF Moved, Thread
  <2>2. th[u].pc \notin Change
    BY <1>3, Alone DEF Change
  <2>3. QED
    BY <2>1, <2>2
<1>4. ASSUME NEW i \in 1..(m - 1), NEW k \in 1..(m - 1),
             heap'[K[i]].intf_name = heap'[K[k]].intf_name
      PROVE  i = k
  <2>1. heap[K[i]].intf_name = heap[K[k]].intf_name
    BY <1>1, <1>4
  <2>2. \A a, b \in 1..m :
           heap[L[a]].intf_name = heap[L[b]].intf_name => a = b
    BY DEF Sound
  <2>3. CASE i < j /\ k < j
    BY <2>1, <2>2, <2>3, <1>1
  <2>4. CASE i < j /\ ~(k < j)
    <3>1. i = k + 1
      BY <2>1, <2>2, <2>4, <1>1
    <3>2. QED
      BY <3>1, <2>4, <1>1
  <2>5. CASE ~(i < j) /\ k < j
    <3>1. i + 1 = k
      BY <2>1, <2>2, <2>5, <1>1
    <3>2. QED
      BY <3>1, <2>5, <1>1
  <2>6. CASE ~(i < j) /\ ~(k < j)
    <3>1. i + 1 = k + 1
      BY <2>1, <2>2, <2>6, <1>1
    <3>2. QED
      BY <3>1, <1>1
  <2>7. QED
    BY <2>3, <2>4, <2>5, <2>6
<1>5. ASSUME NEW x \in allocated'
      PROVE  In(m - 1, K, x) \/ \E u \in Servlet : Holds(th'[u], x)
  <2>1. CASE In(m, L, x)
    <3>1. x = L[j] => Holds(th'[s], x)
      BY DEF Holds
    <3>2. QED
      BY <2>1, <3>1, <1>2
  <2>2. ASSUME NEW u \in Servlet, Holds(th[u], x)
        PROVE  Holds(th'[u], x)
    BY <2>2, <1>3 DEF Holds
  <2>3. QED
    BY <2>1, <2>2 DEF Sound
<1>6. ASSUME NEW u \in Servlet
      PROVE  Knows(m - 1, K, th'[u], list_net_statistics', heap', allocated')
  <2>1. CASE u = s
    BY <2>1 DEF Knows
  <2>2. CASE u # s
    BY <2>2, <1>3, AwayKnows
  <2>3. QED
    BY <2>1, <2>2
<1>7. QED
  BY <1>4, <1>5, <1>6 DEF Sound

LEMMA unlink_List ==
    ASSUME TypeInv, MetInv, ListInv,
           NEW s \in Servlet, remove_intf_unlink_head(s),
           "changes" \notin overlap' \/ "removal" \notin overlap'
    PROVE  \E m, L, k, K :
              /\ TheList(m, L) /\ TheList(k, K)'
              /\ \/ k = m /\ K = L
                 \/ \E j \in 1..m : k = m - 1 /\ K = Dropped(m, L, j)
<1>1. /\ Moved(s) /\ th[s].pc = "unlink" /\ th[s].p \in Node
      /\ th'[s].pc = "jump" /\ th'[s].p = th[s].p /\ th'[s].q = th[s].q
      /\ heap' = heap /\ allocated' = allocated
  BY unlink_Step
<1>2. "changes" \notin overlap \/ "removal" \notin overlap
  BY <1>1 DEF Moved
<1>3. PICK m, L : TheList(m, L)
  BY <1>2 DEF ListInv
<1>4. PICK j \in 1..m : th[s].p = L[j] /\ th[s].q = Nth(m, L, j - 1)
  BY <1>1, <1>3 DEF TheList, Position
<1>5. /\ m \in Nat /\ L \in [1..m -> Node] /\ NULL \notin Node
      /\ Chain(m, L, heap, allocated)
      /\ \A i, k \in 1..m : L[i] = L[k] => i = k
      /\ \A i \in 1..m : L[i] \in allocated
      /\ list_net_statistics = Nth(m, L, 1)
  BY <1>3, NetConstants DEF TheList, Chain, Path
<1>6. th[s].pc \in Removal /\ th[s].pc \in Change
  BY <1>1 DEF Removal, Change
<1>7. ASSUME NEW u \in Servlet, u # s
      PROVE  th'[u] = th[u] /\ th[u].pc \notin Change
  <2>1. th'[u] = th[u]
    BY <1>1, <1>7 DEF Moved, Thread
  <2>2. th[u].pc \notin Change
    BY <1>2, <1>6, <1>7, Alone
  <2>3. QED
    BY <2>1, <2>2
<1>8. CASE th[s].p = list_net_statistics
  <2>1. 1 \in 1..m /\ j = 1
    <3>1. 1 \in 1..m
      BY <1>5
    <3>2. L[j] = L[1]
      BY <3>1, <1>4, <1>5, <1>8 DEF Nth
    <3>3. QED
      BY <3>1, <3>2, <1>5
  <2>2. PICK K : K = Dropped(m, L, 1)
    OBVIOUS
  <2>3. list_net_statistics' = heap[L[1]].next
    <3>1. PICK x \in Read(th[s].p) : list_net_statistics' = x.next
      BY <1>8, unlink_Step
    <3>2. th[s].p \in allocated
      BY <1>4, <1>5
    <3>3. x = heap[th[s].p]
      BY <1>1, <3>2, ReadCell
    <3>4. QED
      BY <3>1, <3>3, <1>4, <2>1
  <2>4. /\ Chain(m - 1, K, heap, allocated)
        /\ list_net_statistics' = Nth(m - 1, K, 1)
    BY <2>1, <2>2, <2>3, <1>5, ChainRest
  <2>5. ~In(m - 1, K, th[s].p)
    BY <1>4, <1>5, <2>1, <2>2, DroppedDistinct
  <2>6. ASSUME NEW u \in Servlet
        PROVE  Position(m - 1, K, th'[u], allocated')
    <3>1. CASE u = s
      <4>1. th[s].q = NULL
        BY <1>4, <1>5, <2>1 DEF Nth
      <4>2. th[s].p \in allocated
        BY <1>4, <1>5
      <4>3. QED
        BY <3>1, <4>1, <4>2, <2>5, <1>1 DEF Position
    <3>2. CASE u # s
      BY <3>2, <1>7, AwayKnows
    <3>3. QED
      BY <3>1, <3>2
  <2>7. ASSUME "changes" \notin overlap'
        PROVE  Sound(m - 1, K)'
    <3>1. "changes" \notin overlap /\ Sound(m, L)
      BY <1>1, <1>3, <2>7 DEF Moved, TheList
    <3>2. \A y \in Node : heap'[y].intf_name = heap[y].intf_name
      BY <1>1
    <3>3. L[1] = th[s].p
      BY <1>4, <2>1
    <3>4. QED
      BY <1>1, <1>5, <1>6, <2>1, <2>2, <3>1, <3>2, <3>3, DropSound
  <2>8. TheList(m - 1, K)'
    BY <1>1, <2>4, <2>6, <2>7 DEF TheList
  <2>9. QED
    BY <1>3, <2>1, <2>2, <2>8
<1>9. CASE th[s].p # list_net_statistics
  <2>1. list_net_statistics' = list_net_statistics
    BY <1>9, unlink_Step
  <2>2. j \in 2..m /\ th[s].q = L[j - 1]
    <3>1. j # 1
      BY <1>4, <1>5, <1>9 DEF Nth
    <3>2. j \in 2..m /\ j - 1 \in 1..m
      BY <3>1, <1>5
    <3>3. QED
      BY <3>2, <1>4 DEF Nth
  <2>3. ASSUME NEW u \in Servlet
        PROVE  Position(m, L, th'[u], allocated')
    <3>1. CASE u = s
      <4>1. th[s].p \in allocated
        BY <1>4, <1>5
      <4>2. QED
        BY <3>1, <4>1, <2>2, <1>1, <1>4 DEF Position
    <3>2. CASE u # s
      BY <3>2, <1>7, AwayKnows
    <3>3. QED
      BY <3>1, <3>2
  <2>4. ASSUME "changes" \notin overlap'
        PROVE  Sound(m, L)'
    <3>1. Sound(m, L)
      BY <1>1, <1>3, <2>4 DEF Moved, TheList
    <3>2. ASSUME NEW x \in allocated'
          PROVE  In(m, L, x) \/ \E u \in Servlet : Holds(th'[u], x)
      <4>1. ASSUME NEW u \in Servlet, Holds(th[u], x)
            PROVE  Holds(th'[u], x)
        BY <4>1, <1>1, <1>7 DEF Holds
      <4>2. QED
        BY <4>1, <3>1, <1>1 DEF Sound
    <3>3. ASSUME NEW u \in Servlet
          PROVE  Knows(m, L, th'[u], list_net_statistics', heap', allocated')
      <4>1. CASE u = s
        BY <4>1, <1>1 DEF Knows
      <4>2. CASE u # s
        BY <4>2, <1>7, AwayKnows
      <4>3. QED
        BY <4>1, <4>2
    <3>4. QED
      BY <3>1, <3>2, <3>3, <1>1 DEF Sound
  <2>5. TheList(m, L)'
    BY <1>1, <1>5, <2>1, <2>3, <2>4 DEF TheList
  <2>6. QED
    BY <1>3, <2>5
<1>10. QED
  BY <1>8, <1>9

LEMMA jump_List ==
    ASSUME TypeInv, MetInv, ListInv, NEW s \in Servlet, remove_intf_jump(s),
           "changes" \notin overlap' \/ "removal" \notin overlap'
    PROVE  \E m, L, k, K :
              /\ TheList(m, L) /\ TheList(k, K)'
              /\ \/ k = m /\ K = L
                 \/ \E j \in 1..m : k = m - 1 /\ K = Dropped(m, L, j)
              /\ \A y \in Node : heap'[y].intf_name = heap[y].intf_name
<1>1. /\ Moved(s) /\ th[s].pc = "jump" /\ th[s].p \in Node
      /\ th'[s].pc = "free" /\ th'[s].p = th[s].p
      /\ heap' = JumpOver(s) /\ allocated' = allocated
      /\ list_net_statistics' = list_net_statistics
  BY jump_Step
<1>2. "changes" \notin overlap \/ "removal" \notin overlap
  BY <1>1 DEF Moved
<1>3. PICK m, L : TheList(m, L)
  BY <1>2 DEF ListInv
<1>4. /\ th[s].p \in allocated
      /\ \/ th[s].q = NULL /\ ~In(m, L, th[s].p)
         \/ \E j \in 2..m : th[s].p = L[j] /\ th[s].q = L[j - 1]
  BY <1>1, <1>3 DEF TheList, Position
<1>5. /\ m \in Nat /\ L \in [1..m -> Node] /\ NULL \notin Node
      /\ Chain(m, L, heap, allocated)
      /\ \A i \in 1..m : L[i] \in allocated
      /\ list_net_statistics = Nth(m, L, 1)
      /\ heap \in [Node -> Cell] /\ allocated \subseteq Node
  BY <1>3, NetConstants DEF TheList, Chain, Path, TypeInv
<1>6. th[s].pc \in Removal /\ th[s].pc \in Change
  BY <1>1 DEF Removal, Change
<1>7. ASSUME NEW u \in Servlet, u # s
      PROVE  th'[u] = th[u] /\ th[u].pc \notin Change
  <2>1. th'[u] = th[u]
    BY <1>1, <1>7 DEF Moved, Thread
  <2>2. th[u].pc \notin Change
    BY <1>2, <1>6, <1>7, Alone
  <2>3. QED
    BY <2>1, <2>2
<1>8. CASE th[s].q = NULL /\ ~In(m, L, th[s].p)
  <2>1. heap' = heap
    BY <1>1, <1>5, <1>8 DEF JumpOver
  <2>2. ASSUME NEW u \in Servlet
        PROVE  Position(m, L, th'[u], allocated')
    <3>1. CASE u = s
      BY <3>1, <1>1, <1>4, <1>8 DEF Position
    <3>2. CASE u # s
      BY <3>2, <1>7, AwayKnows
    <3>3. QED
      BY <3>1, <3>2
  <2>3. ASSUME "changes" \notin overlap'
        PROVE  Sound(m, L)'
    <3>1. Sound(m, L)
      BY <1>1, <1>3, <2>3 DEF Moved, TheList
    <3>2. ASSUME NEW x \in allocated'
          PROVE  In(m, L, x) \/ \E u \in Servlet : Holds(th'[u], x)
      <4>1. ASSUME NEW u \in Servlet, Holds(th[u], x)
            PROVE  Holds(th'[u], x)
        BY <4>1, <1>1, <1>7 DEF Holds
      <4>2. QED
        BY <4>1, <3>1, <1>1 DEF Sound
    <3>3. ASSUME NEW u \in Servlet
          PROVE  Knows(m, L, th'[u], list_net_statistics', heap', allocated')
      <4>1. CASE u = s
        BY <4>1, <1>1 DEF Knows
      <4>2. CASE u # s
        BY <4>2, <1>7, AwayKnows
      <4>3. QED
        BY <4>1, <4>2
    <3>4. QED
      BY <3>1, <3>2, <3>3, <2>1 DEF Sound
  <2>4. TheList(m, L)'
    BY <1>1, <1>5, <2>1, <2>2, <2>3 DEF TheList
  <2>5. QED
    BY <1>3, <2>1, <2>4
<1>9. ASSUME NEW j \in 2..m, th[s].p = L[j], th[s].q = L[j - 1]
      PROVE  \E k, K : /\ TheList(k, K)'
                       /\ k = m - 1 /\ K = Dropped(m, L, j)
                       /\ j \in 1..m
                       /\ \A y \in Node : heap'[y].intf_name = heap[y].intf_name
  <2>1. j \in 1..m /\ j - 1 \in 1..m
    BY <1>5
  <2>2. PICK K : K = Dropped(m, L, j)
    OBVIOUS
  <2>3. heap' = [heap EXCEPT ![L[j - 1]].next = heap[L[j]].next]
        /\ L[j - 1] \in Node /\ L[j] \in Node
    BY <1>1, <1>5, <1>9, <2>1 DEF JumpOver
  <2>4. Chain(m - 1, K, heap', allocated) /\ Nth(m - 1, K, 1) = Nth(m, L, 1)
    BY <1>5, <2>2, <2>3, ChainJump
  <2>5. \A y \in Node : heap'[y].intf_name = heap[y].intf_name
    BY <1>5, <2>3 DEF Cell
  <2>6. ASSUME NEW u \in Servlet
        PROVE  Position(m - 1, K, th'[u], allocated')
    <3>1. CASE u = s
      <4>1. ~In(m - 1, K, L[j])
        BY <1>5, <2>1, <2>2, DroppedDistinct
      <4>2. QED
        BY <3>1, <4>1, <1>1, <1>4, <1>9 DEF Position
    <3>2. CASE u # s
      BY <3>2, <1>7, AwayKnows
    <3>3. QED
      BY <3>1, <3>2
  <2>7. ASSUME "changes" \notin overlap'
        PROVE  Sound(m - 1, K)'
    <3>1. "changes" \notin overlap /\ Sound(m, L)
      BY <1>1, <1>3, <2>7 DEF Moved, TheList
    <3>2. QED
      BY <1>1, <1>5, <1>6, <1>9, <2>1, <2>2, <2>5, <3>1, DropSound
  <2>8. TheList(m - 1, K)'
    BY <1>1, <1>5, <2>4, <2>6, <2>7 DEF TheList
  <2>9. QED
    BY <2>1, <2>2, <2>5, <2>8
<1>10. QED
  BY <1>3, <1>4, <1>8, <1>9

LEMMA free_List ==
    ASSUME TypeInv, MetInv, ListInv, NEW s \in Servlet, remove_intf_free(s),
           "changes" \notin overlap' \/ "removal" \notin overlap'
    PROVE  \E m, L : /\ TheList(m, L) /\ TheList(m, L)'
                     /\ \A j \in 1..m : heap'[L[j]] = heap[L[j]]
<1>1. /\ Moved(s) /\ th[s].pc = "free" /\ th[s].p \in Node /\ th'[s] = Idle
      /\ allocated' = allocated \ {th[s].p}
      /\ \A y \in Node : y # th[s].p => heap'[y] = heap[y]
      /\ list_net_statistics' = list_net_statistics
  BY free_Step
<1>2. "changes" \notin overlap \/ "removal" \notin overlap
  BY <1>1 DEF Moved
<1>3. PICK m, L : TheList(m, L)
  BY <1>2 DEF ListInv
<1>4. th[s].p \in allocated /\ ~In(m, L, th[s].p)
  BY <1>1, <1>3 DEF TheList, Position
<1>5. /\ m \in Nat /\ L \in [1..m -> Node]
      /\ Chain(m, L, heap, allocated)
      /\ \A i \in 1..m : L[i] \in allocated
      /\ list_net_statistics = Nth(m, L, 1)
  BY <1>3 DEF TheList, Chain, Path
<1>6. \A i \in 1..m : L[i] \in allocated' /\ heap'[L[i]] = heap[L[i]]
  BY <1>1, <1>4, <1>5 DEF In
<1>7. Chain(m, L, heap', allocated')
  BY <1>5, <1>6, ChainFrame
<1>8. ASSUME NEW u \in Servlet
      PROVE  th'[u].pc \notin Change /\ (u # s => th'[u] = th[u])
  <2>1. CASE u = s
    BY <2>1, <1>1, IdleOK DEF Change, Removal
  <2>2. CASE u # s
    <3>1. th'[u] = th[u]
      BY <1>1, <2>2 DEF Moved, Thread
    <3>2. th[u].pc \notin Change
      BY <1>1, <1>2, <2>2, Alone DEF Change, Removal
    <3>3. QED
      BY <3>1, <3>2
  <2>3. QED
    BY <2>1, <2>2
<1>9. ASSUME "changes" \notin overlap'
      PROVE  Sound(m, L)'
  <2>1. Sound(m, L)
    BY <1>1, <1>3, <1>9 DEF Moved, TheList
  <2>2. \A j, k \in 1..m :
           heap'[L[j]].intf_name = heap'[L[k]].intf_name => j = k
    BY <2>1, <1>6 DEF Sound
  <2>3. ASSUME NEW x \in allocated'
        PROVE  In(m, L, x) \/ \E u \in Servlet : Holds(th'[u], x)
    <3>1. x \in allocated /\ x # th[s].p
      BY <1>1
    <3>2. ASSUME NEW u \in Servlet, Holds(th[u], x)
          PROVE  Holds(th'[u], x)
      BY <3>1, <3>2, <1>8 DEF Holds
    <3>3. QED
      BY <3>1, <3>2, <2>1 DEF Sound
  <2>4. \A u \in Servlet :
           Knows(m, L, th'[u], list_net_statistics', heap', allocated')
    BY <1>8, AwayKnows
  <2>5. QED
    BY <2>2, <2>3, <2>4 DEF Sound
<1>10. \A u \in Servlet : Position(m, L, th'[u], allocated')
  BY <1>8, AwayKnows
<1>11. TheList(m, L)'
  BY <1>1, <1>5, <1>7, <1>9, <1>10 DEF TheList
<1>12. QED
  BY <1>3, <1>6, <1>11

-----------------------------------------------------------------------------
(* What a step keeps of the walks *)

LEMMA WalkKept ==
    ASSUME WalkInv, heap' = heap, allocated' = allocated,
           overlap \subseteq overlap',
           "removal" \notin overlap' => undefined' = undefined,
           \A u \in Thread :
              \/ th'[u] = th[u]
              \/ th'[u].pc \notin Walker
              \/ "removal" \notin overlap' => OnList(th'[u], heap, allocated)
    PROVE  WalkInv'
<1>1. SUFFICES ASSUME "removal" \notin overlap'
               PROVE  /\ \A t \in Thread :
                            th'[t].pc \in Walker
                               => OnList(th'[t], heap', allocated')
                      /\ ~undefined'
  BY DEF WalkInv
<1>2. "removal" \notin overlap
  BY <1>1
<1>3. QED
  BY <1>1, <1>2 DEF WalkInv

\* What a walk finds when it reads the cell it stands on.
LEMMA WalkReads ==
    ASSUME NEW m, NEW L, NEW j, NEW r, NEW h, NEW A,
           Stands(m, L, j, r, h, A), r.p \in Node
    PROVE  /\ r.p \in A /\ h[r.p].next = Nth(m, L, j + 1)
           /\ m \in Nat /\ j \in 1..m /\ j + 1 \in 1..(m + 1)
           /\ r.p = L[j]
<1>1. /\ m \in Nat /\ NULL \notin Node /\ j \in 1..(m + 1)
      /\ r.p = Nth(m, L, j)
      /\ \A k \in 1..m :
            L[k] \in A /\ h[L[k]].next = IF k < m THEN L[k + 1] ELSE NULL
  BY NetConstants DEF Stands, Chain, Path
<1>2. j \in 1..m /\ r.p = L[j]
  BY <1>1 DEF Nth
<1>3. j < m <=> j + 1 \in 1..m
  BY <1>1, <1>2
<1>4. QED
  BY <1>1, <1>2, <1>3 DEF Nth

\* A walk at the head of a list.
LEMMA HeadStands ==
    ASSUME ListInv, "removal" \notin overlap, NEW r,
           r.p = list_net_statistics, r.pc = "count" => r.n = 0,
           r.pc = "fill" => r.i = 0 /\ r.n <= Cardinality(Node)
    PROVE  OnList(r, heap, allocated)
<1>1. PICK m, L : TheList(m, L)
  BY DEF ListInv
<1>2. m \in Nat /\ Chain(m, L, heap, allocated) /\ r.p = Nth(m, L, 1)
  BY <1>1 DEF TheList, Chain, Path
<1>3. 1 \in 1..(m + 1)
  BY <1>2
<1>4. Stands(m, L, 1, r, heap, allocated)
  BY <1>2, <1>3 DEF Stands
<1>5. QED
  BY <1>4 DEF OnList

\* A walk goes on.
LEMMA NextStands ==
    ASSUME NEW r, NEW q, NEW h, NEW A, OnList(r, h, A), r.p \in Node,
           q.p = h[r.p].next, q.pc # "publish", q.pc # "store",
           q.pc = "count" => r.pc = "count" /\ q.n = r.n + 1 /\ r.n \in Nat,
           q.pc = "fill" => /\ r.pc = "fill" /\ q.i = r.i + 1 /\ r.i \in Nat
                            /\ q.n = r.n
    PROVE  OnList(q, h, A) /\ r.p \in A
<1>1. PICK m, L, j : Stands(m, L, j, r, h, A)
  BY DEF OnList
<1>2. /\ r.p \in A /\ q.p = Nth(m, L, j + 1)
      /\ j + 1 \in 1..(m + 1)
  BY <1>1, WalkReads
<1>3. Stands(m, L, j + 1, q, h, A)
  BY <1>1, <1>2 DEF Stands
<1>4. QED
  BY <1>2, <1>3 DEF OnList

LEMMA GetKept ==
    ASSUME GetInv, SameList, overlap \subseteq overlap',
           undefined => undefined',
           "get" \notin overlap' /\ ~undefined' /\ ~overrun => ~overrun',
           \A u \in Thread :
              \/ th'[u] = th[u]
              \/ th'[u].pc \notin Getting
              \/ "get" \notin overlap' /\ ~undefined' =>
                    \E m, L : Follows(m, L, th'[u], list_net_statistics, heap,
                                      allocated)
    PROVE  GetInv'
<1>1. SUFFICES ASSUME "get" \notin overlap', ~undefined'
               PROVE  /\ \A t \in Thread :
                            th'[t].pc \in Getting =>
                               \E m, L : Follows(m, L, th'[t],
                                                 list_net_statistics', heap',
                                                 allocated')
                      /\ ~overrun'
  BY DEF GetInv
<1>2. "get" \notin overlap /\ ~undefined
  BY <1>1
<1>3. QED
  BY <1>1, <1>2 DEF GetInv, SameList

\* No "get" is under way while the list changes.
LEMMA GetAway ==
    ASSUME MetInv, GetInv, NEW s \in Servlet, Moved(s),
           th[s].pc \in Change, th'[s].pc \notin Getting,
           undefined => undefined', overrun' = overrun
    PROVE  GetInv'
<1>1. SUFFICES ASSUME "get" \notin overlap', ~undefined'
               PROVE  /\ \A t \in Thread : th'[t].pc \notin Getting
                      /\ ~overrun'
  BY DEF GetInv
<1>2. "get" \notin overlap /\ s \in Thread
  BY <1>1 DEF Moved, Thread
<1>3. ASSUME NEW t \in Thread
      PROVE  th'[t].pc \notin Getting
  <2>1. CASE t # s
    <3>1. th'[t] = th[t]
      BY <2>1 DEF Moved
    <3>2. ~(th[t].pc \in Getting /\ th[s].pc \in Change)
      BY <1>2, <2>1, Exclusive DEF MetInv
    <3>3. QED
      BY <3>1, <3>2
  <2>2. QED
    BY <2>1
<1>4. QED
  BY <1>1, <1>2, <1>3 DEF GetInv

\* No walk is under way while something is removed.
LEMMA WalkAway ==
    ASSUME MetInv, WalkInv, NEW s \in Servlet, Moved(s),
           th[s].pc \in Removal, th'[s].pc \notin Walker,
           "removal" \notin overlap' => undefined' = undefined
    PROVE  WalkInv'
<1>1. SUFFICES ASSUME "removal" \notin overlap'
               PROVE  /\ \A t \in Thread : th'[t].pc \notin Walker
                      /\ ~undefined'
  BY DEF WalkInv
<1>2. "removal" \notin overlap /\ s \in Thread
  BY <1>1 DEF Moved, Thread
<1>3. ASSUME NEW t \in Thread
      PROVE  th'[t].pc \notin Walker
  <2>1. CASE t # s
    <3>1. th'[t] = th[t]
      BY <2>1 DEF Moved
    <3>2. ~(th[s].pc \in Removal /\ th[t].pc \in Walk)
      BY <1>2, <2>1, Exclusive DEF MetInv
    <3>3. QED
      BY <3>1, <3>2 DEF Walker
  <2>2. QED
    BY <2>1
<1>4. QED
  BY <1>1, <1>2, <1>3 DEF WalkInv

LEMMA aside_Keeps ==
    ASSUME Inv, TypeInv', Aside
    PROVE  Inv'
<1>1. ListInv'
  <2>1. ASSUME NEW u \in Servlet, th'[u] # th[u]
        PROVE  th[u].pc \notin Change /\ th'[u].pc \notin Change
    BY <2>1 DEF Aside, Walk, Thread
  <2>2. \A u \in Servlet :
           \/ th'[u] = th[u]
           \/ /\ th[u].pc \notin {"publish", "jump", "free"}
              /\ \A m, L : /\ Position(m, L, th'[u], allocated)
                           /\ Knows(m, L, th'[u], list_net_statistics, heap,
                                    allocated)
    BY <2>1, AwayKnows DEF Change, Removal
  <2>3. QED
    BY <2>2, ListKept DEF Inv, Aside
<1>2. WalkInv'
  BY WalkKept DEF Inv, Aside, SameList, Walker
<1>3. GetInv'
  BY GetKept DEF Inv, Aside, Walk
<1>4. QED
  BY <1>1, <1>2, <1>3 DEF Inv, Aside

LEMMA add_find_Keeps ==
    ASSUME Inv, NEW s \in Servlet, add_intf_find(s)
    PROVE  Inv'
<1>1. /\ TypeInv /\ MetInv /\ ListInv /\ WalkInv /\ GetInv
      /\ s \in Thread /\ NULL \notin Node
  BY NetConstants DEF Inv, Thread
<1>2. /\ TypeInv' /\ Moved(s) /\ SameList /\ th[s].pc = "add"
      /\ \/ /\ th[s].p = NULL /\ undefined' = undefined
            /\ th'[s].pc = "insert" /\ th'[s].intf = th[s].intf
         \/ /\ th[s].p \in Node
            /\ undefined' = (undefined \/ th[s].p \notin allocated)
            /\ \E x \in Read(th[s].p) :
                  \/ /\ x.intf_name # th[s].intf
                     /\ th'[s].pc = "add" /\ th'[s].intf = th[s].intf
                     /\ th'[s].p = x.next
                  \/ th'[s] = Idle
  BY <1>1, add_find_Step
<1>3. overrun' = overrun
  BY DEF add_intf_find
<1>4. /\ MetInv' /\ overlap \subseteq overlap'
      /\ \A u \in Thread : u # s => th'[u] = th[u]
      /\ heap' = heap /\ allocated' = allocated
  BY <1>2 DEF Moved, SameList
<1>5. th'[s].pc \in {"insert", "add", "idle"}
  BY <1>2, IdleOK
<1>6. ListInv'
  <2>1. ASSUME NEW m, NEW L, TheList(m, L)
        PROVE  /\ Position(m, L, th'[s], allocated)
               /\ "changes" \notin overlap' =>
                     Knows(m, L, th'[s], list_net_statistics, heap, allocated)
    <3>1. Position(m, L, th'[s], allocated)
      BY <1>5, AddsNothing DEF Removal
    <3>2. ASSUME "changes" \notin overlap'
          PROVE  Knows(m, L, th'[s], list_net_statistics, heap, allocated)
      <4>1. Knows(m, L, th[s], list_net_statistics, heap, allocated)
        BY <1>4, <2>1, <3>2 DEF TheList, Sound
      <4>2. PICK j \in 1..(m + 1) :
               /\ th[s].p = Nth(m, L, j)
               /\ \A k \in 1..(j - 1) : heap[L[k]].intf_name # th[s].intf
        BY <4>1, <1>2 DEF Knows
      <4>3. /\ m \in Nat /\ L \in [1..m -> Node]
            /\ \A k \in 1..m :
                  /\ L[k] \in allocated
                  /\ heap[L[k]].next = IF k < m THEN L[k + 1] ELSE NULL
        BY <2>1 DEF TheList, Chain, Path
      <4>4. CASE th[s].p = NULL
        <5>1. j = m + 1
          BY <1>1, <4>2, <4>3, <4>4 DEF Nth
        <5>2. 1..(j - 1) = 1..m
          BY <5>1, <4>3
        <5>3. th'[s].pc = "insert" /\ th'[s].intf = th[s].intf
          BY <1>1, <1>2, <4>4
        <5>4. QED
          BY <4>2, <5>2, <5>3 DEF Knows
      <4>5. CASE th[s].p \in Node
        <5>1. j \in 1..m /\ th[s].p = L[j]
          BY <1>1, <4>2, <4>3, <4>5 DEF Nth
        <5>2. PICK x \in Read(th[s].p) :
                 \/ /\ x.intf_name # th[s].intf
                    /\ th'[s].pc = "add" /\ th'[s].intf = th[s].intf
                    /\ th'[s].p = x.next
                 \/ th'[s] = Idle
          BY <1>1, <1>2, <4>5
        <5>3. x = heap[L[j]]
          BY <1>1, <4>3, <4>5, <5>1, ReadCell
        <5>4. CASE th'[s] = Idle
          BY <5>4, IdleOK, AwayKnows DEF Change, Removal
        <5>5. CASE /\ x.intf_name # th[s].intf
                   /\ th'[s].pc = "add" /\ th'[s].intf = th[s].intf
                   /\ th'[s].p = x.next
          <6>1. j + 1 \in 1..(m + 1) /\ (j < m <=> j + 1 \in 1..m)
            BY <4>3, <5>1
          <6>2. th'[s].p = Nth(m, L, j + 1)
            BY <4>3, <5>1, <5>3, <5>5, <6>1 DEF Nth
          <6>3. ASSUME NEW k \in 1..((j + 1) - 1)
                PROVE  heap[L[k]].intf_name # th'[s].intf
            <7>1. k \in 1..(j - 1) \/ k = j
              BY <4>3, <5>1
            <7>2. QED
              BY <7>1, <4>2, <5>3, <5>5
          <6>4. QED
            BY <5>5, <6>1, <6>2, <6>3 DEF Knows
        <5>6. QED
          BY <5>2, <5>4, <5>5
      <4>6. QED
        BY <1>2, <4>4, <4>5
    <3>3. QED
      BY <3>1, <3>2
  <2>2. \A u \in Servlet : u # s => th'[u] = th[u]
    BY <1>4 DEF Thread
  <2>3. th[s].pc \notin {"publish", "jump", "free"}
    BY <1>2
  <2>4. QED
    BY <1>1, <1>2, <1>4, <2>1, <2>2, <2>3, ListKept
<1>7. ASSUME "removal" \notin overlap'
      PROVE  undefined' = undefined
             /\ (th'[s].pc \in Walker => OnList(th'[s], heap, allocated))
  <2>1. OnList(th[s], heap, allocated)
    BY <1>1, <1>2, <1>4, <1>7 DEF WalkInv, Walker, Walk, Change, Removal
  <2>2. CASE th[s].p = NULL
    <3>1. undefined' = undefined /\ th'[s].pc = "insert"
      BY <1>1, <1>2, <2>2
    <3>2. QED
      BY <3>1 DEF Walker
  <2>3. CASE th[s].p \in Node
    <3>1. PICK m, L, j : Stands(m, L, j, th[s], heap, allocated)
      BY <2>1 DEF OnList
    <3>2. th[s].p \in allocated
      BY <3>1, <2>3, WalkReads
    <3>3. undefined' = undefined
      BY <1>1, <1>2, <2>3, <3>2 DEF TypeInv
    <3>4. ASSUME th'[s].pc \in Walker
          PROVE  OnList(th'[s], heap, allocated)
      <4>1. PICK x \in Read(th[s].p) :
               \/ th'[s].pc = "add" /\ th'[s].p = x.next
               \/ th'[s] = Idle
        BY <1>1, <1>2, <2>3
      <4>2. x = heap[th[s].p]
        BY <1>1, <2>3, <3>2, ReadCell
      <4>3. th'[s] # Idle
        BY <3>4, IdleOK DEF Walker, Walk, Change, Removal, Getting
      <4>4. th'[s].pc = "add" /\ th'[s].p = heap[th[s].p].next
        BY <4>1, <4>2, <4>3
      <4>5. QED
        BY <2>1, <2>3, <4>4, NextStands
    <3>5. QED
      BY <3>3, <3>4
  <2>4. QED
    BY <1>2, <2>2, <2>3
<1>8. WalkInv'
  BY <1>1, <1>4, <1>7, WalkKept
<1>9. GetInv'
  <2>1. undefined => undefined'
    BY <1>2
  <2>2. th[s].pc \in Change /\ th'[s].pc \notin Getting
    BY <1>2, <1>5 DEF Change, Getting
  <2>3. QED
    BY <1>1, <1>2, <1>3, <2>1, <2>2, GetAway
<1>10. QED
  BY <1>2, <1>4, <1>6, <1>8, <1>9 DEF Inv

LEMMA insert_Keeps ==
    ASSUME Inv, NEW s \in Servlet, add_intf_insert(s)
    PROVE  Inv'
<1>1. /\ TypeInv /\ MetInv /\ ListInv /\ WalkInv /\ GetInv /\ s \in Thread
  BY DEF Inv, Thread
<1>2. /\ TypeInv' /\ Moved(s)
      /\ th[s].pc = "insert" /\ th'[s].pc = "publish"
      /\ list_net_statistics' = list_net_statistics
      /\ undefined' = undefined /\ overrun' = overrun
      /\ \E x \in Node \ allocated :
            /\ allocated' = allocated \cup {x} /\ th'[s].p = x
            /\ heap'[x].next = list_net_statistics
            /\ \A y \in Node : y # x => heap'[y] = heap[y]
  BY <1>1, insert_Step
<1>3. ListInv'
  BY <1>1, insert_List DEF ListInv
<1>4. /\ MetInv' /\ overlap \subseteq overlap'
      /\ \A u \in Thread : u # s => th'[u] = th[u]
  BY <1>2 DEF Moved
<1>5. PICK x \in Node \ allocated :
         /\ allocated' = allocated \cup {x} /\ th'[s].p = x
         /\ heap'[x].next = list_net_statistics
         /\ \A y \in Node : y # x => heap'[y] = heap[y]
  BY <1>2
<1>6. ASSUME NEW m, NEW L, Chain(m, L, heap, allocated)
      PROVE  Chain(m, L, heap', allocated') /\ ~In(m, L, x)
  <2>1. m \in Nat /\ L \in [1..m -> Node] /\ \A j \in 1..m : L[j] \in allocated
    BY <1>6 DEF Chain, Path
  <2>2. \A j \in 1..m : L[j] \in allocated' /\ heap'[L[j]].next = heap[L[j]].next
    BY <2>1, <1>5
  <2>3. ~In(m, L, x)
    BY <2>1, <1>5 DEF In
  <2>4. QED
    BY <1>6, <2>2, <2>3, ChainFrame
<1>7. WalkInv'
  <2>1. SUFFICES ASSUME "removal" \notin overlap'
                 PROVE  /\ \A t \in Thread :
                              th'[t].pc \in Walker
                                 => OnList(th'[t], heap', allocated')
                        /\ ~undefined'
    BY DEF WalkInv
  <2>2. "removal" \notin overlap
    BY <2>1, <1>4
  <2>3. ASSUME NEW t \in Thread, t # s, th'[t].pc \in Walker
        PROVE  OnList(th'[t], heap', allocated')
    <3>1. PICK m, L, j : Stands(m, L, j, th'[t], heap, allocated)
      BY <1>1, <1>4, <2>2, <2>3 DEF WalkInv, OnList
    <3>2. Stands(m, L, j, th'[t], heap', allocated')
      BY <3>1, <1>6 DEF Stands
    <3>3. QED
      BY <3>2 DEF OnList
  <2>4. OnList(th'[s], heap', allocated')
    <3>1. PICK m, L : TheList(m, L)
      BY <1>1, <2>2 DEF ListInv
    <3>2. PICK K : K = Prepended(m, L, x)
      OBVIOUS
    <3>3. /\ m \in Nat /\ Chain(m, L, heap', allocated') /\ ~In(m, L, x)
          /\ list_net_statistics = Nth(m, L, 1)
      BY <1>6, <3>1 DEF TheList, Chain, Path
    <3>4. Chain(m + 1, K, heap', allocated')
      BY <1>5, <3>2, <3>3, ChainPrepend
    <3>5. 1 \in 1..(m + 1) /\ 1 \in 1..((m + 1) + 1) /\ K[1] = x
      BY <3>2, <3>3 DEF Prepended
    <3>6. th'[s].p = Nth(m + 1, K, 1)
      BY <1>5, <3>5 DEF Nth
    <3>7. Stands(m + 1, K, 1, th'[s], heap', allocated')
      BY <1>2, <3>4, <3>5, <3>6 DEF Stands
    <3>8. QED
      BY <3>7 DEF OnList
  <2>5. QED
    BY <1>1, <1>2, <2>2, <2>3, <2>4 DEF WalkInv
<1>8. GetInv'
  <2>1. th[s].pc \in Change /\ th'[s].pc \notin Getting
    BY <1>2 DEF Change, Getting
  <2>2. QED
    BY <1>1, <1>2, <2>1, GetAway
<1>9. QED
  BY <1>2, <1>3, <1>4, <1>7, <1>8 DEF Inv

LEMMA publish_Keeps ==
    ASSUME Inv, NEW s \in Servlet, add_intf_publish(s)
    PROVE  Inv'
<1>1. /\ TypeInv /\ MetInv /\ ListInv /\ WalkInv /\ GetInv
  BY DEF Inv
<1>2. /\ TypeInv' /\ Moved(s)
      /\ th[s].pc = "publish" /\ th'[s].pc = "idle"
      /\ heap' = heap /\ allocated' = allocated
      /\ undefined' = undefined /\ overrun' = overrun
  BY <1>1, publish_Step, IdleOK
<1>3. ListInv'
  BY <1>1, publish_List DEF ListInv
<1>4. /\ MetInv' /\ overlap \subseteq overlap'
      /\ \A u \in Thread : u # s => th'[u] = th[u]
  BY <1>2 DEF Moved
<1>5. th'[s].pc \notin Walker /\ th'[s].pc \notin Getting
      /\ th[s].pc \in Change
  BY <1>2 DEF Walker, Walk, Change, Removal, Getting
<1>6. WalkInv'
  BY <1>1, <1>2, <1>4, <1>5, WalkKept
<1>7. GetInv'
  BY <1>1, <1>2, <1>5, GetAway
<1>8. QED
  BY <1>2, <1>3, <1>4, <1>6, <1>7 DEF Inv

LEMMA absent_Keeps ==
    ASSUME Inv, NEW s \in Servlet, remove_intf_absent(s)
    PROVE  Inv'
<1>1. /\ TypeInv /\ MetInv /\ ListInv /\ WalkInv /\ GetInv
  BY DEF Inv
<1>2. /\ TypeInv' /\ Moved(s) /\ SameList
      /\ th[s].pc = "remove" /\ th'[s].pc = "idle"
      /\ undefined' = undefined /\ overrun' = overrun
  BY <1>1, absent_Step, IdleOK
<1>3. /\ MetInv' /\ overlap \subseteq overlap'
      /\ \A u \in Servlet : u # s => th'[u] = th[u]
  BY <1>2 DEF Moved, Thread
<1>4. /\ th'[s].pc \notin Walker /\ th'[s].pc \notin Getting
      /\ th'[s].pc \notin Change
      /\ th[s].pc \in Removal /\ th[s].pc \in Change
      /\ th[s].pc \notin {"publish", "jump", "free"}
  BY <1>2 DEF Walker, Walk, Change, Removal, Getting
<1>5. \A m, L : /\ Position(m, L, th'[s], allocated)
                /\ Knows(m, L, th'[s], list_net_statistics, heap, allocated)
  BY <1>4, AwayKnows
<1>6. ListInv'
  BY <1>1, <1>2, <1>3, <1>4, <1>5, ListKept
<1>7. WalkInv'
  BY <1>1, <1>2, <1>4, WalkAway
<1>8. GetInv'
  BY <1>1, <1>2, <1>4, GetAway
<1>9. QED
  BY <1>2, <1>3, <1>6, <1>7, <1>8 DEF Inv

LEMMA remove_find_Keeps ==
    ASSUME Inv, NEW s \in Servlet, remove_intf_find(s)
    PROVE  Inv'
<1>1. /\ TypeInv /\ MetInv /\ ListInv /\ WalkInv /\ GetInv
      /\ NULL \notin Node
  BY NetConstants DEF Inv
<1>2. /\ TypeInv' /\ Moved(s) /\ SameList
      /\ th[s].pc = "remove" /\ th[s].p \in Node
      /\ undefined' = (undefined \/ th[s].p \notin allocated)
      /\ overrun' = overrun
      /\ \E x \in Read(th[s].p) :
            \/ th'[s].pc = "remove" /\ th'[s].q = th[s].p
               /\ th'[s].p = x.next
            \/ th'[s].pc = "unlink" /\ th'[s].q = th[s].q
               /\ th'[s].p = th[s].p
  BY <1>1, remove_find_Step
<1>3. /\ MetInv' /\ overlap \subseteq overlap'
      /\ \A u \in Servlet : u # s => th'[u] = th[u]
  BY <1>2 DEF Moved, Thread
<1>4. /\ th'[s].pc \notin Walker /\ th'[s].pc \notin Getting
      /\ th'[s].pc \in {"remove", "unlink"}
      /\ th[s].pc \in Removal /\ th[s].pc \in Change
      /\ th[s].pc \notin {"publish", "jump", "free"}
  BY <1>2 DEF Walker, Walk, Change, Removal, Getting
<1>5. ASSUME NEW m, NEW L, TheList(m, L)
      PROVE  /\ th[s].p \in allocated
             /\ Position(m, L, th'[s], allocated)
             /\ Knows(m, L, th'[s], list_net_statistics, heap, allocated)
  <2>1. Knows(m, L, th'[s], list_net_statistics, heap, allocated)
    BY <1>4 DEF Knows
  <2>2. Position(m, L, th[s], allocated)
    BY <1>5 DEF TheList
  <2>3. PICK j \in 1..(m + 1) :
           th[s].p = Nth(m, L, j) /\ th[s].q = Nth(m, L, j - 1)
    BY <1>2, <2>2 DEF Position
  <2>4. /\ m \in Nat /\ L \in [1..m -> Node]
        /\ \A k \in 1..m :
              /\ L[k] \in allocated
              /\ heap[L[k]].next = IF k < m THEN L[k + 1] ELSE NULL
    BY <1>5 DEF TheList, Chain, Path
  <2>5. j \in 1..m /\ th[s].p = L[j]
    BY <1>1, <1>2, <2>3, <2>4 DEF Nth
  <2>6. PICK x \in Read(th[s].p) :
           \/ th'[s].pc = "remove" /\ th'[s].q = th[s].p
              /\ th'[s].p = x.next
           \/ th'[s].pc = "unlink" /\ th'[s].q = th[s].q
              /\ th'[s].p = th[s].p
    BY <1>2
  <2>7. x = heap[L[j]]
    BY <1>1, <1>2, <2>4, <2>5, ReadCell
  <2>8. CASE th'[s].pc = "unlink" /\ th'[s].q = th[s].q /\ th'[s].p = th[s].p
    <3>1. Position(m, L, th'[s], allocated)
      BY <2>3, <2>5, <2>8 DEF Position
    <3>2. QED
      BY <2>1, <2>4, <2>5, <3>1
  <2>9. CASE th'[s].pc = "remove" /\ th'[s].q = th[s].p /\ th'[s].p = x.next
    <3>1. /\ j + 1 \in 1..(m + 1) /\ (j < m <=> j + 1 \in 1..m)
          /\ (j + 1) - 1 = j
      BY <2>4, <2>5
    <3>2. th'[s].p = Nth(m, L, j + 1) /\ th'[s].q = Nth(m, L, (j + 1) - 1)
      BY <2>4, <2>5, <2>7, <2>9, <3>1 DEF Nth
    <3>3. Position(m, L, th'[s], allocated)
      BY <2>9, <3>1, <3>2 DEF Position
    <3>4. QED
      BY <2>1, <2>4, <2>5, <3>3
  <2>10. QED
    BY <2>6, <2>8, <2>9
<1>6. ListInv'
  BY <1>1, <1>2, <1>3, <1>4, <1>5, ListKept
<1>7. ASSUME "removal" \notin overlap'
      PROVE  undefined' = undefined
  <2>1. PICK m, L : TheList(m, L)
    BY <1>1, <1>3, <1>7 DEF ListInv
  <2>2. th[s].p \in allocated
    BY <2>1, <1>5
  <2>3. QED
    BY <1>1, <1>2, <2>2 DEF TypeInv
<1>8. WalkInv'
  BY <1>1, <1>2, <1>4, <1>7, WalkAway
<1>9. GetInv'
  BY <1>1, <1>2, <1>4, GetAway
<1>10. QED
  BY <1>2, <1>3, <1>6, <1>8, <1>9 DEF Inv

LEMMA unlink_Keeps ==
    ASSUME Inv, NEW s \in Servlet, remove_intf_unlink_head(s)
    PROVE  Inv'
<1>1. TypeInv /\ MetInv /\ ListInv /\ WalkInv /\ GetInv
  BY DEF Inv
<1>2. /\ TypeInv' /\ Moved(s)
      /\ th[s].pc = "unlink" /\ th[s].p \in Node /\ th'[s].pc = "jump"
      /\ overrun' = overrun
      /\ IF th[s].p = list_net_statistics
         THEN undefined' = (undefined \/ th[s].p \notin allocated)
         ELSE undefined' = undefined
  BY <1>1, unlink_Step
<1>3. ListInv'
  BY <1>1, unlink_List DEF ListInv
<1>4. /\ th'[s].pc \notin Walker /\ th'[s].pc \notin Getting
      /\ th[s].pc \in Removal /\ th[s].pc \in Change
  BY <1>2 DEF Walker, Walk, Change, Removal, Getting
<1>5. ASSUME "removal" \notin overlap'
      PROVE  undefined' = undefined
  <2>1. PICK m, L : TheList(m, L)
    BY <1>1, <1>2, <1>5 DEF ListInv, Moved
  <2>2. Position(m, L, th[s], allocated) /\ \A k \in 1..m : L[k] \in allocated
    BY <2>1 DEF TheList, Chain, Path
  <2>3. th[s].p \in allocated
    BY <1>2, <2>2 DEF Position
  <2>4. QED
    BY <1>1, <1>2, <2>3 DEF TypeInv
<1>6. WalkInv'
  BY <1>1, <1>2, <1>4, <1>5, WalkAway
<1>7. undefined => undefined'
  BY <1>2
<1>8. GetInv'
  BY <1>1, <1>2, <1>4, <1>7, GetAway
<1>9. QED
  BY <1>2, <1>3, <1>6, <1>8 DEF Inv, Moved

LEMMA jump_Keeps ==
    ASSUME Inv, NEW s \in Servlet, remove_intf_jump(s)
    PROVE  Inv'
<1>1. TypeInv /\ MetInv /\ ListInv /\ WalkInv /\ GetInv
  BY DEF Inv
<1>2. /\ TypeInv' /\ Moved(s)
      /\ th[s].pc = "jump" /\ th'[s].pc = "free"
      /\ overrun' = overrun
      /\ undefined' = (\/ undefined
                       \/ /\ th[s].q # NULL
                          /\ ~({th[s].q, th[s].p} \subseteq allocated))
  BY <1>1, jump_Step
<1>3. ListInv'
  BY <1>1, jump_List DEF ListInv
<1>4. /\ th'[s].pc \notin Walker /\ th'[s].pc \notin Getting
      /\ th[s].pc \in Removal /\ th[s].pc \in Change
  BY <1>2 DEF Walker, Walk, Change, Removal, Getting
<1>5. ASSUME "removal" \notin overlap'
      PROVE  undefined' = undefined
  <2>1. PICK m, L : TheList(m, L)
    BY <1>1, <1>2, <1>5 DEF ListInv, Moved
  <2>2. /\ m \in Nat
        /\ Position(m, L, th[s], allocated)
        /\ \A k \in 1..m : L[k] \in allocated
    BY <2>1 DEF TheList, Chain, Path
  <2>3. \/ th[s].q = NULL
        \/ \E j \in 2..m : th[s].p = L[j] /\ th[s].q = L[j - 1]
    BY <1>2, <2>2 DEF Position
  <2>4. th[s].q = NULL \/ {th[s].q, th[s].p} \subseteq allocated
    <3>1. ASSUME NEW j \in 2..m
          PROVE  L[j] \in allocated /\ L[j - 1] \in allocated
      <4>1. j \in 1..m /\ j - 1 \in 1..m
        BY <2>2
      <4>2. QED
        BY <4>1, <2>2
    <3>2. QED
      BY <2>3, <3>1
  <2>5. QED
    BY <1>1, <1>2, <2>4 DEF TypeInv
<1>6. WalkInv'
  BY <1>1, <1>2, <1>4, <1>5, WalkAway
<1>7. undefined => undefined'
  BY <1>2
<1>8. GetInv'
  BY <1>1, <1>2, <1>4, <1>7, GetAway
<1>9. QED
  BY <1>2, <1>3, <1>6, <1>8 DEF Inv, Moved

LEMMA free_Keeps ==
    ASSUME Inv, NEW s \in Servlet, remove_intf_free(s)
    PROVE  Inv'
<1>1. TypeInv /\ MetInv /\ ListInv /\ WalkInv /\ GetInv
  BY DEF Inv
<1>2. /\ TypeInv' /\ Moved(s)
      /\ th[s].pc = "free" /\ th'[s].pc = "idle"
      /\ overrun' = overrun
      /\ undefined' = (undefined \/ th[s].p \notin allocated)
  BY <1>1, free_Step, IdleOK
<1>3. ListInv'
  BY <1>1, free_List DEF ListInv
<1>4. /\ th'[s].pc \notin Walker /\ th'[s].pc \notin Getting
      /\ th[s].pc \in Removal /\ th[s].pc \in Change
  BY <1>2 DEF Walker, Walk, Change, Removal, Getting
<1>5. ASSUME "removal" \notin overlap'
      PROVE  undefined' = undefined
  <2>1. PICK m, L : TheList(m, L)
    BY <1>1, <1>2, <1>5 DEF ListInv, Moved
  <2>2. Position(m, L, th[s], allocated)
    BY <2>1 DEF TheList
  <2>3. th[s].p \in allocated
    BY <1>2, <2>2 DEF Position
  <2>4. QED
    BY <1>1, <1>2, <2>3 DEF TypeInv
<1>6. WalkInv'
  BY <1>1, <1>2, <1>4, <1>5, WalkAway
<1>7. undefined => undefined'
  BY <1>2
<1>8. GetInv'
  BY <1>1, <1>2, <1>4, <1>7, GetAway
<1>9. QED
  BY <1>2, <1>3, <1>6, <1>8 DEF Inv, Moved

\* A step that has nothing to do with changing the list.
LEMMA ListQuiet ==
    ASSUME TypeInv, ListInv, SameList, NEW t \in Thread, Moved(t),
           th[t].pc \notin Change, th'[t].pc \notin Change
    PROVE  ListInv'
<1>1. /\ overlap \subseteq overlap'
      /\ \A u \in Servlet : u # t => th'[u] = th[u]
  BY DEF Moved, Thread
<1>2. th[t].pc \notin {"publish", "jump", "free"}
  BY DEF Change, Removal
<1>3. \A m, L : /\ Position(m, L, th'[t], allocated)
                /\ Knows(m, L, th'[t], list_net_statistics, heap, allocated)
  BY AwayKnows
<1>4. QED
  BY <1>1, <1>2, <1>3, ListKept

\* The thread that moves is the only one whose walk can change.
LEMMA WalkMoves ==
    ASSUME WalkInv, SameList, NEW t \in Thread, Moved(t),
           "removal" \notin overlap' =>
              /\ undefined' = undefined
              /\ th'[t].pc \in Walker => OnList(th'[t], heap, allocated)
    PROVE  WalkInv'
BY WalkKept DEF Moved, SameList

LEMMA GetMoves ==
    ASSUME GetInv, SameList, NEW t \in Thread, Moved(t),
           undefined => undefined',
           "get" \notin overlap' /\ "get" \notin overlap
              /\ ~undefined' /\ ~undefined =>
                 /\ ~overrun => ~overrun'
                 /\ th'[t].pc \in Getting =>
                       \E m, L : Follows(m, L, th'[t], list_net_statistics,
                                         heap, allocated)
    PROVE  GetInv'
<1>1. /\ overlap \subseteq overlap'
      /\ \A u \in Thread : u # t => th'[u] = th[u]
  BY DEF Moved
<1>2. "get" \notin overlap' /\ ~undefined'
         => "get" \notin overlap /\ ~undefined
  BY <1>1
<1>3. QED
  BY <1>1, <1>2, GetKept

LEMMA count_Keeps ==
    ASSUME Inv, NEW s \in Servlet, get_all_count(s)
    PROVE  Inv'
<1>1. /\ TypeInv /\ MetInv /\ ListInv /\ WalkInv /\ GetInv /\ s \in Thread
  BY DEF Inv, Thread
<1>2. /\ TypeInv' /\ Moved(s) /\ SameList
      /\ th[s].pc = "count" /\ th[s].p \in Node
      /\ undefined' = (undefined \/ th[s].p \notin allocated)
      /\ overrun' = overrun
      /\ th'[s].pc = "count" /\ th'[s].n = th[s].n + 1
      /\ \E x \in Read(th[s].p) : th'[s].p = x.next
  BY <1>1, count_Step
<1>3. MetInv' /\ overlap \subseteq overlap'
  BY <1>2 DEF Moved
<1>4. /\ th[s].pc \in Walker /\ th[s].pc \in Getting
      /\ th[s].pc \notin Change /\ th'[s].pc \notin Change
  BY <1>2 DEF Walker, Walk, Change, Removal, Getting
<1>5. th[s].n \in Nat
  BY <1>1 DEF TypeInv, Record
<1>6. ASSUME th[s].p \in allocated
      PROVE  undefined' = undefined /\ th'[s].p = heap[th[s].p].next
  <2>1. th'[s].p = heap[th[s].p].next
    BY <1>1, <1>2, <1>6, ReadCell
  <2>2. QED
    BY <1>1, <1>2, <1>6, <2>1 DEF TypeInv
<1>7. ListInv'
  BY <1>1, <1>2, <1>4, ListQuiet
<1>8. ASSUME "removal" \notin overlap'
      PROVE  undefined' = undefined /\ OnList(th'[s], heap, allocated)
  <2>1. OnList(th[s], heap, allocated)
    BY <1>1, <1>3, <1>4, <1>8 DEF WalkInv
  <2>2. th[s].p \in allocated
    BY <1>2, <2>1, WalkReads DEF OnList
  <2>3. OnList(th'[s], heap, allocated)
    BY <1>2, <1>5, <1>6, <2>1, <2>2, NextStands
  <2>4. QED
    BY <1>6, <2>2, <2>3
<1>9. WalkInv'
  BY <1>1, <1>2, <1>8, WalkMoves
<1>10. ASSUME "get" \notin overlap, ~undefined, ~undefined'
       PROVE  \E m, L : Follows(m, L, th'[s], list_net_statistics, heap,
                                allocated)
  <2>1. PICK m, L : Follows(m, L, th[s], list_net_statistics, heap, allocated)
    BY <1>1, <1>4, <1>10 DEF GetInv
  <2>2. /\ Path(m, L, th[s].p, heap, allocated)
        /\ From(m, L, th[s].p) = list_net_statistics /\ th[s].n = m
    BY <2>1, <1>2 DEF Follows
  <2>3. th[s].p \in allocated
    BY <1>2, <1>10
  <2>4. PICK K : K = Extended(m, L, th[s].p)
    OBVIOUS
  <2>5. /\ Path(m + 1, K, th'[s].p, heap, allocated)
        /\ From(m + 1, K, th'[s].p) = list_net_statistics
    BY <1>2, <1>6, <2>2, <2>3, <2>4, PathExtend
  <2>6. Follows(m + 1, K, th'[s], list_net_statistics, heap, allocated)
    BY <1>2, <2>2, <2>5 DEF Follows
  <2>7. QED
    BY <2>6
<1>11. GetInv'
  <2>1. undefined => undefined'
    BY <1>2
  <2>2. QED
    BY <1>1, <1>2, <1>10, <2>1, GetMoves
<1>12. QED
  BY <1>2, <1>3, <1>7, <1>9, <1>11 DEF Inv

LEMMA alloc_Keeps ==
    ASSUME Inv, NEW s \in Servlet, get_all_alloc(s)
    PROVE  Inv'
<1>1. /\ TypeInv /\ MetInv /\ ListInv /\ WalkInv /\ GetInv /\ s \in Thread
      /\ NULL \notin Node
  BY NetConstants DEF Inv, Thread
<1>2. /\ TypeInv' /\ Moved(s) /\ SameList
      /\ th[s].pc = "count" /\ th[s].p = NULL
      /\ undefined' = undefined /\ overrun' = overrun
      /\ \/ th'[s].pc = "idle"
         \/ /\ th'[s].pc = "fill" /\ th'[s].p = list_net_statistics
            /\ th'[s].n = th[s].n /\ th'[s].i = 0 /\ th'[s].names = {}
  BY <1>1, alloc_Step, IdleOK
<1>3. MetInv' /\ overlap \subseteq overlap'
  BY <1>2 DEF Moved
<1>4. /\ th[s].pc \in Walker /\ th[s].pc \in Getting
      /\ th[s].pc \notin Change /\ th'[s].pc \notin Change
  BY <1>2 DEF Walker, Walk, Change, Removal, Getting
<1>5. ListInv'
  BY <1>1, <1>2, <1>4, ListQuiet
<1>6. ASSUME "removal" \notin overlap', th'[s].pc \in Walker
      PROVE  OnList(th'[s], heap, allocated)
  <2>1. PICK m, L, j : Stands(m, L, j, th[s], heap, allocated)
    BY <1>1, <1>3, <1>4, <1>6 DEF WalkInv, OnList
  <2>2. /\ Chain(m, L, heap, allocated) /\ m \in Nat /\ L \in [1..m -> Node]
        /\ j \in 1..(m + 1) /\ NULL = Nth(m, L, j) /\ j = th[s].n + 1
    BY <1>2, <2>1 DEF Stands, Chain, Path
  <2>3. j = m + 1
    BY <1>1, <2>2 DEF Nth
  <2>4. th[s].n \in Nat
    BY <1>1 DEF TypeInv, Record
  <2>5. th[s].n = m
    BY <2>2, <2>3, <2>4
  <2>6. th[s].n <= Cardinality(Node)
    BY <2>2, <2>5, ChainLength
  <2>7. th'[s].pc # "idle"
    BY <1>6 DEF Walker, Walk, Change, Removal, Getting
  <2>8. QED
    BY <1>1, <1>2, <1>3, <1>6, <2>6, <2>7, HeadStands
<1>7. WalkInv'
  BY <1>1, <1>2, <1>6, WalkMoves
<1>8. ASSUME "get" \notin overlap, ~undefined, th'[s].pc \in Getting
      PROVE  \E m, L : Follows(m, L, th'[s], list_net_statistics, heap,
                               allocated)
  <2>1. PICK m, L : Follows(m, L, th[s], list_net_statistics, heap, allocated)
    BY <1>1, <1>4, <1>8 DEF GetInv
  <2>2. /\ Path(m, L, NULL, heap, allocated) /\ m \in Nat
        /\ From(m, L, NULL) = list_net_statistics /\ th[s].n = m
    BY <2>1, <1>2 DEF Follows, Path
  <2>3. /\ th'[s].pc = "fill" /\ th'[s].p = list_net_statistics
        /\ th'[s].n = m /\ th'[s].i = 0 /\ th'[s].names = {}
    BY <1>2, <1>8, <2>2 DEF Getting
  <2>4. list_net_statistics = Nth(m, L, 0 + 1)
    BY <2>2 DEF From, Nth
  <2>5. {heap[L[k]].intf_name : k \in 1..0} = {}
    OBVIOUS
  <2>6. 0 <= m
    BY <2>2
  <2>7. Follows(m, L, th'[s], list_net_statistics, heap, allocated)
    BY <2>2, <2>3, <2>4, <2>5, <2>6 DEF Follows
  <2>8. QED
    BY <2>7
<1>9. GetInv'
  BY <1>1, <1>2, <1>8, GetMoves
<1>10. QED
  BY <1>2, <1>3, <1>5, <1>7, <1>9 DEF Inv

LEMMA fill_Keeps ==
    ASSUME Inv, NEW s \in Servlet, get_all_fill(s)
    PROVE  Inv'
<1>1. /\ TypeInv /\ MetInv /\ ListInv /\ WalkInv /\ GetInv /\ s \in Thread
      /\ NULL \notin Node
  BY NetConstants DEF Inv, Thread
<1>2. /\ TypeInv' /\ Moved(s) /\ SameList
      /\ th[s].pc = "fill" /\ th[s].p \in Node
      /\ undefined' = (undefined \/ th[s].p \notin allocated)
      /\ overrun' = (overrun \/ th[s].i >= th[s].n)
      /\ th'[s].pc = "fill" /\ th'[s].n = th[s].n
      /\ th'[s].i = th[s].i + 1
      /\ \E x \in Read(th[s].p) :
            /\ th'[s].p = x.next
            /\ th'[s].names = th[s].names \cup {x.intf_name}
  BY <1>1, fill_Step
<1>3. MetInv' /\ overlap \subseteq overlap'
  BY <1>2 DEF Moved
<1>4. /\ th[s].pc \in Walker /\ th[s].pc \in Getting
      /\ th[s].pc \notin Change /\ th'[s].pc \notin Change
  BY <1>2 DEF Walker, Walk, Change, Removal, Getting
<1>5. th[s].n \in Nat /\ th[s].i \in Nat
  BY <1>1 DEF TypeInv, Record
<1>6. ASSUME th[s].p \in allocated
      PROVE  /\ undefined' = undefined /\ th'[s].p = heap[th[s].p].next
             /\ th'[s].names = th[s].names \cup {heap[th[s].p].intf_name}
  <2>1. /\ th'[s].p = heap[th[s].p].next
        /\ th'[s].names = th[s].names \cup {heap[th[s].p].intf_name}
    BY <1>1, <1>2, <1>6, ReadCell
  <2>2. undefined' = undefined
    BY <1>1, <1>2, <1>6 DEF TypeInv
  <2>3. QED
    BY <2>1, <2>2
<1>7. ListInv'
  BY <1>1, <1>2, <1>4, ListQuiet
<1>8. ASSUME "removal" \notin overlap'
      PROVE  undefined' = undefined /\ OnList(th'[s], heap, allocated)
  <2>1. OnList(th[s], heap, allocated)
    BY <1>1, <1>3, <1>4, <1>8 DEF WalkInv
  <2>2. th[s].p \in allocated
    BY <1>2, <2>1, WalkReads DEF OnList
  <2>3. OnList(th'[s], heap, allocated)
    BY <1>2, <1>5, <1>6, <2>1, <2>2, NextStands
  <2>4. QED
    BY <1>6, <2>2, <2>3
<1>9. WalkInv'
  BY <1>1, <1>2, <1>8, WalkMoves
<1>10. ASSUME "get" \notin overlap, ~undefined, ~undefined'
       PROVE  /\ ~overrun => ~overrun'
              /\ \E m, L : Follows(m, L, th'[s], list_net_statistics, heap,
                                   allocated)
  <2>1. PICK m, L : Follows(m, L, th[s], list_net_statistics, heap, allocated)
    BY <1>1, <1>4, <1>10 DEF GetInv
  <2>2. /\ Path(m, L, NULL, heap, allocated) /\ m \in Nat
        /\ L \in [1..m -> Node]
        /\ From(m, L, NULL) = list_net_statistics
        /\ th[s].n = m /\ th[s].i <= m /\ th[s].p = Nth(m, L, th[s].i + 1)
        /\ th[s].names = {heap[L[k]].intf_name : k \in 1..th[s].i}
    BY <2>1, <1>2 DEF Follows, Path
  <2>3. th[s].p \in allocated
    BY <1>2, <1>10
  <2>4. PICK i : i = th[s].i
    OBVIOUS
  <2>5. i \in Nat /\ i + 1 \in 1..m /\ th[s].p = L[i + 1] /\ i < m
    BY <1>1, <1>2, <1>5, <2>2, <2>4 DEF Nth
  <2>6. ~overrun => ~overrun'
    <3>1. ~(th[s].i >= th[s].n)
      BY <2>2, <2>4, <2>5
    <3>2. QED
      BY <1>2, <3>1
  <2>7. heap[L[i + 1]].next = IF i + 1 < m THEN L[(i + 1) + 1] ELSE NULL
    BY <2>2, <2>5 DEF Path
  <2>8. (i + 1 < m <=> (i + 1) + 1 \in 1..m) /\ i + 1 <= m
    BY <2>2, <2>5
  <2>9. th'[s].p = Nth(m, L, (i + 1) + 1)
    BY <1>6, <2>3, <2>5, <2>7, <2>8 DEF Nth
  <2>10. th'[s].names = {heap[L[k]].intf_name : k \in 1..(i + 1)}
    <3>1. th'[s].names = {heap[L[k]].intf_name : k \in 1..i}
                         \cup {heap[L[i + 1]].intf_name}
      BY <1>6, <2>2, <2>3, <2>4, <2>5
    <3>2. \A k : k \in 1..(i + 1) <=> k \in 1..i \/ k = i + 1
      BY <2>5
    <3>3. QED
      BY <3>1, <3>2, Zenon
  <2>11. Follows(m, L, th'[s], list_net_statistics, heap, allocated)
    BY <1>2, <2>2, <2>4, <2>8, <2>9, <2>10 DEF Follows
  <2>12. QED
    BY <2>6, <2>11
<1>11. GetInv'
  <2>1. undefined => undefined'
    BY <1>2
  <2>2. QED
    BY <1>1, <1>2, <1>10, <2>1, GetMoves
<1>12. QED
  BY <1>2, <1>3, <1>7, <1>9, <1>11 DEF Inv

LEMMA return_Keeps ==
    ASSUME Inv, NEW s \in Servlet, get_all_return(s)
    PROVE  Inv'
<1>1. /\ TypeInv /\ MetInv /\ ListInv /\ WalkInv /\ GetInv /\ s \in Thread
  BY DEF Inv, Thread
<1>2. /\ TypeInv' /\ Moved(s) /\ SameList
      /\ th[s].pc = "fill" /\ th[s].p = NULL /\ th'[s].pc = "idle"
      /\ undefined' = undefined /\ overrun' = (overrun \/ th[s].i < th[s].n)
  BY <1>1, return_Step, IdleOK
<1>3. /\ th[s].pc \notin Change /\ th'[s].pc \notin Change
      /\ th'[s].pc \notin Walker /\ th'[s].pc \notin Getting
  BY <1>2 DEF Walker, Walk, Change, Removal, Getting
<1>4. ListInv'
  BY <1>1, <1>2, <1>3, ListQuiet
<1>5. WalkInv'
  BY <1>1, <1>2, <1>3, WalkMoves
<1>6. ASSUME "get" \notin overlap, ~undefined
      PROVE  ~overrun => ~overrun'
  <2>1. PICK m, L : Follows(m, L, th[s], list_net_statistics, heap, allocated)
    BY <1>1, <1>2, <1>6 DEF GetInv, Getting
  <2>2. /\ m \in Nat /\ L \in [1..m -> Node]
        /\ th[s].n = m /\ th[s].i <= m /\ NULL = Nth(m, L, th[s].i + 1)
    BY <1>2, <2>1 DEF Follows, Path
  <2>3. th[s].i \in Nat /\ NULL \notin Node
    BY <1>1, NetConstants DEF TypeInv, Record
  <2>4. th[s].i = m
    BY <2>2, <2>3 DEF Nth
  <2>5. ~(th[s].i < th[s].n)
    BY <2>2, <2>3, <2>4
  <2>6. QED
    BY <1>2, <2>5
<1>7. GetInv'
  BY <1>1, <1>2, <1>3, <1>6, GetMoves
<1>8. QED
  BY <1>2, <1>4, <1>5, <1>7 DEF Inv, Moved

LEMMA process_Keeps ==
    ASSUME Inv, NEW s \in Servlet, process_msg_mean_sta_statistics(s)
    PROVE  Inv'
<1>1. /\ TypeInv /\ MetInv /\ ListInv /\ WalkInv /\ GetInv /\ s \in Thread
  BY DEF Inv, Thread
<1>2. /\ TypeInv' /\ Moved(s) /\ SameList /\ th[s].pc = "idle"
      /\ undefined' = undefined /\ overrun' = overrun
      /\ \/ /\ th'[s].pc \in {"add", "remove", "count"}
            /\ th'[s].p = list_net_statistics /\ th'[s].q = NULL
            /\ th'[s].n = 0
         \/ th'[s].pc = "time"
  BY <1>1, process_Step
<1>3. /\ MetInv' /\ overlap \subseteq overlap'
      /\ \A u \in Servlet : u # s => th'[u] = th[u]
  BY <1>2 DEF Moved, Thread
<1>4. ListInv'
  <2>1. ASSUME NEW m, NEW L, TheList(m, L)
        PROVE  /\ Position(m, L, th'[s], allocated)
               /\ Knows(m, L, th'[s], list_net_statistics, heap, allocated)
    <3>1. m \in Nat /\ list_net_statistics = Nth(m, L, 1)
      BY <2>1 DEF TheList, Chain, Path
    <3>2. 1 \in 1..(m + 1) /\ Nth(m, L, 1 - 1) = NULL
      BY <3>1 DEF Nth
    <3>3. Position(m, L, th'[s], allocated)
      BY <1>2, <3>1, <3>2 DEF Position
    <3>4. Knows(m, L, th'[s], list_net_statistics, heap, allocated)
      BY <1>2, <3>1, <3>2 DEF Knows
    <3>5. QED
      BY <3>3, <3>4
  <2>2. th[s].pc \notin {"publish", "jump", "free"}
    BY <1>2
  <2>3. QED
    BY <1>1, <1>2, <1>3, <2>1, <2>2, ListKept
<1>5. ASSUME "removal" \notin overlap', th'[s].pc \in Walker
      PROVE  OnList(th'[s], heap, allocated)
  <2>1. th'[s].pc # "time"
    BY <1>5 DEF Walker, Walk, Change, Removal, Getting
  <2>2. QED
    BY <1>1, <1>2, <1>3, <1>5, <2>1, HeadStands
<1>6. WalkInv'
  BY <1>1, <1>2, <1>5, WalkMoves
<1>7. ASSUME th'[s].pc \in Getting
      PROVE  \E m, L : Follows(m, L, th'[s], list_net_statistics, heap,
                               allocated)
  <2>1. PICK L : L = [j \in 1..0 |-> j]
    OBVIOUS
  <2>2. L \in [1..0 -> Node] /\ 0 \in Nat
    BY <2>1
  <2>3. /\ th'[s].pc = "count" /\ th'[s].p = list_net_statistics
        /\ th'[s].n = 0
    BY <1>2, <1>7 DEF Getting
  <2>4. /\ Path(0, L, th'[s].p, heap, allocated)
        /\ From(0, L, th'[s].p) = list_net_statistics
    BY <2>2, <2>3 DEF Path, From
  <2>5. Follows(0, L, th'[s], list_net_statistics, heap, allocated)
    BY <2>3, <2>4 DEF Follows
  <2>6. QED
    BY <2>5
<1>8. GetInv'
  BY <1>1, <1>2, <1>7, GetMoves
<1>9. QED
  BY <1>2, <1>3, <1>4, <1>6, <1>8 DEF Inv

LEMMA loop_Keeps ==
    ASSUME Inv, NEW c \in Collector, collector_loop(c)
    PROVE  Inv'
<1>1. /\ TypeInv /\ MetInv /\ ListInv /\ WalkInv /\ GetInv /\ c \in Thread
  BY DEF Inv, Thread
<1>2. /\ TypeInv' /\ Moved(c) /\ SameList /\ th[c].pc = "loop"
      /\ undefined' = undefined /\ overrun' = overrun
      /\ \/ th'[c].pc = "update" /\ th'[c].p = list_net_statistics
         \/ th'[c].pc = "idle"
  BY <1>1, loop_Step, IdleOK
<1>3. MetInv' /\ overlap \subseteq overlap'
  BY <1>2 DEF Moved
<1>4. /\ th[c].pc \notin Change /\ th'[c].pc \notin Change
      /\ th'[c].pc \notin Getting
      /\ th'[c].pc = "idle" => th'[c].pc \notin Walker
  BY <1>2 DEF Walker, Walk, Change, Removal, Getting
<1>5. ListInv'
  BY <1>1, <1>2, <1>4, ListQuiet
<1>6. ASSUME "removal" \notin overlap', th'[c].pc \in Walker
      PROVE  OnList(th'[c], heap, allocated)
  BY <1>1, <1>2, <1>3, <1>4, <1>6, HeadStands
<1>7. WalkInv'
  BY <1>1, <1>2, <1>6, WalkMoves
<1>8. GetInv'
  BY <1>1, <1>2, <1>4, GetMoves
<1>9. QED
  BY <1>2, <1>3, <1>5, <1>7, <1>8 DEF Inv

LEMMA read_Keeps ==
    ASSUME Inv, NEW c \in Collector, update_means_read(c)
    PROVE  Inv'
<1>1. /\ TypeInv /\ MetInv /\ ListInv /\ WalkInv /\ GetInv /\ c \in Thread
  BY DEF Inv, Thread
<1>2. /\ TypeInv' /\ Moved(c) /\ SameList /\ th[c].pc = "update"
      /\ overrun' = overrun
      /\ \/ th'[c].pc = "sleep" /\ undefined' = undefined
         \/ /\ th'[c].pc = "store" /\ th'[c].p = th[c].p /\ th[c].p \in Node
            /\ undefined' = (undefined \/ th[c].p \notin allocated)
  BY <1>1, read_Step
<1>3. MetInv' /\ overlap \subseteq overlap'
  BY <1>2 DEF Moved
<1>4. /\ th[c].pc \notin Change /\ th'[c].pc \notin Change
      /\ th'[c].pc \notin Getting /\ th[c].pc \in Walker
      /\ th'[c].pc = "sleep" => th'[c].pc \notin Walker
  BY <1>2 DEF Walker, Walk, Change, Removal, Getting
<1>5. ListInv'
  BY <1>1, <1>2, <1>4, ListQuiet
<1>6. ASSUME "removal" \notin overlap', th'[c].pc = "store"
      PROVE  undefined' = undefined /\ OnList(th'[c], heap, allocated)
  <2>1. PICK m, L, j : Stands(m, L, j, th[c], heap, allocated)
    BY <1>1, <1>3, <1>4, <1>6 DEF WalkInv, OnList
  <2>2. /\ th'[c].p = th[c].p /\ th[c].p \in Node
        /\ undefined' = (undefined \/ th[c].p \notin allocated)
    BY <1>2, <1>6
  <2>3. th[c].p \in allocated
    BY <2>1, <2>2, WalkReads
  <2>4. undefined' = undefined
    BY <1>1, <2>2, <2>3 DEF TypeInv
  <2>5. Stands(m, L, j, th'[c], heap, allocated)
    BY <1>6, <2>1, <2>2 DEF Stands
  <2>6. QED
    BY <2>4, <2>5 DEF OnList
<1>7. WalkInv'
  BY <1>1, <1>2, <1>4, <1>6, WalkMoves
<1>8. GetInv'
  <2>1. undefined => undefined'
    BY <1>2
  <2>2. QED
    BY <1>1, <1>2, <1>4, <2>1, GetMoves
<1>9. QED
  BY <1>2, <1>3, <1>5, <1>7, <1>8 DEF Inv

LEMMA store_Keeps ==
    ASSUME Inv, NEW c \in Collector, update_means_store(c)
    PROVE  Inv'
<1>1. /\ TypeInv /\ MetInv /\ ListInv /\ WalkInv /\ GetInv /\ c \in Thread
  BY DEF Inv, Thread
<1>2. /\ TypeInv' /\ Moved(c) /\ SameList
      /\ th[c].pc = "store" /\ th[c].p \in Node
      /\ undefined' = (undefined \/ th[c].p \notin allocated)
      /\ overrun' = overrun
      /\ th'[c].pc = "update"
      /\ \E x \in Read(th[c].p) : th'[c].p = x.next
  BY <1>1, store_Step
<1>3. MetInv' /\ overlap \subseteq overlap'
  BY <1>2 DEF Moved
<1>4. /\ th[c].pc \notin Change /\ th'[c].pc \notin Change
      /\ th'[c].pc \notin Getting /\ th[c].pc \in Walker
  BY <1>2 DEF Walker, Walk, Change, Removal, Getting
<1>5. ListInv'
  BY <1>1, <1>2, <1>4, ListQuiet
<1>6. ASSUME "removal" \notin overlap'
      PROVE  undefined' = undefined /\ OnList(th'[c], heap, allocated)
  <2>1. OnList(th[c], heap, allocated)
    BY <1>1, <1>3, <1>4, <1>6 DEF WalkInv
  <2>2. th[c].p \in allocated
    BY <1>2, <2>1, WalkReads DEF OnList
  <2>3. undefined' = undefined
    BY <1>1, <1>2, <2>2 DEF TypeInv
  <2>4. th'[c].p = heap[th[c].p].next
    BY <1>1, <1>2, <2>2, ReadCell
  <2>5. OnList(th'[c], heap, allocated)
    BY <1>2, <2>1, <2>4, NextStands
  <2>6. QED
    BY <2>3, <2>5
<1>7. WalkInv'
  BY <1>1, <1>2, <1>6, WalkMoves
<1>8. GetInv'
  <2>1. undefined => undefined'
    BY <1>2
  <2>2. QED
    BY <1>1, <1>2, <1>4, <2>1, GetMoves
<1>9. QED
  BY <1>2, <1>3, <1>5, <1>7, <1>8 DEF Inv

-----------------------------------------------------------------------------
(* The invariant and what follows from it *)

LEMMA Init_Inv == Init => Inv
<1>1. SUFFICES ASSUME Init
               PROVE  Inv
  OBVIOUS
<1>2. /\ list_net_statistics = NULL /\ heap = [x \in Node |-> Blank]
      /\ allocated = {} /\ collect_usec = -1 /\ running_thread = TRUE
      /\ th = [t \in Thread |-> Idle] /\ overlap = {}
      /\ undefined = FALSE /\ got = {} /\ overrun = FALSE
  BY <1>1 DEF Init
<1>3. IntMax \in Nat
  BY NetConstants
<1>4. th \in [Thread -> Record] /\ \A t \in Thread : Fine(th[t])
      /\ th[t].pc = "idle"
  BY <1>2, IdleOK
<1>5. TypeInv
  <2>1. heap \in [Node -> Cell] /\ list_net_statistics \in Pointer
    BY <1>2, BlankCell DEF Pointer
  <2>2. collect_usec \in -1..IntMax
    BY <1>2, <1>3
  <2>3. QED
    BY <1>2, <1>4, <2>1, <2>2 DEF TypeInv
<1>6. MetInv
  <2>1. \A pcs : (\A p \in pcs : p # "idle")
                    => {t \in Thread : th[t].pc \in pcs} = {}
    BY <1>4
  <2>2. Met(th) = {}
    BY <2>1 DEF Met
  <2>3. QED
    BY <2>2 DEF MetInv
<1>7. \A t \in Thread : /\ th[t].pc \notin Change /\ th[t].pc \notin Walker
                        /\ th[t].pc \notin Getting
  BY <1>4 DEF Walker, Walk, Change, Removal, Getting
<1>8. ListInv
  <2>1. PICK L : L = [j \in 1..0 |-> j]
    OBVIOUS
  <2>2. L \in [1..0 -> Node] /\ 0 \in Nat /\ 1..0 = {}
    BY <2>1
  <2>3. Chain(0, L, heap, allocated)
    BY <2>2 DEF Chain, Path
  <2>4. list_net_statistics = Nth(0, L, 1)
    BY <1>2, <2>2 DEF Nth
  <2>5. \A s \in Servlet :
           /\ Position(0, L, th[s], allocated)
           /\ Knows(0, L, th[s], list_net_statistics, heap, allocated)
    BY <1>7, AwayKnows DEF Thread
  <2>6. Sound(0, L)
    BY <1>2, <2>2, <2>5 DEF Sound
  <2>7. TheList(0, L)
    BY <2>3, <2>4, <2>5, <2>6 DEF TheList
  <2>8. QED
    BY <2>7 DEF ListInv
<1>9. WalkInv /\ GetInv
  BY <1>2, <1>7 DEF WalkInv, GetInv
<1>10. QED
  BY <1>5, <1>6, <1>8, <1>9 DEF Inv

LEMMA Stutter_Keeps == Inv /\ UNCHANGED vars => Inv'
<1>1. SUFFICES ASSUME Inv, UNCHANGED vars
               PROVE  Inv'
  OBVIOUS
<1>2. TypeInv' /\ Aside
  <2>1. /\ list_net_statistics' = list_net_statistics /\ heap' = heap
        /\ allocated' = allocated /\ collect_usec' = collect_usec
        /\ running_thread' = running_thread /\ th' = th
        /\ overlap' = overlap /\ undefined' = undefined /\ got' = got
        /\ overrun' = overrun
    BY <1>1 DEF vars, shared, ghosts
  <2>2. TypeInv'
    BY <1>1, <2>1 DEF Inv, TypeInv
  <2>3. Met(th') \subseteq overlap'
    BY <1>1, <2>1 DEF Inv, MetInv
  <2>4. Aside
    BY <2>1, <2>3 DEF Aside, MetInv, SameList
  <2>5. QED
    BY <2>2, <2>4
<1>3. QED
  BY <1>1, <1>2, aside_Keeps

LEMMA Next_Keeps == Inv /\ [Next]_vars => Inv'
<1>1. SUFFICES ASSUME Inv, Next
               PROVE  Inv'
  BY Stutter_Keeps
<1>2. TypeInv
  BY <1>1 DEF Inv
<1>3. CASE \E s \in Servlet : process_msg_mean_sta_statistics(s)
  BY <1>1, <1>3, process_Keeps
<1>4. CASE \E s \in Servlet : Serve(s)
  <2>1. PICK s \in Servlet : Serve(s)
    BY <1>4
  <2>2. CASE \/ set_timed_stop(s) \/ set_timed_stopped(s)
             \/ set_timed_check(s) \/ set_timed_start(s)
             \/ set_timed_create(s) \/ set_timed_assign(s)
    <3>1. TypeInv' /\ Aside
      BY <1>2, <2>2, time_Step
    <3>2. QED
      BY <1>1, <3>1, aside_Keeps
  <2>3. CASE add_intf_find(s)
    BY <1>1, <2>3, add_find_Keeps
  <2>4. CASE add_intf_insert(s)
    BY <1>1, <2>4, insert_Keeps
  <2>5. CASE add_intf_publish(s)
    BY <1>1, <2>5, publish_Keeps
  <2>6. CASE remove_intf_absent(s)
    BY <1>1, <2>6, absent_Keeps
  <2>7. CASE remove_intf_find(s)
    BY <1>1, <2>7, remove_find_Keeps
  <2>8. CASE remove_intf_unlink_head(s)
    BY <1>1, <2>8, unlink_Keeps
  <2>9. CASE remove_intf_jump(s)
    BY <1>1, <2>9, jump_Keeps
  <2>10. CASE remove_intf_free(s)
    BY <1>1, <2>10, free_Keeps
  <2>11. CASE get_all_count(s)
    BY <1>1, <2>11, count_Keeps
  <2>12. CASE get_all_alloc(s)
    BY <1>1, <2>12, alloc_Keeps
  <2>13. CASE get_all_fill(s)
    BY <1>1, <2>13, fill_Keeps
  <2>14. CASE get_all_return(s)
    BY <1>1, <2>14, return_Keeps
  <2>15. QED
    BY <2>1, <2>2, <2>3, <2>4, <2>5, <2>6, <2>7, <2>8, <2>9, <2>10, <2>11,
       <2>12, <2>13, <2>14 DEF Serve
<1>5. CASE \E c \in Collector : Collect(c)
  <2>1. PICK c \in Collector : Collect(c)
    BY <1>5
  <2>2. CASE thread_get_net_statistics(c) \/ collector_sleep(c)
    <3>1. TypeInv' /\ Aside
      BY <1>2, <2>2, rest_Step
    <3>2. QED
      BY <1>1, <3>1, aside_Keeps
  <2>3. CASE collector_loop(c)
    BY <1>1, <2>3, loop_Keeps
  <2>4. CASE update_means_read(c)
    BY <1>1, <2>4, read_Keeps
  <2>5. CASE update_means_store(c)
    BY <1>1, <2>5, store_Keeps
  <2>6. QED
    BY <2>1, <2>2, <2>3, <2>4, <2>5 DEF Collect
<1>6. QED
  BY <1>1, <1>3, <1>4, <1>5 DEF Next

\* net_statistics.c, whatever its threads do: the list is sound as long as
\* changes do not overlap, walks stay on it as long as no removal meets them,
\* and a "get" goes twice along one path as long as no change meets it.
THEOREM Invariant == Spec => []Inv
<1>1. Init => Inv
  BY Init_Inv
<1>2. Inv /\ [Next]_vars => Inv'
  BY Next_Keeps
<1>3. QED
  BY <1>1, <1>2, PTL DEF Spec

LEMMA Counted ==
    ASSUME Inv, NEW t \in Thread, "removal" \notin overlap
    PROVE  th[t].n <= Cardinality(Node) /\ th[t].i <= Cardinality(Node)
<1>1. /\ th[t].n \in Nat /\ th[t].i \in Nat /\ Fine(th[t])
      /\ Cardinality(Node) \in Nat
  BY NetConstants, FS_CardinalityType DEF Inv, TypeInv, Record
<1>2. CASE th[t].pc \in Getting
  <2>1. th[t].pc \in Walker
    BY <1>2 DEF Walker, Walk, Getting, Removal
  <2>2. PICK m, L, j : Stands(m, L, j, th[t], heap, allocated)
    BY <2>1 DEF Inv, WalkInv, OnList
  <2>3. /\ Chain(m, L, heap, allocated) /\ j \in 1..(m + 1)
        /\ th[t].pc = "count" => j = th[t].n + 1
        /\ th[t].pc = "fill" => j = th[t].i + 1 /\ th[t].n <= Cardinality(Node)
    BY <2>2 DEF Stands
  <2>4. m \in Nat /\ m <= Cardinality(Node)
    BY <2>3, ChainLength DEF Chain, Path
  <2>5. CASE th[t].pc = "count"
    <3>1. th[t].n <= m
      BY <1>1, <2>3, <2>4, <2>5
    <3>2. th[t].i = 0
      BY <1>1, <2>5 DEF Fine
    <3>3. QED
      BY <1>1, <2>4, <3>1, <3>2
  <2>6. CASE th[t].pc = "fill"
    <3>1. th[t].i <= m
      BY <1>1, <2>3, <2>4, <2>6
    <3>2. QED
      BY <1>1, <2>3, <2>4, <2>6, <3>1
  <2>7. QED
    BY <1>2, <2>5, <2>6 DEF Getting
<1>3. CASE th[t].pc \notin Getting
  BY <1>1, <1>3 DEF Fine
<1>4. QED
  BY <1>2, <1>3

\* Every variable of net_statistics.c keeps its type, and the counters of
\* get_all_mean_net_statistics never pass the number of items there can be,
\* unless a removal has met a walk of the list.
THEOREM TypeCorrect == Spec => []TypeOK
<1>1. Inv => TypeOK
  <2>1. SUFFICES ASSUME Inv
                 PROVE  TypeOK
    OBVIOUS
  <2>2. /\ list_net_statistics \in Pointer /\ heap \in [Node -> Cell]
        /\ allocated \subseteq Node /\ collect_usec \in -1..IntMax
        /\ running_thread \in BOOLEAN /\ undefined \in BOOLEAN
        /\ overrun \in BOOLEAN /\ got \subseteq Intf
        /\ overlap \subseteq {"changes", "removal", "get", "period"}
    BY <2>1 DEF Inv, TypeInv, Kinds
  <2>3. ASSUME NEW t \in Thread
        PROVE  /\ th[t].p \in Pointer /\ th[t].q \in Pointer
               /\ th[t].n \in Nat /\ th[t].i \in Nat
               /\ th[t].names \subseteq Intf
               /\ th[t].usec \in (-IntMax - 1)..IntMax
    BY <2>1 DEF Inv, TypeInv, Record
  <2>4. ASSUME NEW t \in Thread,
               th[t].n > Cardinality(Node) \/ th[t].i > Cardinality(Node)
        PROVE  MetIn({"removal"})
    <3>1. Cardinality(Node) \in Nat
      BY NetConstants, FS_CardinalityType
    <3>2. "removal" \in overlap
      BY <2>1, <2>3, <2>4, <3>1, Counted
    <3>3. QED
      BY <3>2 DEF MetIn
  <2>5. QED
    BY <2>2, <2>3, <2>4 DEF TypeOK
<1>2. QED
  BY <1>1, Invariant, PTL

\* A freed item is only touched after a removal has met a walk, and a "get"
\* only writes past its arrays after a change has met it or the list has led
\* into freed memory.
THEOREM NoWildAccessEver == Spec => []NoWildAccess
<1>1. Inv => NoWildAccess
  BY DEF Inv, WalkInv, GetInv, NoWildAccess, MetIn
<1>2. QED
  BY <1>1, Invariant, PTL

\* As long as no two connections change the list at a time, no interface is
\* listed twice and no item leaks.
THEOREM ListSoundEver == Spec => []ListSound
<1>1. Inv => ListSound
  <2>1. SUFFICES ASSUME Inv, "changes" \notin overlap
                 PROVE  /\ \A x, y \in Listed :
                              heap[x].intf_name = heap[y].intf_name => x = y
                        /\ \A x \in allocated \ Listed :
                              \E s \in Servlet :
                                 /\ th[s].p = x
                                 /\ th[s].pc \in {"publish", "jump", "free"}
    BY DEF ListSound, MetIn
  <2>2. PICK m, L : TheList(m, L)
    BY <2>1 DEF Inv, ListInv
  <2>3. /\ Chain(m, L, heap, allocated) /\ list_net_statistics = Nth(m, L, 1)
        /\ Sound(m, L)
    BY <2>1, <2>2 DEF TheList
  <2>4. Listed = {L[j] : j \in 1..m}
    BY <2>3, ListedChain DEF Listed
  <2>5. \A j, k \in 1..m :
           heap[L[j]].intf_name = heap[L[k]].intf_name => j = k
    BY <2>3 DEF Sound
  <2>6. \A x \in allocated : In(m, L, x) \/ \E s \in Servlet : Holds(th[s], x)
    BY <2>3 DEF Sound
  <2>7. ASSUME NEW x \in Listed, NEW y \in Listed,
               heap[x].intf_name = heap[y].intf_name
        PROVE  x = y
    BY <2>4, <2>5, <2>7
  <2>8. ASSUME NEW x \in allocated \ Listed
        PROVE  \E s \in Servlet : Holds(th[s], x)
    <3>1. ~In(m, L, x)
      BY <2>4, <2>8 DEF In
    <3>2. QED
      BY <2>6, <3>1
  <2>9. QED
    BY <2>7, <2>8 DEF Holds
<1>2. QED
  BY <1>1, Invariant, PTL

-----------------------------------------------------------------------------
(* The list implements the set of InterfaceSet. *)

Damaged == MetIn({"changes", "get"}) \/ undefined

\* What a step does to the set, when nothing is damaged.
SetStep ==
    \/ ListedNames' = ListedNames /\ got' = got
    \/ \E i \in Intf : ListedNames' = ListedNames \cup {i} /\ got' = got
    \/ \E i \in Intf : ListedNames' = ListedNames \ {i} /\ got' = got
    \/ got' = ListedNames /\ ListedNames' = ListedNames
    \/ got' = {} /\ ListedNames' = ListedNames

LEMMA NamesListed ==
    ASSUME NEW m, NEW L, TheList(m, L)
    PROVE  ListedNames = Names(m, L, heap) /\ Listed = {L[j] : j \in 1..m}
<1>1. Chain(m, L, heap, allocated) /\ list_net_statistics = Nth(m, L, 1)
  BY DEF TheList
<1>2. Listed = {L[j] : j \in 1..m}
  BY <1>1, ListedChain DEF Listed
<1>3. QED
  BY <1>2 DEF ListedNames, Names

LEMMA NamesListedNext ==
    ASSUME NEW m, NEW L, TheList(m, L)'
    PROVE  ListedNames' = Names(m, L, heap')
<1>1. Chain(m, L, heap', allocated') /\ list_net_statistics' = Nth(m, L, 1)
  BY DEF TheList
<1>2. Listed' = {L[j] : j \in 1..m}
  BY <1>1, ListedChain DEF Listed
<1>3. QED
  BY <1>2 DEF ListedNames, Names

LEMMA NamesPrepended ==
    ASSUME NEW m \in Nat, NEW L, NEW x, NEW h
    PROVE  Names(m + 1, Prepended(m, L, x), h)
              = Names(m, L, h) \cup {h[x].intf_name}
<1> DEFINE K == Prepended(m, L, x)
<1>1. K[1] = x /\ 1 \in 1..(m + 1)
  BY DEF Prepended
<1>2. \A j \in 1..m : j + 1 \in 1..(m + 1) /\ K[j + 1] = L[j]
  BY DEF Prepended
<1>3. \A j \in 1..(m + 1) : j = 1 \/ (j - 1 \in 1..m /\ K[j] = L[j - 1])
  BY DEF Prepended
<1> HIDE DEF K
<1>4. ASSUME NEW y \in Names(m + 1, K, h)
      PROVE  y \in Names(m, L, h) \cup {h[x].intf_name}
  BY <1>1, <1>3 DEF Names
<1>5. h[x].intf_name \in Names(m + 1, K, h)
  BY <1>1 DEF Names
<1>6. ASSUME NEW y \in Names(m, L, h)
      PROVE  y \in Names(m + 1, K, h)
  BY <1>2 DEF Names
<1>7. QED
  BY <1>4, <1>5, <1>6 DEF K

\* The list K has the items of L without the j-th, under the same names.
Without(k, K, m, L, j) ==
    Names(k, K, heap') = Names(m, L, heap) \ {heap[L[j]].intf_name}

LEMMA NamesWithout ==
    ASSUME NEW m, NEW L \in [1..m -> Node], NEW k, NEW K, NEW j \in 1..m,
           ~In(k, K, L[j]),
           \A x : In(m, L, x) => x = L[j] \/ In(k, K, x),
           \A x : In(k, K, x) => In(m, L, x),
           \A y \in Node : heap'[y].intf_name = heap[y].intf_name,
           \A a, b \in 1..m : heap[L[a]].intf_name = heap[L[b]].intf_name => a = b
    PROVE  Without(k, K, m, L, j)
<1>1. ASSUME NEW y \in Names(k, K, heap')
      PROVE  y \in Names(m, L, heap) \ {heap[L[j]].intf_name}
  <2>1. PICK b \in 1..k : y = heap'[K[b]].intf_name
    BY <1>1 DEF Names
  <2>2. In(k, K, K[b])
    BY DEF In
  <2>3. PICK a \in 1..m : L[a] = K[b]
    BY <2>2 DEF In
  <2>4. a # j
    BY <2>2, <2>3
  <2>5. y = heap[L[a]].intf_name
    BY <2>1, <2>3
  <2>6. y # heap[L[j]].intf_name
    BY <2>4, <2>5
  <2>7. QED
    BY <2>5, <2>6 DEF Names
<1>2. ASSUME NEW y \in Names(m, L, heap) \ {heap[L[j]].intf_name}
      PROVE  y \in Names(k, K, heap')
  <2>1. PICK a \in 1..m : y = heap[L[a]].intf_name
    BY <1>2 DEF Names
  <2>2. L[a] # L[j]
    BY <1>2, <2>1
  <2>3. In(m, L, L[a])
    BY DEF In
  <2>4. PICK b \in 1..k : K[b] = L[a]
    BY <2>2, <2>3 DEF In
  <2>5. y = heap'[K[b]].intf_name
    BY <2>1, <2>4
  <2>6. QED
    BY <2>5 DEF Names
<1>3. QED
  BY <1>1, <1>2 DEF Without

\* A step that leaves the list alone.
LEMMA SameNames ==
    ASSUME SameList
    PROVE  ListedNames' = ListedNames
BY DEF SameList, ListedNames, Listed

LEMMA insert_Set ==
    ASSUME Inv, NEW s \in Servlet, add_intf_insert(s),
           "changes" \notin overlap'
    PROVE  SetStep
<1>1. TypeInv /\ MetInv /\ ListInv
  BY DEF Inv
<1>2. got' = got
  BY <1>1, insert_Step
<1>3. PICK m, L : /\ TheList(m, L) /\ TheList(m, L)'
                  /\ \A j \in 1..m : heap'[L[j]] = heap[L[j]]
  BY <1>1, insert_List
<1>4. ListedNames = Names(m, L, heap) /\ ListedNames' = Names(m, L, heap')
  BY <1>3, NamesListed, NamesListedNext
<1>5. Names(m, L, heap') = Names(m, L, heap)
  BY <1>3 DEF Names
<1>6. QED
  BY <1>2, <1>4, <1>5 DEF SetStep

LEMMA free_Set ==
    ASSUME Inv, NEW s \in Servlet, remove_intf_free(s),
           "changes" \notin overlap'
    PROVE  SetStep
<1>1. TypeInv /\ MetInv /\ ListInv
  BY DEF Inv
<1>2. got' = got
  BY <1>1, free_Step
<1>3. PICK m, L : /\ TheList(m, L) /\ TheList(m, L)'
                  /\ \A j \in 1..m : heap'[L[j]] = heap[L[j]]
  BY <1>1, free_List
<1>4. ListedNames = Names(m, L, heap) /\ ListedNames' = Names(m, L, heap')
  BY <1>3, NamesListed, NamesListedNext
<1>5. Names(m, L, heap') = Names(m, L, heap)
  BY <1>3 DEF Names
<1>6. QED
  BY <1>2, <1>4, <1>5 DEF SetStep

LEMMA publish_Set ==
    ASSUME Inv, NEW s \in Servlet, add_intf_publish(s),
           "changes" \notin overlap'
    PROVE  SetStep
<1>1. TypeInv /\ MetInv /\ ListInv /\ WalkInv
  BY DEF Inv
<1>2. got' = got /\ heap' = heap /\ th[s].p \in Node
  BY <1>1, publish_Step
<1>3. PICK m, L, k, K :
         /\ TheList(m, L) /\ TheList(k, K)'
         /\ k = m + 1 /\ K = Prepended(m, L, th[s].p) /\ m \in Nat
  BY <1>1, publish_List
<1>4. ListedNames = Names(m, L, heap) /\ ListedNames' = Names(k, K, heap)
  BY <1>2, <1>3, NamesListed, NamesListedNext
<1>5. Names(k, K, heap) = Names(m, L, heap) \cup {heap[th[s].p].intf_name}
  BY <1>3, NamesPrepended
<1>6. heap[th[s].p].intf_name \in Intf
  BY <1>1, <1>2 DEF TypeInv, Cell
<1>7. QED
  BY <1>2, <1>4, <1>5, <1>6 DEF SetStep

\* The list goes on without one of its items, or as it was.
LEMMA DropsOne ==
    ASSUME TypeInv, "changes" \notin overlap,
           NEW m, NEW L, NEW k, NEW K, TheList(m, L), TheList(k, K)',
           \/ k = m /\ K = L
           \/ \E j \in 1..m : k = m - 1 /\ K = Dropped(m, L, j),
           \A y \in Node : heap'[y].intf_name = heap[y].intf_name,
           got' = got
    PROVE  SetStep
<1>1. ListedNames = Names(m, L, heap) /\ ListedNames' = Names(k, K, heap')
  BY NamesListed, NamesListedNext
<1>2. /\ Chain(m, L, heap, allocated) /\ L \in [1..m -> Node]
      /\ \A i, j \in 1..m :
            heap[L[i]].intf_name = heap[L[j]].intf_name => i = j
  BY DEF TheList, Sound, Chain, Path
<1>3. CASE k = m /\ K = L
  <2>1. \A j \in 1..m : heap'[L[j]].intf_name = heap[L[j]].intf_name
    BY <1>2
  <2>2. Names(k, K, heap') = Names(m, L, heap)
    BY <1>3, <2>1 DEF Names
  <2>3. QED
    BY <1>1, <2>2 DEF SetStep
<1>4. ASSUME NEW j \in 1..m, k = m - 1, K = Dropped(m, L, j)
      PROVE  SetStep
  <2>1. Without(k, K, m, L, j)
    <3>1. /\ ~In(k, K, L[j])
          /\ \A x : In(m, L, x) => x = L[j] \/ In(k, K, x)
          /\ \A x : In(k, K, x) => In(m, L, x)
      BY <1>2, <1>4, DroppedDistinct
    <3>2. QED
      BY <1>2, <3>1, NamesWithout
  <2>2. heap[L[j]].intf_name \in Intf
    BY <1>2 DEF TypeInv, Cell
  <2>3. QED
    BY <1>1, <2>1, <2>2 DEF SetStep, Without
<1>5. QED
  BY <1>3, <1>4

LEMMA unlink_Set ==
    ASSUME Inv, NEW s \in Servlet, remove_intf_unlink_head(s),
           "changes" \notin overlap, "changes" \notin overlap'
    PROVE  SetStep
<1>1. TypeInv /\ MetInv /\ ListInv
  BY DEF Inv
<1>2. got' = got /\ heap' = heap
  BY <1>1, unlink_Step
<1>3. \A y \in Node : heap'[y].intf_name = heap[y].intf_name
  BY <1>2
<1>4. PICK m, L, k, K :
         /\ TheList(m, L) /\ TheList(k, K)'
         /\ \/ k = m /\ K = L
            \/ \E j \in 1..m : k = m - 1 /\ K = Dropped(m, L, j)
  BY <1>1, unlink_List
<1>5. QED
  BY <1>1, <1>2, <1>3, <1>4, DropsOne

LEMMA jump_Set ==
    ASSUME Inv, NEW s \in Servlet, remove_intf_jump(s),
           "changes" \notin overlap, "changes" \notin overlap'
    PROVE  SetStep
<1>1. TypeInv /\ MetInv /\ ListInv
  BY DEF Inv
<1>2. got' = got
  BY <1>1, jump_Step
<1>3. PICK m, L, k, K :
         /\ TheList(m, L) /\ TheList(k, K)'
         /\ \/ k = m /\ K = L
            \/ \E j \in 1..m : k = m - 1 /\ K = Dropped(m, L, j)
         /\ \A y \in Node : heap'[y].intf_name = heap[y].intf_name
  BY <1>1, jump_List
<1>4. QED
  BY <1>1, <1>2, <1>3, DropsOne

\* What a "get" returns is what is listed.
LEMMA return_Set ==
    ASSUME Inv, NEW s \in Servlet, get_all_return(s),
           "changes" \notin overlap, "get" \notin overlap, ~undefined
    PROVE  SetStep
<1>1. /\ TypeInv /\ ListInv /\ GetInv /\ s \in Thread /\ NULL \notin Node
  BY NetConstants DEF Inv, Thread
<1>2. /\ SameList /\ th[s].pc = "fill" /\ th[s].p = NULL
      /\ got' = th[s].names
  BY <1>1, return_Step
<1>3. PICK m, L : Follows(m, L, th[s], list_net_statistics, heap, allocated)
  BY <1>1, <1>2 DEF GetInv, Getting
<1>4. /\ Path(m, L, NULL, heap, allocated) /\ m \in Nat
      /\ L \in [1..m -> Node]
      /\ From(m, L, NULL) = list_net_statistics
      /\ th[s].i <= m /\ NULL = Nth(m, L, th[s].i + 1)
      /\ th[s].names = {heap[L[k]].intf_name : k \in 1..th[s].i}
  BY <1>2, <1>3 DEF Follows, Path
<1>5. th[s].i \in Nat
  BY <1>1 DEF TypeInv, Record
<1>6. th[s].i = m
  BY <1>1, <1>4, <1>5 DEF Nth
<1>7. PICK k, K : TheList(k, K)
  BY <1>1 DEF ListInv
<1>8. /\ Path(k, K, NULL, heap, allocated) /\ k \in Nat
      /\ list_net_statistics = Nth(k, K, 1)
  BY <1>7 DEF TheList, Chain, Path
<1>9. From(m, L, NULL) = From(k, K, NULL)
  BY <1>4, <1>8 DEF From, Nth
<1>10. \A x : In(m, L, x) <=> In(k, K, x)
  BY <1>4, <1>8, <1>9, SamePath
<1>11. Listed = {L[j] : j \in 1..m}
  <2>1. Listed = {K[j] : j \in 1..k}
    BY <1>7, NamesListed
  <2>2. QED
    BY <1>10, <2>1 DEF In
<1>12. ListedNames = got'
  BY <1>2, <1>4, <1>6, <1>11 DEF ListedNames
<1>13. QED
  BY <1>2, <1>12, SameNames DEF SetStep

LEMMA Quiet_Set ==
    ASSUME SameList, got' = got \/ got' = {}
    PROVE  SetStep
BY SameNames DEF SetStep

LEMMA Next_Set ==
    ASSUME Inv, Next, ~Damaged, ~Damaged'
    PROVE  SetStep
<1>1. TypeInv
  BY DEF Inv
<1>2. /\ "changes" \notin overlap /\ "get" \notin overlap /\ ~undefined
      /\ "changes" \notin overlap'
  BY DEF Damaged, MetIn
<1>3. CASE \E s \in Servlet : process_msg_mean_sta_statistics(s)
  BY <1>1, <1>3, process_Step, Quiet_Set
<1>4. CASE \E s \in Servlet : Serve(s)
  <2>1. PICK s \in Servlet : Serve(s)
    BY <1>4
  <2>2. CASE \/ set_timed_stop(s) \/ set_timed_stopped(s)
             \/ set_timed_check(s) \/ set_timed_start(s)
             \/ set_timed_create(s) \/ set_timed_assign(s)
    <3>1. Aside
      BY <1>1, <2>2, time_Step
    <3>2. QED
      BY <3>1, Quiet_Set DEF Aside
  <2>3. CASE add_intf_find(s)
    <3>1. SameList /\ got' = got
      BY <1>1, <2>3, add_find_Step DEF add_intf_find
    <3>2. QED
      BY <3>1, Quiet_Set
  <2>4. CASE add_intf_insert(s)
    BY <1>2, <2>4, insert_Set
  <2>5. CASE add_intf_publish(s)
    BY <1>2, <2>5, publish_Set
  <2>6. CASE remove_intf_absent(s)
    BY <1>1, <2>6, absent_Step, Quiet_Set
  <2>7. CASE remove_intf_find(s)
    BY <1>1, <2>7, remove_find_Step, Quiet_Set
  <2>8. CASE remove_intf_unlink_head(s)
    BY <1>2, <2>8, unlink_Set
  <2>9. CASE remove_intf_jump(s)
    BY <1>2, <2>9, jump_Set
  <2>10. CASE remove_intf_free(s)
    BY <1>2, <2>10, free_Set
  <2>11. CASE get_all_count(s)
    BY <1>1, <2>11, count_Step, Quiet_Set
  <2>12. CASE get_all_alloc(s)
    <3>1. SameList /\ (got' = got \/ got' = {})
      BY <1>1, <2>12, alloc_Step
    <3>2. QED
      BY <3>1, Quiet_Set
  <2>13. CASE get_all_fill(s)
    BY <1>1, <2>13, fill_Step, Quiet_Set
  <2>14. CASE get_all_return(s)
    BY <1>2, <2>14, return_Set
  <2>15. QED
    BY <2>1, <2>2, <2>3, <2>4, <2>5, <2>6, <2>7, <2>8, <2>9, <2>10, <2>11,
       <2>12, <2>13, <2>14 DEF Serve
<1>5. CASE \E c \in Collector : Collect(c)
  <2>1. PICK c \in Collector : Collect(c)
    BY <1>5
  <2>2. CASE thread_get_net_statistics(c) \/ collector_sleep(c)
    <3>1. Aside
      BY <1>1, <2>2, rest_Step
    <3>2. QED
      BY <3>1, Quiet_Set DEF Aside
  <2>3. CASE collector_loop(c)
    BY <1>1, <2>3, loop_Step, Quiet_Set
  <2>4. CASE update_means_read(c)
    BY <1>1, <2>4, read_Step, Quiet_Set
  <2>5. CASE update_means_store(c)
    BY <1>1, <2>5, store_Step, Quiet_Set
  <2>6. QED
    BY <2>1, <2>2, <2>3, <2>4, <2>5 DEF Collect
<1>6. QED
  BY <1>3, <1>4, <1>5 DEF Next

\* What has been damaged stays damaged.
Worse == overlap \subseteq overlap' /\ (undefined => undefined')

LEMMA DamageStays ==
    ASSUME Inv, Next, Damaged
    PROVE  Damaged'
<1>1. TypeInv
  BY DEF Inv
<1>2. ASSUME NEW s \in Servlet, process_msg_mean_sta_statistics(s)
      PROVE  Worse
  BY <1>1, <1>2, process_Step DEF Moved, Worse
<1>3. ASSUME NEW s \in Servlet, Serve(s)
      PROVE  Worse
  <2>1. CASE \/ set_timed_stop(s) \/ set_timed_stopped(s)
             \/ set_timed_check(s) \/ set_timed_start(s)
             \/ set_timed_create(s) \/ set_timed_assign(s)
    <3>1. Aside
      BY <1>1, <2>1, time_Step
    <3>2. QED
      BY <3>1 DEF Aside, Worse
  <2>2. CASE add_intf_find(s)
    BY <1>1, <2>2, add_find_Step DEF Moved, Worse
  <2>3. CASE add_intf_insert(s)
    BY <1>1, <2>3, insert_Step DEF Moved, Worse
  <2>4. CASE add_intf_publish(s)
    BY <1>1, <2>4, publish_Step DEF Moved, Worse
  <2>5. CASE remove_intf_absent(s)
    BY <1>1, <2>5, absent_Step DEF Moved, Worse
  <2>6. CASE remove_intf_find(s)
    BY <1>1, <2>6, remove_find_Step DEF Moved, Worse
  <2>7. CASE remove_intf_unlink_head(s)
    BY <1>1, <2>7, unlink_Step DEF Moved, Worse
  <2>8. CASE remove_intf_jump(s)
    BY <1>1, <2>8, jump_Step DEF Moved, Worse
  <2>9. CASE remove_intf_free(s)
    BY <1>1, <2>9, free_Step DEF Moved, Worse
  <2>10. CASE get_all_count(s)
    BY <1>1, <2>10, count_Step DEF Moved, Worse
  <2>11. CASE get_all_alloc(s)
    BY <1>1, <2>11, alloc_Step DEF Moved, Worse
  <2>12. CASE get_all_fill(s)
    BY <1>1, <2>12, fill_Step DEF Moved, Worse
  <2>13. CASE get_all_return(s)
    BY <1>1, <2>13, return_Step DEF Moved, Worse
  <2>14. QED
    BY <1>3, <2>1, <2>2, <2>3, <2>4, <2>5, <2>6, <2>7, <2>8, <2>9, <2>10,
       <2>11, <2>12, <2>13
       DEF Serve
<1>4. ASSUME NEW c \in Collector, Collect(c)
      PROVE  Worse
  <2>1. CASE thread_get_net_statistics(c) \/ collector_sleep(c)
    <3>1. Aside
      BY <1>1, <2>1, rest_Step
    <3>2. QED
      BY <3>1 DEF Aside, Worse
  <2>2. CASE collector_loop(c)
    BY <1>1, <2>2, loop_Step DEF Moved, Worse
  <2>3. CASE update_means_read(c)
    BY <1>1, <2>3, read_Step DEF Moved, Worse
  <2>4. CASE update_means_store(c)
    BY <1>1, <2>4, store_Step DEF Moved, Worse
  <2>5. QED
    BY <1>4, <2>1, <2>2, <2>3, <2>4 DEF Collect
<1>5. Worse
  BY <1>2, <1>3, <1>4 DEF Next
<1>6. QED
  BY <1>5 DEF Worse, Damaged, MetIn

\* Seen by its callers the list of net_statistics.c is a set of interfaces to
\* which add, remove and get do what their names say, as long as no two
\* connections change it, and none changes it under a "get".
THEOREM ImplementsSetEver == Spec => ImplementsSet
<1>1. Init => Interfaces!Init
  <2>1. SUFFICES ASSUME Init
                 PROVE  Interfaces!Init
    OBVIOUS
  <2>2. list_net_statistics = NULL /\ got = {} /\ overlap = {}
        /\ undefined = FALSE /\ Inv
    BY <2>1, Init_Inv DEF Init
  <2>3. PICK m, L : TheList(m, L)
    BY <2>2 DEF Inv, ListInv
  <2>4. m \in Nat /\ L \in [1..m -> Node] /\ NULL = Nth(m, L, 1)
    BY <2>2, <2>3 DEF TheList, Chain, Path
  <2>5. 1..m = {}
    BY <2>4, NetConstants DEF Nth
  <2>6. ListedNames = {}
    BY <2>3, <2>5, NamesListed DEF Names
  <2>7. QED
    BY <2>2, <2>6 DEF Interfaces!Init, MetIn
<1>2. Inv /\ [Next]_vars
         => [Interfaces!Next]_<<ListedNames, got,
                                MetIn({"changes", "get"}) \/ undefined>>
  <2>1. SUFFICES ASSUME Inv, [Next]_vars
                 PROVE  [Interfaces!Next]_<<ListedNames, got, Damaged>>
    BY DEF Damaged
  <2>2. CASE UNCHANGED vars
    <3>1. SameList /\ got' = got /\ overlap' = overlap
          /\ undefined' = undefined
      BY <2>2 DEF vars, shared, ghosts, SameList
    <3>2. QED
      BY <3>1, SameNames DEF Damaged, MetIn
  <2>3. CASE Next /\ Damaged'
    BY <2>3 DEF Interfaces!Next, Damaged
  <2>4. CASE Next /\ ~Damaged'
    <3>1. ~Damaged
      BY <2>1, <2>4, DamageStays
    <3>2. SetStep
      BY <2>1, <2>4, <3>1, Next_Set
    <3>3. Damaged' = Damaged
      BY <2>4, <3>1 DEF Damaged
    <3>4. CASE ListedNames' = ListedNames /\ got' = got
      BY <3>3, <3>4
    <3>5. CASE \E i \in Intf :
                  ListedNames' = ListedNames \cup {i} /\ got' = got
      BY <3>5 DEF Interfaces!Next, Interfaces!Add
    <3>6. CASE \E i \in Intf : ListedNames' = ListedNames \ {i} /\ got' = got
      BY <3>6 DEF Interfaces!Next, Interfaces!Remove
    <3>7. CASE got' = ListedNames /\ ListedNames' = ListedNames
      BY <3>7 DEF Interfaces!Next, Interfaces!GetAll
    <3>8. CASE got' = {} /\ ListedNames' = ListedNames
      BY <3>8 DEF Interfaces!Next, Interfaces!Forget
    <3>9. QED
      BY <3>2, <3>4, <3>5, <3>6, <3>7, <3>8 DEF SetStep
  <2>5. QED
    BY <2>1, <2>2, <2>3, <2>4
<1>3. QED
  BY <1>1, <1>2, Invariant, PTL DEF Spec, ImplementsSet, Interfaces!Spec
=============================================================================
