---------------------------- MODULE ApListProofs ----------------------------
(* Theorems about the neighbour table, for every table size, expiry time,   *)
(* set of BSSIDs and channel plan.                                          *)
EXTENDS ApList, TLAPS

\* Beacons are stamped with the current time: no entry is from the future.
StampsPast == \A a \in Addr : info[a].last_beacon <= clock

\* The inductive invariant: the hash is needed to know that a BSSID that is
\* not found is not in the list, the stamps to know that the head is newest.
IInv == /\ TypeOK
        /\ HashIndexesList
        /\ TableBounded
        /\ StampsPast
        /\ LeastRecentlyUsedLast
        /\ ProtectionCovers

-----------------------------------------------------------------------------
(* Lemmas about the list primitives. *)

\* Unlinking position i keeps the order of the other positions.
LEMMA WithoutAt ==
    ASSUME NEW S, NEW s \in Seq(S), NEW i \in 1..Len(s)
    PROVE  LET t == Without(s, i)
           IN  /\ t \in Seq(S)
               /\ Len(t) = Len(s) - 1
               /\ \A j \in 1..(Len(s) - 1) :
                    t[j] = IF j < i THEN s[j] ELSE s[j + 1]
<1> DEFINE n == Len(s) - 1
           t == [j \in 1..n |-> IF j < i THEN s[j] ELSE s[j + 1]]
<1>1. n \in Nat
  BY DEF n
<1>2. \A j \in 1..n : t[j] \in S
  BY <1>1
<1>3. t \in Seq(S)
  BY <1>1, <1>2
<1>4. Len(t) = n
  BY <1>1, <1>3
<1> QED
  BY <1>3, <1>4 DEF Without

\* IndexOf finds a position of an element that is in the sequence.
LEMMA IndexOfFound ==
    ASSUME NEW S, NEW s \in Seq(S), NEW a, \E i \in DOMAIN s : s[i] = a
    PROVE  /\ IndexOf(s, a) \in 1..Len(s)
           /\ s[IndexOf(s, a)] = a
  BY DEF IndexOf

-----------------------------------------------------------------------------
(* What a beacon does to the list, common to its three cases (known entry   *)
(* at the head, known entry elsewhere, new entry): the entry ends at the    *)
(* head, and every other position i of the new list holds the entry that    *)
(* was at position m[i] of the old one, in the same order.                  *)
Reordered(a, m) ==
    /\ ap_list' \in Seq(Addr)
    /\ Len(ap_list') >= 1
    /\ ap_list'[1] = a
    /\ m \in [2..Len(ap_list') -> 1..Len(ap_list)]
    /\ \A i \in 2..Len(ap_list') : /\ ap_list'[i] = ap_list[m[i]]
                                   /\ ap_list[m[i]] # a
    /\ \A i, j \in 2..Len(ap_list') : i < j => m[i] < m[j]

\* MoveToHead of a listed entry reorders the list and loses nothing.
LEMMA MoveToHeadReorders ==
    ASSUME TypeOK, HashIndexesList, NEW a \in Listed, MoveToHead(a)
    PROVE  /\ \E m : Reordered(a, m)
           /\ Len(ap_list') = Len(ap_list)
           /\ \A x : x \in Listed' <=> x \in Listed
<1> DEFINE k == IndexOf(ap_list, a)
           m == [i \in 2..Len(ap_list) |-> IF i <= k THEN i - 1 ELSE i]
<1>0. ap_list \in Seq(Addr) /\ a \in Addr
  BY DEF TypeOK, Listed
<1>1. k \in 1..Len(ap_list) /\ ap_list[k] = a
  BY <1>0, IndexOfFound DEF Listed
<1>2. \A i \in 1..Len(ap_list) : ap_list[i] = a => i = k
  BY <1>0, <1>1 DEF HashIndexesList
<1>3. /\ ap_list' \in Seq(Addr)
      /\ Len(ap_list') = Len(ap_list)
      /\ ap_list'[1] = a
      /\ \A i \in 2..Len(ap_list) :
            ap_list'[i] = IF i <= k THEN ap_list[i - 1] ELSE ap_list[i]
  <2>1. CASE ap_list[1] = a
    <3>1. k = 1
      BY <1>0, <1>1, <1>2, <2>1
    <3> QED
      BY <1>0, <1>1, <2>1, <3>1 DEF MoveToHead
  <2>2. CASE ap_list[1] # a
    <3> DEFINE w == Without(ap_list, k)
    <3>1. /\ w \in Seq(Addr)
          /\ Len(w) = Len(ap_list) - 1
          /\ \A j \in 1..(Len(ap_list) - 1) :
                w[j] = IF j < k THEN ap_list[j] ELSE ap_list[j + 1]
      BY <1>0, <1>1, WithoutAt
    <3>2. ap_list' = ap_ap_list_add(w, a)
      BY <2>2 DEF MoveToHead, ap_ap_list_del
    <3> HIDE DEF w, k
    <3>3. /\ ap_list' \in Seq(Addr)
          /\ Len(ap_list') = Len(w) + 1
          /\ ap_list'[1] = a
          /\ \A i \in 2..Len(ap_list') : ap_list'[i] = w[i - 1]
      BY <1>0, <3>1, <3>2 DEF ap_ap_list_add
    <3>4. \A i \in 2..Len(ap_list) :
            /\ i - 1 \in 1..(Len(ap_list) - 1)
            /\ (i - 1) + 1 = i
            /\ (i - 1 < k) <=> (i <= k)
      BY <1>0, <1>1
    <3>5. \A i \in 2..Len(ap_list) :
            ap_list'[i] = IF i <= k THEN ap_list[i - 1] ELSE ap_list[i]
      BY <1>0, <3>1, <3>3, <3>4
    <3> QED
      BY <1>0, <1>1, <3>1, <3>3, <3>5
  <2> QED
    BY <2>1, <2>2
<1> HIDE DEF k
<1>4. Reordered(a, m)
  BY <1>0, <1>1, <1>2, <1>3 DEF Reordered
<1>5. \A x : x \in Listed' <=> x \in Listed
  <2>1. \A i \in 1..Len(ap_list') : ap_list'[i] \in Listed
    BY <1>0, <1>1, <1>3 DEF Listed
  <2>2. \A i \in 1..Len(ap_list) : \E j \in 1..Len(ap_list') : ap_list'[j] = ap_list[i]
    <3> SUFFICES ASSUME NEW i \in 1..Len(ap_list)
                 PROVE  \E j \in 1..Len(ap_list') : ap_list'[j] = ap_list[i]
      OBVIOUS
    <3>1. CASE i = k
      BY <1>0, <1>1, <1>3, <3>1
    <3>2. CASE i < k
      <4>1. i + 1 \in 2..Len(ap_list) /\ i + 1 <= k /\ (i + 1) - 1 = i
        BY <1>0, <1>1, <3>2
      <4>2. ap_list'[i + 1] = ap_list[i]
        BY <1>3, <4>1
      <4> QED
        BY <1>0, <1>3, <4>1, <4>2
    <3>3. CASE i > k
      BY <1>0, <1>1, <1>3, <3>3
    <3> QED
      BY <1>0, <1>1, <3>1, <3>2, <3>3
  <2>3. \A x : x \in Listed' => x \in Listed
    BY <1>3, <2>1 DEF Listed
  <2>4. \A x : x \in Listed => x \in Listed'
    BY <1>0, <1>3, <2>2 DEF Listed
  <2> QED
    BY <2>3, <2>4
<1> QED
  BY <1>3, <1>4, <1>5

\* ap_ap_add of an unlisted entry: the list grows by one or, at the limit,
\* its tail makes room; the hash follows.
LEMMA AddReorders ==
    ASSUME TypeOK, HashIndexesList, TableBounded, ap_table_max_size >= 1,
           NEW a \in Addr, a \notin Listed, ap_ap_add(a)
    PROVE  /\ \E m : Reordered(a, m)
           /\ TableBounded'
           /\ \A x \in Addr : ap_hash'[x] = IF x \in Listed' THEN 1 ELSE 0
           /\ \A x \in Listed : x \in Listed' \/ x = ap_list[Len(ap_list)]
<1> DEFINE list == ap_ap_list_add(ap_list, a)
           n == Len(ap_list)
           tail == LeastRecent(list)
           m == [i \in 2..Len(ap_list') |-> i - 1]
           full == TableFull /\ tail # a
<1>0. /\ ap_list \in Seq(Addr) /\ n \in Nat
      /\ ap_hash \in [Addr -> Nat]
      /\ num_ap = n /\ n <= ap_table_max_size /\ ap_table_max_size \in Nat
  BY ConstantsOK DEF TypeOK, TableBounded
<1>1. /\ list \in Seq(Addr)
      /\ Len(list) = n + 1
      /\ list[1] = a
      /\ \A i \in 2..(n + 1) : list[i] = ap_list[i - 1]
      /\ \A i \in 1..n : list[i + 1] = ap_list[i]
  BY <1>0 DEF ap_ap_list_add
<1>a. full => /\ ap_list' = Without(list, IndexOf(list, tail))
              /\ ap_hash' = ap_ap_hash_del(ap_ap_hash_add(ap_hash, a), tail)
              /\ num_ap' = num_ap
  BY DEF ap_ap_add, ap_ap_list_del, FreeFromHash
<1>b. ~full => /\ ap_list' = list
               /\ ap_hash' = [ap_hash EXCEPT ![a] = @ + 1]
               /\ num_ap' = num_ap + 1
  BY DEF ap_ap_add, ap_ap_hash_add
<1>c. tail = list[Len(list)] /\ (TableFull <=> num_ap + 1 > ap_table_max_size)
  BY DEF LeastRecent, TableFull
<1> HIDE DEF list, tail
<1>2. \A i \in 1..n : ap_list[i] # a
  BY <1>0 DEF Listed
<1>3. \A i, j \in 1..n : ap_list[i] = ap_list[j] => i = j
  BY <1>0 DEF HashIndexesList
<1>4. ap_hash[a] = 0 /\ \A i \in 1..n : ap_hash[ap_list[i]] = 1
  BY <1>0 DEF HashIndexesList, Listed
<1>5. CASE ~full
  <2>1. /\ ap_list' = list
        /\ ap_hash' = [ap_hash EXCEPT ![a] = @ + 1]
        /\ num_ap' = num_ap + 1
    BY <1>5, <1>b
  <2>2. n + 1 <= ap_table_max_size
    <3>1. CASE n = 0
      BY <1>0, <3>1
    <3>2. CASE n > 0
      <4>1. tail = ap_list[n]
        BY <1>0, <1>1, <1>c, <3>2
      <4> QED
        BY <1>0, <1>2, <1>5, <1>c, <3>2, <4>1
    <3> QED
      BY <1>0, <3>1, <3>2
  <2>3. Reordered(a, m)
    BY <1>0, <1>1, <1>2, <2>1 DEF Reordered
  <2>4. \A x \in Addr : x \in Listed' <=> (x = a \/ x \in Listed)
    <3>1. \A i \in 1..(n + 1) : i = 1 \/ (i - 1 \in 1..n /\ list[i] = ap_list[i - 1])
      BY <1>0, <1>1
    <3>2. \A i \in 1..n : i + 1 \in 1..(n + 1)
      BY <1>0
    <3>3. 1 \in 1..(n + 1)
      BY <1>0
    <3> HIDE DEF n
    <3>4. \A x \in Addr : x \in Listed => x \in Listed'
      BY <1>0, <1>1, <2>1, <3>2 DEF Listed, n
    <3>5. \A x \in Addr : x \in Listed' => x = a \/ x \in Listed
      BY <1>0, <1>1, <2>1, <3>1 DEF Listed, n
    <3> QED
      BY <1>1, <2>1, <3>3, <3>4, <3>5 DEF Listed
  <2>5. \A x \in Addr : ap_hash'[x] = IF x \in Listed' THEN 1 ELSE 0
    BY <1>0, <1>4, <2>1, <2>4 DEF HashIndexesList
  <2>6. \A x \in Listed : x \in Listed' \/ x = ap_list[Len(ap_list)]
    BY <2>4 DEF Listed
  <2> QED
    BY <1>0, <1>1, <2>1, <2>2, <2>3, <2>5, <2>6 DEF TableBounded
<1>6. CASE full
  <2>0. tail # a
    BY <1>6
  <2>1. n >= 1 /\ tail = ap_list[n] /\ tail \in Addr
    <3>1. n # 0
      BY <1>0, <1>1, <1>6, <1>c
    <3> QED
      BY <1>0, <1>1, <1>c, <3>1
  <2>2. IndexOf(list, tail) = n + 1
    <3> DEFINE k == IndexOf(list, tail)
    <3>1. k \in 1..(n + 1) /\ list[k] = tail
      BY <1>0, <1>1, <1>c, IndexOfFound
    <3>2. k # 1
      BY <1>1, <1>6, <3>1
    <3>3. k - 1 \in 1..n /\ ap_list[k - 1] = ap_list[n]
      <4>1. k \in 2..(n + 1) /\ k - 1 \in 1..n
        BY <1>0, <3>1, <3>2
      <4> HIDE DEF k
      <4> QED
        BY <1>1, <2>1, <3>1, <4>1
    <3>4. k - 1 = n
      BY <1>0, <1>3, <2>1, <3>3
    <3> QED
      BY <1>0, <3>1, <3>4
  <2>3. /\ ap_list' = Without(list, n + 1)
        /\ ap_hash' = ap_ap_hash_del(ap_ap_hash_add(ap_hash, a), tail)
        /\ num_ap' = num_ap
    BY <1>6, <1>a, <2>2
  <2> HIDE DEF full
  <2>4. /\ ap_list' \in Seq(Addr)
        /\ Len(ap_list') = n
        /\ \A i \in 1..n : ap_list'[i] = list[i]
    <3>1. /\ n + 1 \in 1..Len(list) /\ Len(list) - 1 = n
          /\ \A i \in 1..n : i < n + 1
      BY <1>0, <1>1
    <3> HIDE DEF n
    <3>2. /\ Without(list, n + 1) \in Seq(Addr)
          /\ Len(Without(list, n + 1)) = Len(list) - 1
          /\ \A j \in 1..(Len(list) - 1) : Without(list, n + 1)[j] =
                IF j < n + 1 THEN list[j] ELSE list[j + 1]
      BY <1>1, <3>1, WithoutAt
    <3> QED
      BY <2>3, <3>1, <3>2
  <2>5. Reordered(a, m)
    <3>1. \A i \in 2..n : /\ i - 1 \in 1..n
                           /\ ap_list'[i] = ap_list[i - 1]
      <4>1. \A i \in 2..n : i \in 1..n /\ i \in 2..(n + 1) /\ i - 1 \in 1..n
        BY <1>0
      <4> HIDE DEF n
      <4> QED
        BY <1>1, <2>4, <4>1
    <3>2. n >= 1 /\ ap_list'[1] = a
      BY <1>0, <1>1, <2>1, <2>4
    <3> HIDE DEF n
    <3>3. m \in [2..n -> 1..n]
      BY <2>4, <3>1
    <3>4. \A i \in 2..n : m[i] = i - 1
      BY <2>4
    <3>5. \A i, j \in 2..n : i < j => m[i] < m[j]
      BY <1>0, <3>4
    <3> HIDE DEF m
    <3> QED
      BY <1>2, <2>4, <3>1, <3>2, <3>3, <3>4, <3>5 DEF Reordered, n
  <2>6. \A x \in Addr : x \in Listed' <=> (x = a \/ (x \in Listed /\ x # tail))
    <3>1. \A i \in 1..(n - 1) : list[i + 1] = ap_list[i] /\ ap_list[i] # tail
      <4>1. \A i \in 1..(n - 1) : i \in 1..n /\ i # n
        BY <1>0
      <4>2. n \in 1..n
        BY <1>0, <2>1
      <4> HIDE DEF n
      <4> QED
        BY <1>1, <1>3, <2>1, <4>1, <4>2
    <3>2. \A i \in 2..n : i - 1 \in 1..(n - 1) /\ ap_list'[i] = ap_list[i - 1]
      <4>1. \A i \in 2..n : i \in 1..n /\ i \in 2..(n + 1) /\ i - 1 \in 1..(n - 1)
        BY <1>0
      <4> HIDE DEF n
      <4> QED
        BY <1>1, <2>4, <4>1
    <3>3. ASSUME NEW x \in Addr, x \in Listed'
          PROVE  x = a \/ (x \in Listed /\ x # tail)
      <4>1. PICK i \in 1..n : ap_list'[i] = x
        BY <2>4, <3>3 DEF Listed
      <4>2. CASE i = 1
        BY <1>1, <2>1, <2>4, <4>1, <4>2
      <4>3. CASE i # 1
        BY <1>0, <3>1, <3>2, <4>1, <4>3 DEF Listed
      <4> QED
        BY <4>2, <4>3
    <3>4. ASSUME NEW x \in Addr, x \in Listed, x # tail
          PROVE  x \in Listed'
      <4>1. PICK i \in 1..n : ap_list[i] = x
        BY <1>0, <3>4 DEF Listed
      <4>2. i \in 1..(n - 1)
        BY <1>0, <2>1, <3>4, <4>1
      <4>3. i + 1 \in 1..n /\ ap_list'[i + 1] = x
        <5>1. i + 1 \in 1..n
          BY <1>0, <4>2
        <5> HIDE DEF n
        <5> QED
          BY <2>4, <3>1, <4>1, <4>2, <5>1
      <4> QED
        BY <2>4, <4>3 DEF Listed
    <3>5. a \in Listed'
      BY <1>1, <2>1, <2>4 DEF Listed
    <3> QED
      BY <3>3, <3>4, <3>5
  <2>7. tail \in Listed /\ ap_hash[tail] = 1
    BY <1>0, <1>4, <2>1 DEF Listed
  <2>8. \A x \in Addr : ap_hash'[x] = IF x \in Listed' THEN 1 ELSE 0
    BY <1>0, <1>4, <2>0, <2>1, <2>3, <2>6, <2>7
       DEF HashIndexesList, ap_ap_hash_add, ap_ap_hash_del
  <2>9. \A x \in Listed : x \in Listed' \/ x = ap_list[Len(ap_list)]
    BY <2>1, <2>6 DEF Listed
  <2> QED
    BY <1>0, <2>3, <2>4, <2>5, <2>8, <2>9 DEF TableBounded
<1> QED
  BY <1>5, <1>6

-----------------------------------------------------------------------------
(* The inductive invariant. *)

\* The empty table of a fresh interface satisfies it.
LEMMA InitIInv == Init => IInv
<1> SUFFICES ASSUME Init PROVE IInv
  OBVIOUS
<1>1. TypeOK
  <2>1. NoInfo \in ApInfo /\ 0 \in 0..MaxClock
    BY ConstantsOK DEF NoInfo, ApInfo
  <2>2. ap_list \in Seq(Addr) /\ ap_hash \in [Addr -> Nat] /\ num_ap \in Nat
    BY DEF Init
  <2>3. info \in [Addr -> ApInfo] /\ clock \in 0..MaxClock
    BY <2>1 DEF Init
  <2>4. /\ olbc \in BOOLEAN /\ olbc_ht \in BOOLEAN /\ conf \in Conf
        /\ forwarded \in BOOLEAN /\ heard \subseteq Addr
    BY DEF Init
  <2> QED
    BY <2>2, <2>3, <2>4 DEF TypeOK
<1>2. HashIndexesList
  BY DEF Init, HashIndexesList, Listed
<1>3. TableBounded
  BY ConstantsOK DEF Init, TableBounded
<1>4. StampsPast /\ LeastRecentlyUsedLast /\ ProtectionCovers
  BY DEF Init, StampsPast, LeastRecentlyUsedLast, ProtectionCovers, NoInfo
<1> QED
  BY <1>1, <1>2, <1>3, <1>4 DEF IInv

\* A beacon preserves it, whether the AP is known, new, or new in a full table.
LEMMA BeaconIInv ==
    ASSUME IInv, NEW b \in Beacon, ap_list_process_beacon(b)
    PROVE  IInv'
<1> DEFINE a == b.bssid
           e == [legacy |-> b.legacy, channel |-> b.channel,
                 ht_support |-> b.ht_support, last_beacon |-> clock]
<1>0. /\ a \in Addr /\ e \in ApInfo /\ clock \in 0..MaxClock
      /\ info \in [Addr -> ApInfo]
  BY DEF Beacon, ApInfo, IInv, TypeOK
<1>t. TypeOK /\ HashIndexesList /\ TableBounded
  BY DEF IInv
<1>h. ap_get_ap(a) <=> a \in Listed
  BY <1>0, <1>t DEF ap_get_ap, HashIndexesList
<1>1. /\ \E m : Reordered(a, m)
      /\ TableBounded'
      /\ \A x \in Addr : ap_hash'[x] = IF x \in Listed' THEN 1 ELSE 0
  <2>1. CASE ap_get_ap(a)
    <3>1. MoveToHead(a) /\ a \in Listed
      BY <1>h, <2>1 DEF ap_list_process_beacon
    <3>2. /\ \E m : Reordered(a, m)
          /\ Len(ap_list') = Len(ap_list)
          /\ \A x : x \in Listed' <=> x \in Listed
      BY <1>t, <3>1, MoveToHeadReorders
    <3>3. ap_hash' = ap_hash /\ num_ap' = num_ap
      BY <3>1 DEF MoveToHead
    <3> QED
      BY <1>t, <3>2, <3>3 DEF TableBounded, HashIndexesList
  <2>2. CASE ~ap_get_ap(a)
    <3>1. ap_ap_add(a) /\ a \notin Listed /\ ap_table_max_size >= 1
      BY <1>h, <2>2 DEF ap_list_process_beacon
    <3> QED
      BY <1>0, <1>t, <3>1, AddReorders
  <2> QED
    BY <2>1, <2>2
<1>2. PICK m : Reordered(a, m)
  BY <1>1
<1>3. /\ info' = Keep([info EXCEPT ![a] = e], ap_list')
      /\ olbc' = (olbc \/ ap_list_beacon_olbc(e))
      /\ olbc_ht' = (olbc_ht \/ HtRelevant(e))
      /\ forwarded' = (forwarded \/ forward_beacon # 1)
      /\ heard' = (heard \cup {a}) \cap Listed'
      /\ conf' = conf /\ clock' = clock
  BY DEF ap_list_process_beacon
<1> HIDE DEF a, e
<1>4. /\ \A i \in 1..Len(ap_list') : info'[ap_list'[i]] = [info EXCEPT ![a] = e][ap_list'[i]]
      /\ \A x \in Listed' : info'[x] = [info EXCEPT ![a] = e][x]
  BY <1>2, <1>3 DEF Keep, Reordered, Listed
<1>5. TypeOK'
  <2>1. ap_list' \in Seq(Addr) /\ ap_hash' \in [Addr -> Nat]
    <3>1. ap_hash' \in [Addr -> Nat]
      <4>1. DOMAIN ap_hash' = Addr /\ ap_hash' = [x \in Addr |-> ap_hash'[x]]
        BY <1>t DEF ap_list_process_beacon, MoveToHead, ap_ap_add, TypeOK,
                    ap_ap_hash_add, ap_ap_hash_del, FreeFromHash
      <4> QED
        BY <1>1, <4>1
    <3> QED
      BY <1>2, <3>1 DEF Reordered
  <2>2. num_ap' \in Nat
    BY <1>1, <2>1 DEF TableBounded
  <2>3. info' \in [Addr -> ApInfo]
    <3>1. NoInfo \in ApInfo
      BY ConstantsOK DEF NoInfo, ApInfo
    <3> QED
      BY <1>0, <1>3, <3>1 DEF Keep
  <2>4. olbc' \in BOOLEAN /\ olbc_ht' \in BOOLEAN /\ forwarded' \in BOOLEAN
    BY <1>3
  <2>5. conf' \in Conf /\ clock' \in 0..MaxClock
    BY <1>3, <1>t DEF TypeOK
  <2>6. heard' \subseteq Addr
    BY <1>3 DEF Listed
  <2> QED
    BY <2>1, <2>2, <2>3, <2>4, <2>5, <2>6 DEF TypeOK
<1>d. DOMAIN ap_list = 1..Len(ap_list) /\ DOMAIN ap_list' = 1..Len(ap_list')
  BY <1>5, <1>t DEF TypeOK
<1>6. HashIndexesList'
  <2>1. \A i, j \in 1..Len(ap_list') : ap_list'[i] = ap_list'[j] => i = j
    <3> SUFFICES ASSUME NEW i \in 1..Len(ap_list'), NEW j \in 1..Len(ap_list'),
                        ap_list'[i] = ap_list'[j], i < j
                 PROVE  FALSE
      BY <1>2 DEF Reordered
    <3>1. j \in 2..Len(ap_list')
      BY <1>2 DEF Reordered
    <3>2. CASE i = 1
      BY <1>2, <3>1, <3>2 DEF Reordered
    <3>3. CASE i \in 2..Len(ap_list')
      <4>1. /\ m[i] \in 1..Len(ap_list) /\ m[j] \in 1..Len(ap_list)
            /\ m[i] < m[j] /\ ap_list[m[i]] = ap_list[m[j]]
        BY <1>2, <3>1, <3>3 DEF Reordered
      <4> QED
        BY <1>d, <1>t, <4>1 DEF HashIndexesList
    <3> QED
      BY <1>2, <3>2, <3>3 DEF Reordered
  <2> QED
    BY <1>1, <1>d, <2>1 DEF HashIndexesList
<1>7. StampsPast'
  BY <1>0, <1>3 DEF Keep, IInv, StampsPast, NoInfo, ApInfo, e
<1>8. LeastRecentlyUsedLast'
  <2> SUFFICES ASSUME NEW i \in 1..Len(ap_list'), NEW j \in 1..Len(ap_list'), i < j
               PROVE  info'[ap_list'[i]].last_beacon >= info'[ap_list'[j]].last_beacon
    BY <1>d DEF LeastRecentlyUsedLast
  <2>1. /\ j \in 2..Len(ap_list') /\ m[j] \in 1..Len(ap_list)
        /\ ap_list'[j] = ap_list[m[j]] /\ ap_list[m[j]] # a
    BY <1>2 DEF Reordered
  <2>2. info'[ap_list'[j]] = info[ap_list[m[j]]] /\ ap_list[m[j]] \in Addr
    BY <1>0, <1>4, <1>t, <2>1 DEF TypeOK
  <2>3. CASE i = 1
    <3>1. info'[ap_list'[i]].last_beacon = clock
      BY <1>0, <1>2, <1>4, <2>3 DEF Reordered, e
    <3> QED
      BY <1>0, <2>2, <3>1 DEF IInv, StampsPast, ApInfo
  <2>4. CASE i \in 2..Len(ap_list')
    <3>1. /\ m[i] \in 1..Len(ap_list) /\ m[i] < m[j]
          /\ ap_list'[i] = ap_list[m[i]] /\ ap_list[m[i]] # a
      BY <1>2, <2>1, <2>4 DEF Reordered
    <3>2. info'[ap_list'[i]] = info[ap_list[m[i]]]
      BY <1>0, <1>4, <1>t, <3>1 DEF TypeOK
    <3> QED
      BY <1>d, <2>1, <2>2, <3>1, <3>2 DEF IInv, LeastRecentlyUsedLast
  <2> QED
    BY <1>2, <2>3, <2>4 DEF Reordered
<1>9. ProtectionCovers'
  <2> SUFFICES ASSUME NEW x \in Listed', x \in heard'
               PROVE  (/\ ap_list_beacon_olbc(info[x]) => olbc
                       /\ HtRelevant(info[x]) => olbc_ht)'
    BY DEF ProtectionCovers
  <2>1. CASE x = a
    <3>1. info'[x] = e
      BY <1>0, <1>4, <2>1
    <3> QED
      BY <1>3, <3>1 DEF ap_list_beacon_olbc, HtRelevant
  <2>2. CASE x # a
    <3>1. info'[x] = info[x]
      BY <1>0, <1>4, <2>2 DEF Listed
    <3>2. x \in heard
      BY <1>3, <2>2
    <3>3. x \in Listed
      <4>1. PICK i \in 1..Len(ap_list') : ap_list'[i] = x
        BY DEF Listed
      <4>2. i \in 2..Len(ap_list')
        BY <1>2, <2>2, <4>1 DEF Reordered
      <4> QED
        BY <1>2, <4>1, <4>2 DEF Reordered, Listed
    <3> QED
      BY <1>3, <3>1, <3>2, <3>3 DEF IInv, ProtectionCovers, ap_list_beacon_olbc, HtRelevant
  <2> QED
    BY <2>1, <2>2
<1> QED
  BY <1>1, <1>5, <1>6, <1>7, <1>8, <1>9 DEF IInv

\* The timer cuts an expired tail off the list.
LEMMA TimerIInv == ASSUME IInv, ap_list_timer PROVE IInv'
<1>0. /\ ap_list \in Seq(Addr) /\ ap_hash \in [Addr -> Nat]
      /\ info \in [Addr -> ApInfo] /\ Len(ap_list) \in Nat
      /\ HashIndexesList /\ TypeOK
  BY DEF IInv, TypeOK
<1>1. PICK n \in 0..Len(ap_list) :
        /\ ap_list' = SubSeq(ap_list, 1, n)
        /\ num_ap' = num_ap - (Len(ap_list) - n)
        /\ ap_hash' = [a \in Addr |->
                         IF \E i \in (n + 1)..Len(ap_list) : ap_list[i] = a
                         THEN ap_ap_hash_del(ap_hash, a)[a]
                         ELSE ap_hash[a]]
        /\ olbc' = (olbc /\ OlbcLeft(n))
        /\ olbc_ht' = (olbc_ht /\ \E i \in 1..n :
                                    ~info[ap_list[i]].ht_support)
  BY DEF ap_list_timer, FreedCount
<1>2. /\ info' = Keep(info, ap_list')
      /\ heard' = heard \cap Listed'
      /\ conf' = conf /\ clock' = clock /\ forwarded' = forwarded
  BY DEF ap_list_timer
<1>3. /\ ap_list' \in Seq(Addr) /\ Len(ap_list') = n
      /\ DOMAIN ap_list' = 1..n /\ DOMAIN ap_list = 1..Len(ap_list)
      /\ \A i \in 1..n : i \in 1..Len(ap_list) /\ ap_list'[i] = ap_list[i]
  BY <1>0, <1>1
<1>4. \A x \in Listed' : x \in Listed /\ info'[x] = info[x]
  <2> SUFFICES ASSUME NEW x \in Listed'
               PROVE  x \in Listed /\ info'[x] = info[x]
    OBVIOUS
  <2>1. x \in Addr /\ \E i \in 1..n : ap_list'[i] = x
    BY <1>3 DEF Listed
  <2>2. x \in Listed
    BY <1>3, <2>1 DEF Listed
  <2>3. info'[x] = info[x]
    BY <1>2, <1>3, <2>1 DEF Keep
  <2> QED
    BY <2>2, <2>3
<1>5. TypeOK'
  <2>1. NoInfo \in ApInfo
    BY ConstantsOK DEF NoInfo, ApInfo
  <2>2. info' \in [Addr -> ApInfo]
    BY <1>0, <1>2, <2>1 DEF Keep
  <2>3. ap_hash' \in [Addr -> Nat]
    BY <1>0, <1>1 DEF ap_ap_hash_del
  <2>4. num_ap' \in Nat
    BY <1>0, <1>1 DEF IInv, TableBounded
  <2>5. olbc' \in BOOLEAN /\ olbc_ht' \in BOOLEAN
    BY <1>1
  <2>6. heard' \subseteq Addr /\ conf' \in Conf /\ clock' \in 0..MaxClock
        /\ forwarded' \in BOOLEAN
    BY <1>0, <1>2 DEF TypeOK
  <2> QED
    BY <1>3, <2>2, <2>3, <2>4, <2>5, <2>6 DEF TypeOK
<1>6. HashIndexesList'
  <2>1. \A i, j \in DOMAIN ap_list' : ap_list'[i] = ap_list'[j] => i = j
    BY <1>0, <1>3 DEF HashIndexesList
  <2>2. ASSUME NEW x \in Addr
        PROVE  ap_hash'[x] = IF x \in Listed' THEN 1 ELSE 0
    <3>1. CASE x \in Listed'
      <4>1. PICK i \in 1..n : ap_list[i] = x
        BY <1>3, <3>1 DEF Listed
      <4>2. \A j \in (n + 1)..Len(ap_list) : ap_list[j] # x
        <5>1. \A j \in (n + 1)..Len(ap_list) : j \in 1..Len(ap_list) /\ j # i
          BY <1>0, <4>1
        <5> QED
          BY <1>0, <1>3, <4>1, <5>1 DEF HashIndexesList
      <4> QED
        BY <1>0, <1>1, <1>4, <3>1, <4>2 DEF HashIndexesList
    <3>2. CASE x \notin Listed'
      <4>1. \A i \in 1..n : ap_list[i] # x
        BY <1>3, <3>2 DEF Listed
      <4>2. CASE x \in Listed
        <5>1. PICK j \in 1..Len(ap_list) : ap_list[j] = x
          BY <4>2 DEF Listed
        <5>2. j \in (n + 1)..Len(ap_list)
          BY <1>0, <4>1, <5>1
        <5>3. ap_hash[x] = 1
          BY <1>0, <4>2 DEF HashIndexesList
        <5> QED
          BY <1>0, <1>1, <3>2, <5>1, <5>2, <5>3 DEF ap_ap_hash_del
      <4>3. CASE x \notin Listed
        <5>1. ap_hash[x] = 0
          BY <1>0, <4>3 DEF HashIndexesList
        <5> QED
          BY <1>0, <1>1, <3>2, <5>1 DEF ap_ap_hash_del
      <4> QED
        BY <4>2, <4>3
    <3> QED
      BY <3>1, <3>2
  <2> QED
    BY <2>1, <2>2 DEF HashIndexesList
<1>7. TableBounded'
  BY <1>0, <1>1, <1>3, ConstantsOK DEF IInv, TableBounded
<1>8. StampsPast'
  BY <1>0, <1>2 DEF IInv, StampsPast, Keep, NoInfo, ApInfo, TypeOK
<1>9. LeastRecentlyUsedLast'
  <2>1. \A i \in 1..n : ap_list'[i] \in Listed'
    <3>1. \A i \in 1..n : ap_list'[i] \in Addr
      BY <1>3
    <3> QED
      BY <1>3, <3>1 DEF Listed
  <2> QED
    BY <1>3, <1>4, <2>1 DEF IInv, LeastRecentlyUsedLast
<1>10. ProtectionCovers'
  <2> SUFFICES ASSUME NEW x \in Listed', x \in heard'
               PROVE  (/\ ap_list_beacon_olbc(info[x]) => olbc
                       /\ HtRelevant(info[x]) => olbc_ht)'
    BY DEF ProtectionCovers
  <2>1. x \in Listed /\ x \in heard /\ info'[x] = info[x]
    BY <1>2, <1>4
  <2>2. PICK i \in 1..n : ap_list[i] = x
    BY <1>3 DEF Listed
  <2>3. ap_list_beacon_olbc(info[x]) => olbc'
    BY <1>1, <2>1, <2>2 DEF IInv, ProtectionCovers, OlbcLeft
  <2>4. HtRelevant(info[x]) => olbc_ht'
    BY <1>1, <2>1, <2>2 DEF IInv, ProtectionCovers, HtRelevant
  <2> QED
    BY <1>2, <2>1, <2>3, <2>4 DEF ap_list_beacon_olbc, HtRelevant
<1> QED
  BY <1>5, <1>6, <1>7, <1>8, <1>9, <1>10 DEF IInv

\* The other actions: a reset empties both indexes, a channel switch forgets
\* which APs were heard, time only moves forward.
LEMMA NextIInv == IInv /\ [Next]_vars => IInv'
<1> SUFFICES ASSUME IInv, [Next]_vars PROVE IInv'
  OBVIOUS
<1>0. TypeOK /\ HashIndexesList /\ TableBounded
  BY DEF IInv
<1>1. ASSUME NEW b \in Beacon, ap_list_process_beacon(b) PROVE IInv'
  BY <1>1, BeaconIInv
<1>2. CASE ap_list_timer
  BY <1>2, TimerIInv
<1>3. CASE ap_list_deinit
  <2>1. /\ ap_list' = <<>> /\ Listed' = {} /\ num_ap' = 0
        /\ ap_hash' = [a \in Addr |-> 0]
    <3>1. ap_list' = <<>> /\ num_ap' = 0 /\ Listed' = {}
      BY <1>0, <1>3 DEF ap_list_deinit, TableBounded, TypeOK, Listed
    <3>2. ap_hash' = [a \in Addr |-> 0]
      BY <1>0, <1>3 DEF ap_list_deinit, HashIndexesList, ap_ap_hash_del, TypeOK
    <3> QED
      BY <3>1, <3>2
  <2>2. NoInfo \in ApInfo /\ info' = [a \in Addr |-> NoInfo]
    BY <1>3, ConstantsOK DEF NoInfo, ApInfo, ap_list_deinit
  <2>3. TypeOK'
    BY <1>0, <1>3, <2>1, <2>2 DEF ap_list_deinit, TypeOK
  <2>4. StampsPast'
    BY <1>0, <1>3, <2>2 DEF StampsPast, NoInfo, ap_list_deinit, TypeOK
  <2>5. HashIndexesList' /\ TableBounded' /\ LeastRecentlyUsedLast' /\ ProtectionCovers'
    BY <1>3, <2>1, ConstantsOK DEF HashIndexesList, TableBounded,
       LeastRecentlyUsedLast, ProtectionCovers, ap_list_deinit
  <2> QED
    BY <2>3, <2>4, <2>5 DEF IInv
<1>4. ASSUME NEW c \in Conf, hostapd_event_ch_switch(c) PROVE IInv'
  BY <1>4 DEF hostapd_event_ch_switch, IInv, TypeOK, HashIndexesList,
     TableBounded, StampsPast, LeastRecentlyUsedLast, ProtectionCovers, Listed
<1>5. CASE Tick
  <2>1. TypeOK' /\ HashIndexesList' /\ TableBounded' /\ LeastRecentlyUsedLast'
    BY <1>5, ConstantsOK DEF Tick, IInv, TypeOK, HashIndexesList, TableBounded,
       LeastRecentlyUsedLast, Listed
  <2>2. StampsPast'
    BY <1>5 DEF Tick, IInv, StampsPast, TypeOK, ApInfo
  <2>3. ProtectionCovers'
    BY <1>5 DEF Tick, IInv, ProtectionCovers, Listed, ap_list_beacon_olbc, HtRelevant
  <2> QED
    BY <2>1, <2>2, <2>3 DEF IInv
<1>6. CASE UNCHANGED vars
  BY <1>6 DEF vars, IInv, TypeOK, HashIndexesList, TableBounded, StampsPast,
     LeastRecentlyUsedLast, ProtectionCovers, Listed, ap_list_beacon_olbc, HtRelevant
<1> QED
  BY <1>1, <1>2, <1>3, <1>4, <1>5, <1>6 DEF Next

\* The invariant holds in every reachable state.
THEOREM Invariant == Spec => []IInv
  BY InitIInv, NextIInv, PTL DEF Spec

-----------------------------------------------------------------------------
(* The results. *)

\* The neighbour table stays well formed: the hash and the list index the
\* same entries, the table keeps its bound, and the list is in LRU order.
THEOREM TableCorrect ==
    Spec => [](TypeOK /\ HashIndexesList /\ TableBounded /\ LeastRecentlyUsedLast)
<1>1. IInv => TypeOK /\ HashIndexesList /\ TableBounded /\ LeastRecentlyUsedLast
  BY DEF IInv
<1> QED
  BY Invariant, <1>1, PTL

\* A listed AP heard on the present channel that needs protection has it.
THEOREM ProtectionCorrect == Spec => []ProtectionCovers
<1>1. IInv => ProtectionCovers
  BY DEF IInv
<1> QED
  BY Invariant, <1>1, PTL

\* Stopping at the first entry that has not expired leaves no expired entry:
\* the entries before it were heard no earlier.
THEOREM TimerCorrect == Spec => TimerLeavesNoneExpired
<1>1. IInv /\ [Next]_vars =>
        [ap_list_timer =>
           \A i \in DOMAIN ap_list' : ~os_reltime_expired(ap_list'[i])]_vars
  <2> SUFFICES ASSUME IInv, ap_list_timer, NEW i \in DOMAIN ap_list'
               PROVE  ~os_reltime_expired(ap_list'[i])
    OBVIOUS
  <2>0. ap_list \in Seq(Addr) /\ Len(ap_list) \in Nat /\ info \in [Addr -> ApInfo]
        /\ clock \in 0..MaxClock
    BY DEF IInv, TypeOK
  <2>1. PICK n \in 0..Len(ap_list) :
          /\ n > 0 => ~os_reltime_expired(ap_list[n])
          /\ ap_list' = SubSeq(ap_list, 1, n)
    BY DEF ap_list_timer
  <2>2. /\ i \in 1..n /\ n \in 1..Len(ap_list) /\ i \in 1..Len(ap_list)
        /\ ap_list'[i] = ap_list[i]
    BY <2>0, <2>1
  <2>3. info[ap_list[i]].last_beacon >= info[ap_list[n]].last_beacon
    <3>1. CASE i = n
      BY <2>0, <2>2, <3>1 DEF ApInfo
    <3>2. CASE i < n
      BY <2>0, <2>2, <3>2 DEF IInv, LeastRecentlyUsedLast
    <3> QED
      BY <2>0, <2>2, <3>1, <3>2
  <2>4. /\ info[ap_list[i]].last_beacon \in 0..MaxClock
        /\ info[ap_list[n]].last_beacon \in 0..MaxClock
    BY <2>0, <2>2 DEF ApInfo
  <2>5. ~os_reltime_expired(ap_list[n])
    BY <2>0, <2>1, <2>2
  <2> QED
    BY <2>0, <2>2, <2>3, <2>4, <2>5, ConstantsOK DEF os_reltime_expired
<1> QED
  BY Invariant, <1>1, PTL DEF Spec, TimerLeavesNoneExpired

\* Every variable of the neighbour table keeps the type of its C field.
THEOREM TypeCorrect == Spec => []TypeOK
<1>1. IInv => TypeOK
  BY DEF IInv
<1> QED
  BY Invariant, <1>1, PTL

\* Eviction in ap_ap_add and expiry in ap_list_timer only take entries that
\* were heard no later than every entry they keep.
THEOREM DropsOldestEver == Spec => DropsOldest
<1> DEFINE Older(i, j) == info[ap_list[j]].last_beacon >= info[ap_list[i]].last_beacon
           Step == \A i, j \in DOMAIN ap_list :
                     (/\ \A k \in DOMAIN ap_list' : ap_list'[k] # ap_list[i]
                      /\ \E k \in DOMAIN ap_list' : ap_list'[k] = ap_list[j])
                     => Older(i, j)
<1>1. IInv /\ [Next]_vars => [Step]_vars
  <2> SUFFICES ASSUME IInv, Next PROVE Step
    <3> HIDE DEF Step
    <3> QED
      OBVIOUS
  <2> SUFFICES ASSUME NEW i \in DOMAIN ap_list, NEW j \in DOMAIN ap_list,
                      \A k \in DOMAIN ap_list' : ap_list'[k] # ap_list[i],
                      \E k \in DOMAIN ap_list' : ap_list'[k] = ap_list[j]
               PROVE  Older(i, j)
    OBVIOUS
  <2>0. /\ ap_list \in Seq(Addr) /\ Len(ap_list) \in Nat /\ info \in [Addr -> ApInfo]
        /\ TypeOK /\ HashIndexesList /\ TableBounded /\ TypeOK'
        /\ i \in 1..Len(ap_list) /\ j \in 1..Len(ap_list)
        /\ ap_list[i] \in Listed /\ ap_list[i] \notin Listed'
    <3>1. IInv'
      BY NextIInv
    <3>2. ap_list \in Seq(Addr) /\ ap_list' \in Seq(Addr) /\ info \in [Addr -> ApInfo]
      BY <3>1 DEF IInv, TypeOK
    <3> QED
      BY <3>1, <3>2 DEF IInv, Listed
  <2>1. i >= j => Older(i, j)
    <3>1. CASE i = j
      BY <2>0, <3>1 DEF ApInfo
    <3>2. CASE j < i
      BY <2>0, <3>2 DEF IInv, LeastRecentlyUsedLast
    <3> QED
      BY <2>0, <3>1, <3>2
  <2>2. ASSUME NEW b \in Beacon, ap_list_process_beacon(b) PROVE Older(i, j)
    <3>1. b.bssid \in Addr /\ (b.bssid \in Listed <=> ap_get_ap(b.bssid))
      BY <2>0 DEF Beacon, HashIndexesList, ap_get_ap
    <3>2. CASE b.bssid \in Listed
      <4>1. MoveToHead(b.bssid)
        BY <2>2, <3>1, <3>2 DEF ap_list_process_beacon
      <4> QED
        BY <2>0, <3>2, <4>1, MoveToHeadReorders
    <3>3. CASE b.bssid \notin Listed
      <4>1. ap_ap_add(b.bssid) /\ ap_table_max_size >= 1
        BY <2>2, <3>1, <3>3 DEF ap_list_process_beacon
      <4>2. ap_list[i] = ap_list[Len(ap_list)]
        BY <2>0, <3>1, <3>3, <4>1, AddReorders
      <4>3. i = Len(ap_list)
        BY <2>0, <4>2 DEF HashIndexesList
      <4> QED
        BY <2>0, <2>1, <4>3
    <3> QED
      BY <3>2, <3>3
  <2>3. CASE ap_list_timer
    <3>1. PICK n \in 0..Len(ap_list) : ap_list' = SubSeq(ap_list, 1, n)
      BY <2>3 DEF ap_list_timer
    <3>2. DOMAIN ap_list' = 1..n /\ \A k \in 1..n : ap_list'[k] = ap_list[k]
      BY <2>0, <3>1
    <3>3. ~(i <= n)
      BY <2>0, <3>2
    <3>4. PICK k \in 1..n : ap_list[k] = ap_list[j]
      BY <3>2
    <3>5. j = k
      BY <2>0, <3>4 DEF HashIndexesList
    <3> QED
      BY <2>0, <2>1, <3>3, <3>4, <3>5
  <2>4. CASE ap_list_deinit
    BY <2>4 DEF ap_list_deinit
  <2>5. CASE Tick \/ \E c \in Conf : hostapd_event_ch_switch(c)
    BY <2>5 DEF Tick, hostapd_event_ch_switch
  <2> QED
    BY <2>2, <2>3, <2>4, <2>5 DEF Next
<1> QED
  BY Invariant, <1>1, PTL DEF Spec, DropsOldest

=============================================================================
