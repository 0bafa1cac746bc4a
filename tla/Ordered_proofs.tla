---------------------------- MODULE Ordered_proofs ----------------------------
(***************************************************************************)
(* Proofs about the cache of Lib/std/cache.nqr, for every capacity and     *)
(* every clock limit: the ages of the occupied slots, whatever the rebases *)
(* of the clock made of them, always list the entries in the order of      *)
(* their last use.  First what an order of slots is, then what each        *)
(* function does to the order of a record, then each call as a step of     *)
(* LruMap.                                                                 *)
(***************************************************************************)
EXTENDS Deque_proofs

-----------------------------------------------------------------------------
(* Slots in the order of their ages. *)

(* q lists the slots of o by age. *)
IsOrder(q, n, o, a) ==
  /\ q \in Seq(o) /\ n \in Nat /\ Len(q) = n
  /\ \A s \in o : \E i \in 1 .. n : q[i] = s
  /\ \A i, j \in 1 .. n : i < j => a[q[i]] < a[q[j]]

(* Each of the order is one of the slots. *)
LEMMA OrderItem ==
  ASSUME NEW q, NEW n, NEW o, NEW a, IsOrder(q, n, o, a), NEW i \in 1 .. n
  PROVE  q[i] \in o /\ n \in Nat
BY ElementOfSeq DEF IsOrder

(* No slot is in the order twice: ages differ. *)
LEMMA OrderOnce ==
  ASSUME NEW q, NEW n, NEW o, NEW a \in [o -> Nat], IsOrder(q, n, o, a), NEW i \in 1 .. n, NEW j \in 1 .. n, q[i] = q[j]
  PROVE  i = j
<1>1. q[i] \in o /\ q[j] \in o /\ n \in Nat
  BY OrderItem
<1>2. a[q[i]] = a[q[j]] /\ a[q[i]] \in Nat
  BY <1>1
<1>3. ~(i < j) /\ ~(j < i)
  BY <1>1, <1>2 DEF IsOrder
<1> QED BY <1>1, <1>3

(* No slots have an order. *)
LEMMA OrderNone ==
  ASSUME NEW a
  PROVE  IsOrder(<<>>, 0, {}, a)
BY EmptySeq DEF IsOrder

(* Those of o that are older than s. *)
Older(o, a, s) == {t \in o : a[t] < a[s]}

(* How many of them are older than the one at i. *)
LEMMA OrderRank ==
  ASSUME NEW q, NEW n, NEW o, NEW a, \A s \in o : a[s] \in Nat, IsOrder(q, n, o, a), NEW i \in 1 .. n
  PROVE  IsFiniteSet(Older(o, a, q[i])) /\ Cardinality(Older(o, a, q[i])) = i - 1
<1>1. n \in Nat /\ \A j \in 1 .. n : q[j] \in o /\ a[q[j]] \in Nat
  BY OrderItem DEF IsOrder
<1>2. \A j, k \in 1 .. n : j < k => a[q[j]] < a[q[k]]
  BY DEF IsOrder
<1>3. \A s \in o : \E j \in 1 .. n : q[j] = s
  BY DEF IsOrder
<1> DEFINE R(j) == {t \in o : a[t] < a[q[j]]}
           Good == {k \in 0 .. n : k = 0 \/ (IsFiniteSet(R(k)) /\ Cardinality(R(k)) = k - 1)}
<1>4. 0 \in Good
  BY <1>1
<1>5. ASSUME NEW k \in 1 .. n, k - 1 \in Good
      PROVE  k \in Good
  <2>1. CASE k = 1
    <3>1. R(k) = {}
      <4> SUFFICES ASSUME NEW t \in o, a[t] < a[q[k]] PROVE FALSE
        OBVIOUS
      <4>1. PICK j \in 1 .. n : q[j] = t
        BY <1>3
      <4>2. CASE j = k
        BY <1>1, <4>1, <4>2
      <4>3. CASE k < j
        BY <1>1, <1>2, <4>1, <4>3
      <4> QED BY <2>1, <4>2, <4>3
    <3>2. IsFiniteSet(R(k)) /\ Cardinality(R(k)) = 0
      BY <3>1, FS_EmptySet
    <3> QED BY <1>1, <2>1, <3>2
  <2>2. CASE k # 1
    <3>1. PICK l \in 1 .. n : l = k - 1
      BY <1>1, <2>2
    <3>2. IsFiniteSet(R(l)) /\ Cardinality(R(l)) = l - 1
      BY <1>5, <3>1
    <3>3. R(k) = R(l) \cup {q[l]}
      <4>1. ASSUME NEW t \in R(k)
            PROVE  t \in R(l) \cup {q[l]}
        <5>1. PICK j \in 1 .. n : q[j] = t
          BY <1>3
        <5>2. CASE j < l
          BY <1>2, <5>1, <5>2
        <5>3. CASE j = l
          BY <5>1, <5>3
        <5>4. CASE j = k
          BY <1>1, <4>1, <5>1, <5>4
        <5>5. CASE k < j
          BY <1>1, <1>2, <4>1, <5>1, <5>5
        <5> QED BY <3>1, <5>2, <5>3, <5>4, <5>5
      <4>2. a[q[l]] < a[q[k]] /\ q[l] \in o
        BY <1>1, <1>2, <3>1
      <4>3. ASSUME NEW t \in R(l)
            PROVE  t \in R(k)
        BY <1>1, <4>2
      <4> QED BY <4>1, <4>2, <4>3
    <3>4. q[l] \notin R(l)
      BY <1>1
    <3> HIDE DEF R
    <3>5. IsFiniteSet(R(k)) /\ Cardinality(R(k)) = l - 1 + 1
      BY <3>2, <3>3, <3>4, FS_AddElement
    <3> QED BY <1>1, <3>1, <3>5
  <2> QED BY <2>1, <2>2
<1> HIDE DEF Good
<1>6. \A k \in 0 .. n : k \in Good
  BY <1>1, <1>4, <1>5, UpTo
<1>7. i \in Good /\ i # 0
  BY <1>1, <1>6
<1> QED BY <1>7 DEF Good, Older

(* The ages are others but in the same order. *)
LEMMA OrderStays ==
  ASSUME NEW q, NEW n, NEW o, NEW a, NEW b, IsOrder(q, n, o, a), \A s, t \in o : a[s] < a[t] => b[s] < b[t]
  PROVE  IsOrder(q, n, o, b)
<1>1. \A i \in 1 .. n : q[i] \in o
  BY OrderItem
<1> QED BY <1>1 DEF IsOrder

(* A slot younger than all others comes last, ... *)
LEMMA OrderAppended ==
  ASSUME NEW q, NEW n, NEW o, NEW a, IsOrder(q, n, o, a), NEW s, s \notin o, NEW b,
         \A t \in o : b[t] = a[t] /\ b[t] < b[s]
  PROVE  IsOrder(Append(q, s), n + 1, o \cup {s}, b)
<1>1. n \in Nat /\ q \in Seq(o) /\ Len(q) = n
  BY DEF IsOrder
<1>2. PICK p \in Seq(o \cup {s}) : p = q
  BY <1>1, SeqOfMore
<1>3. PICK u : u = Append(p, s)
  OBVIOUS
<1>4. /\ u \in Seq(o \cup {s}) /\ Len(u) = n + 1 /\ u[n + 1] = s
      /\ \A i \in 1 .. n : u[i] = q[i]
  <2>1. s \in o \cup {s} /\ p \in Seq(o \cup {s}) /\ Len(p) = n
    BY <1>1, <1>2
  <2>2. u \in Seq(o \cup {s}) /\ Len(u) = n + 1 /\ u[n + 1] = s
    BY <1>3, <2>1, AppendProperties
  <2>3. \A i \in 1 .. n : u[i] = p[i]
    BY <1>3, <2>1, AppendProperties
  <2> QED BY <1>2, <2>2, <2>3
<1>5. \A t \in o \cup {s} : \E i \in 1 .. n + 1 : u[i] = t
  <2> SUFFICES ASSUME NEW t \in o \cup {s} PROVE \E i \in 1 .. n + 1 : u[i] = t
    OBVIOUS
  <2>1. CASE t = s
    BY <1>1, <1>4, <2>1
  <2>2. CASE t \in o
    <3>1. PICK i \in 1 .. n : q[i] = t
      BY <2>2 DEF IsOrder
    <3> QED BY <1>1, <1>4, <3>1
  <2> QED BY <2>1, <2>2
<1>6. \A i, j \in 1 .. n + 1 : i < j => b[u[i]] < b[u[j]]
  <2> SUFFICES ASSUME NEW i \in 1 .. n + 1, NEW j \in 1 .. n + 1, i < j PROVE b[u[i]] < b[u[j]]
    OBVIOUS
  <2>1. i \in 1 .. n /\ u[i] = q[i] /\ q[i] \in o
    BY <1>1, <1>4, OrderItem
  <2>2. CASE j = n + 1
    BY <1>4, <2>1, <2>2
  <2>3. CASE j # n + 1
    <3>1. j \in 1 .. n /\ u[j] = q[j] /\ q[j] \in o
      BY <1>1, <1>4, <2>3, OrderItem
    <3>2. a[q[i]] < a[q[j]]
      BY <2>1, <3>1 DEF IsOrder
    <3> QED BY <2>1, <3>1, <3>2
  <2> QED BY <2>2, <2>3
<1>7. n + 1 \in Nat
  BY <1>1
<1>8. IsOrder(u, n + 1, o \cup {s}, b)
  BY <1>4, <1>5, <1>6, <1>7 DEF IsOrder
<1> QED BY <1>2, <1>3, <1>8

(* ... and one older than all others first. *)
LEMMA OrderPrepended ==
  ASSUME NEW q, NEW n, NEW o, NEW a, IsOrder(q, n, o, a), NEW s, s \notin o, NEW b,
         \A t \in o : b[t] = a[t] /\ b[s] < b[t]
  PROVE  IsOrder(<<s>> \o q, n + 1, o \cup {s}, b)
<1>1. n \in Nat /\ q \in Seq(o) /\ Len(q) = n
  BY DEF IsOrder
<1>2. PICK p \in Seq(o \cup {s}) : p = q
  BY <1>1, SeqOfMore
<1>3. PICK u : u = <<s>> \o p
  OBVIOUS
<1>4. /\ u \in Seq(o \cup {s}) /\ Len(u) = n + 1 /\ u[1] = s
      /\ \A i \in 2 .. n + 1 : u[i] = q[i - 1]
  <2>1. s \in o \cup {s} /\ Len(p) = n
    BY <1>1, <1>2
  <2>2. /\ u \in Seq(o \cup {s}) /\ Len(u) = n + 1
        /\ \A i \in 1 .. n + 1 : u[i] = IF i = 1 THEN s ELSE p[i - 1]
    BY <1>3, <2>1, BeforeIs
  <2> QED BY <1>1, <1>2, <2>2
<1>5. \A t \in o \cup {s} : \E i \in 1 .. n + 1 : u[i] = t
  <2> SUFFICES ASSUME NEW t \in o \cup {s} PROVE \E i \in 1 .. n + 1 : u[i] = t
    OBVIOUS
  <2>1. CASE t = s
    BY <1>1, <1>4, <2>1
  <2>2. CASE t \in o
    <3>1. PICK i \in 1 .. n : q[i] = t
      BY <2>2 DEF IsOrder
    <3>2. i + 1 \in 2 .. n + 1 /\ (i + 1) - 1 = i
      BY <1>1
    <3>3. u[i + 1] = t
      BY <1>4, <3>1, <3>2
    <3>4. i + 1 \in 1 .. n + 1
      BY <1>1
    <3> QED BY <3>3, <3>4
  <2> QED BY <2>1, <2>2
<1>6. \A i, j \in 1 .. n + 1 : i < j => b[u[i]] < b[u[j]]
  <2> SUFFICES ASSUME NEW i \in 1 .. n + 1, NEW j \in 1 .. n + 1, i < j PROVE b[u[i]] < b[u[j]]
    OBVIOUS
  <2>1. j - 1 \in 1 .. n /\ j \in 2 .. n + 1
    BY <1>1
  <2>2. u[j] = q[j - 1] /\ q[j - 1] \in o
    BY <1>4, <2>1, OrderItem
  <2>3. CASE i = 1
    BY <1>4, <2>2, <2>3
  <2>4. CASE i # 1
    <3>1. i - 1 \in 1 .. n /\ i \in 2 .. n + 1 /\ i - 1 < j - 1
      BY <1>1, <2>4
    <3>2. u[i] = q[i - 1] /\ q[i - 1] \in o
      BY <1>4, <3>1, OrderItem
    <3>3. a[q[i - 1]] < a[q[j - 1]]
      BY <2>1, <3>1 DEF IsOrder
    <3> QED BY <2>2, <3>2, <3>3
  <2> QED BY <2>3, <2>4
<1>7. n + 1 \in Nat
  BY <1>1
<1>8. IsOrder(u, n + 1, o \cup {s}, b)
  BY <1>4, <1>5, <1>6, <1>7 DEF IsOrder
<1> QED BY <1>2, <1>3, <1>8

(* Without one of its slots the order is that of the others. *)
LEMMA OrderRemoved ==
  ASSUME NEW q, NEW n, NEW o, NEW a \in [o -> Nat], IsOrder(q, n, o, a), NEW i \in 1 .. n, NEW p, IsRemoved(o, p, q, i - 1, n),
         NEW b, \A t \in o \ {q[i]} : b[t] = a[t]
  PROVE  IsOrder(p, n - 1, o \ {q[i]}, b)
<1>1. n \in Nat /\ n - 1 \in Nat /\ p \in Seq(o) /\ Len(p) = n - 1
  BY DEF IsOrder, IsRemoved
<1>2. \A j \in 1 .. n - 1 : p[j] = IF j <= i - 1 THEN q[j] ELSE q[j + 1]
  BY DEF IsRemoved
<1> DEFINE From(j) == IF j <= i - 1 THEN j ELSE j + 1
<1>3. \A j \in 1 .. n - 1 : From(j) \in 1 .. n /\ From(j) # i /\ p[j] = q[From(j)]
  BY <1>1, <1>2
<1>4. \A j, k \in 1 .. n - 1 : j < k => From(j) < From(k)
  BY <1>1
<1>5. \A k \in 1 .. n : k # i => \E j \in 1 .. n - 1 : From(j) = k
  <2> SUFFICES ASSUME NEW k \in 1 .. n, k # i PROVE \E j \in 1 .. n - 1 : From(j) = k
    OBVIOUS
  <2>1. CASE k < i
    <3>1. k \in 1 .. n - 1 /\ From(k) = k
      BY <1>1, <2>1
    <3> QED BY <3>1
  <2>2. CASE k > i
    <3>1. k - 1 \in 1 .. n - 1 /\ From(k - 1) = k
      BY <1>1, <2>2
    <3> QED BY <3>1
  <2> QED BY <2>1, <2>2
<1> HIDE DEF From
<1>6. \A j \in 1 .. n - 1 : p[j] \in o \ {q[i]}
  <2> SUFFICES ASSUME NEW j \in 1 .. n - 1 PROVE p[j] \in o \ {q[i]}
    OBVIOUS
  <2>1. PICK k \in 1 .. n : k = From(j) /\ k # i /\ p[j] = q[k]
    BY <1>3
  <2>2. q[k] # q[i]
    BY <2>1, OrderOnce
  <2> QED BY <2>1, <2>2, OrderItem
<1>7. p \in Seq(o \ {q[i]})
  <2>1. p = [j \in 1 .. n - 1 |-> p[j]]
    BY <1>1, LenProperties
  <2>2. p \in [1 .. n - 1 -> o \ {q[i]}]
    BY <1>6, <2>1
  <2> QED BY <1>1, <2>2, FunctionIsSeq
<1>8. \A t \in o \ {q[i]} : \E j \in 1 .. n - 1 : p[j] = t
  <2> SUFFICES ASSUME NEW t \in o, t # q[i] PROVE \E j \in 1 .. n - 1 : p[j] = t
    OBVIOUS
  <2>1. PICK k \in 1 .. n : q[k] = t
    BY DEF IsOrder
  <2>2. PICK j \in 1 .. n - 1 : From(j) = k
    BY <1>5, <2>1
  <2> QED BY <1>3, <2>1, <2>2
<1>9. \A j, k \in 1 .. n - 1 : j < k => b[p[j]] < b[p[k]]
  <2> SUFFICES ASSUME NEW j \in 1 .. n - 1, NEW k \in 1 .. n - 1, j < k PROVE b[p[j]] < b[p[k]]
    OBVIOUS
  <2>1. a[q[From(j)]] < a[q[From(k)]]
    BY <1>3, <1>4 DEF IsOrder
  <2>2. b[p[j]] = a[q[From(j)]] /\ b[p[k]] = a[q[From(k)]]
    BY <1>3, <1>6
  <2> QED BY <2>1, <2>2
<1> QED BY <1>1, <1>7, <1>8, <1>9 DEF IsOrder

-----------------------------------------------------------------------------
(* The cache: what its functions do to the order of its slots. *)

(* A cache of capacity c with the keys k, the values v, the ages a and the *)
(* n occupied slots o at the clock t.                                      *)
CacheOf(k, v, a, o, c, n, t) ==
  [keys |-> k, values |-> v, ages |-> a, occupied |-> o, capacity |-> c, length |-> n, clock |-> t]

(* The n occupied slots o, with the ages a below the clock t, are q. *)
InOrder(a, o, t, q, n, c) ==
  /\ a \in [Slots(c) -> Nat] /\ o \in SUBSET Slots(c) /\ t \in Nat \ {0} /\ n \in Nat
  /\ IsFiniteSet(o) /\ Cardinality(o) = n /\ IsOrder(q, n, o, a)
  /\ \A s \in o : a[s] < t
  /\ \A s \in Slots(c) \ o : a[s] = 0

(* The fields of a cache. *)
LEMMA CacheFields ==
  ASSUME NEW k, NEW v, NEW a, NEW o, NEW c, NEW n, NEW t, NEW r, r = CacheOf(k, v, a, o, c, n, t)
  PROVE  r.keys = k /\ r.values = v /\ r.ages = a /\ r.occupied = o /\ r.capacity = c /\ r.length = n /\ r.clock = t
BY DEF CacheOf

(* A slot of the order has an age below the clock. *)
LEMMA InOrderItem ==
  ASSUME NEW c \in Nat, NEW a, NEW o, NEW t, NEW q, NEW n, InOrder(a, o, t, q, n, c), NEW i \in 1 .. n
  PROVE  q[i] \in o /\ q[i] \in Slots(c) /\ q[i] \in Nat /\ a[q[i]] \in Nat /\ a[q[i]] < t
<1>1. q[i] \in o
  BY OrderItem DEF InOrder
<1>2. o \in SUBSET Slots(c) /\ a \in [Slots(c) -> Nat] /\ \A s \in o : a[s] < t
  BY DEF InOrder
<1>3. q[i] \in Slots(c) /\ a[q[i]] \in Nat /\ a[q[i]] < t
  BY <1>1, <1>2
<1> QED BY <1>1, <1>3 DEF Slots

(* The least item of a set of one. *)
LEMMA LeastOfOne ==
  ASSUME NEW x \in Nat
  PROVE  Least({x}) = x
BY DEF Least

(* cache_oldest_index finds the first of the order. *)
LEMMA OldestIs ==
  ASSUME NEW c \in Nat, NEW a, NEW o, NEW t, NEW q, NEW n, InOrder(a, o, t, q, n, c), n > 0,
         NEW r, r.ages = a, r.occupied = o
  PROVE  cache_oldest_index(r) = q[1] /\ \A s \in o : a[q[1]] <= a[s]
<1>1. 1 \in 1 .. n /\ \A i \in 1 .. n : q[i] \in o /\ a[q[i]] \in Nat
  BY InOrderItem DEF InOrder
<1>2. \A s \in o : a[q[1]] <= a[s]
  <2> SUFFICES ASSUME NEW s \in o PROVE a[q[1]] <= a[s]
    OBVIOUS
  <2>1. PICK i \in 1 .. n : q[i] = s
    BY DEF InOrder, IsOrder
  <2>2. i = 1 \/ a[q[1]] < a[q[i]]
    BY <1>1 DEF InOrder, IsOrder
  <2> QED BY <1>1, <2>1, <2>2
<1>3. PICK S : S = {s \in o : \A u \in o : a[s] <= a[u]}
  OBVIOUS
<1>4. S = {q[1]}
  <2>1. q[1] \in S
    BY <1>1, <1>2, <1>3
  <2>2. ASSUME NEW s \in S PROVE s = q[1]
    <3>1. s \in o /\ a[s] <= a[q[1]]
      BY <1>1, <1>3, <2>2
    <3>2. PICK i \in 1 .. n : q[i] = s
      BY <3>1 DEF InOrder, IsOrder
    <3>3. i = 1 \/ a[q[1]] < a[q[i]]
      BY <1>1 DEF InOrder, IsOrder
    <3> QED BY <1>1, <3>1, <3>2, <3>3
  <2> QED BY <2>1, <2>2
<1>5. cache_oldest_index(r) = Least(S)
  BY <1>3 DEF cache_oldest_index
<1>6. q[1] \in Nat
  BY <1>1, InOrderItem
<1> QED BY <1>2, <1>4, <1>5, <1>6, LeastOfOne

(* cache_rebase_ages lowers ages and clock, never below 1, and keeps the   *)
(* order.                                                                  *)
LEMMA RebasedIs ==
  ASSUME NEW k, NEW v, NEW c \in Nat, NEW a, NEW o, NEW t, NEW q, NEW n, InOrder(a, o, t, q, n, c),
         NEW r, r = CacheOf(k, v, a, o, c, n, t)
  PROVE  \E b, u : /\ cache_rebase_ages(r) = CacheOf(k, v, b, o, c, n, u) /\ InOrder(b, o, u, q, n, c)
                   /\ u <= t + 1 /\ ((\A s \in o : a[s] > 0) => u <= t) /\ \A s \in o : b[s] > 0
<1>0. r.ages = a /\ r.occupied = o /\ r.length = n /\ r.clock = t /\ t \in Nat \ {0} /\ n \in Nat
  BY CacheFields DEF InOrder
<1>1. CASE n = 0
  <2>1. o = {}
    BY <1>1, FS_EmptySet DEF InOrder
  <2>2. cache_rebase_ages(r) = CacheOf(k, v, a, o, c, n, 1)
    <3>1. cache_rebase_ages(r) = [r EXCEPT !.clock = 1]
      BY <1>0, <1>1 DEF cache_rebase_ages
    <3> QED BY <3>1 DEF CacheOf
  <2>3. InOrder(a, o, 1, q, n, c)
    BY <2>1 DEF InOrder
  <2>4. \A s \in o : a[s] > 0
    BY <2>1
  <2>5. 1 <= t + 1 /\ 1 <= t
    BY <1>0
  <2> QED BY <2>2, <2>3, <2>4, <2>5
<1>2. CASE n # 0
  <2>1. n > 0 /\ n \in 1 .. n /\ 1 \in 1 .. n
    BY <1>0, <1>2
  <2>2. PICK base : base = a[q[1]]
    OBVIOUS
  <2>3. cache_oldest_index(r) = q[1] /\ base \in Nat /\ base < t /\ q[1] \in o /\ \A s \in o : base <= a[s]
    BY <1>0, <2>1, <2>2, OldestIs, InOrderItem
  <2>4. PICK b : b = [s \in DOMAIN a |-> IF s \in o THEN a[s] - (base - 1) ELSE a[s]]
    OBVIOUS
  <2>5. a \in [Slots(c) -> Nat] /\ o \in SUBSET Slots(c) /\ (\A s \in o : a[s] < t) /\ \A s \in Slots(c) \ o : a[s] = 0
    BY DEF InOrder
  <2>6. /\ b \in [Slots(c) -> Nat] /\ (\A s \in Slots(c) \ o : b[s] = 0)
        /\ \A s \in o : a[s] \in Nat /\ b[s] = a[s] - base + 1 /\ b[s] > 0
    <3>1. \A s \in Slots(c) : b[s] = IF s \in o THEN a[s] - (base - 1) ELSE a[s]
      BY <2>4, <2>5
    <3>2. \A s \in o : a[s] \in Nat /\ b[s] = a[s] - base + 1 /\ b[s] > 0 /\ b[s] \in Nat
      <4> SUFFICES ASSUME NEW s \in o PROVE a[s] \in Nat /\ b[s] = a[s] - base + 1 /\ b[s] > 0 /\ b[s] \in Nat
        OBVIOUS
      <4>1. s \in Slots(c) /\ a[s] \in Nat /\ base <= a[s]
        BY <2>3, <2>5
      <4> QED BY <2>3, <3>1, <4>1
    <3>3. b = [s \in Slots(c) |-> b[s]]
      BY <2>4, <2>5
    <3>4. \A s \in Slots(c) \ o : b[s] = 0
      BY <2>5, <3>1
    <3>5. \A s \in Slots(c) : b[s] \in Nat
      BY <3>2, <3>4
    <3> QED BY <3>2, <3>3, <3>4, <3>5
  <2>7. IsOrder(q, n, o, b)
    <3>1. \A s, u \in o : a[s] < a[u] => b[s] < b[u]
      BY <2>3, <2>6
    <3> QED BY <3>1, OrderStays DEF InOrder
  <2>8. PICK w : w = b[q[n]]
    OBVIOUS
  <2>9. q[n] \in o /\ w \in Nat /\ \A s \in o : b[s] <= w
    <3>1. q[n] \in o /\ \A i \in 1 .. n : q[i] \in o
      BY <2>1, InOrderItem
    <3>2. \A s \in o : b[s] <= w
      <4> SUFFICES ASSUME NEW s \in o PROVE b[s] <= w
        OBVIOUS
      <4>1. PICK i \in 1 .. n : q[i] = s
        BY DEF InOrder, IsOrder
      <4>2. i = n \/ b[q[i]] < b[q[n]]
        BY <2>1, <2>7 DEF IsOrder
      <4>3. b[s] \in Nat /\ w \in Nat
        BY <2>5, <2>6, <2>8, <3>1
      <4> QED BY <2>8, <4>1, <4>2, <4>3
    <3> QED BY <2>5, <2>6, <2>8, <3>1, <3>2
  <2>10. NewestAge(b, o) = w
    <3>1. w \in {b[s] : s \in o}
      BY <2>8, <2>9
    <3>2. PICK m : m = CHOOSE x \in {b[s] : s \in o} : \A s \in o : b[s] <= x
      OBVIOUS
    <3>3. m \in {b[s] : s \in o} /\ \A s \in o : b[s] <= m
      BY <2>9, <3>1, <3>2
    <3>4. PICK s \in o : m = b[s]
      BY <3>3
    <3>5. m <= w /\ w <= m /\ m \in Nat
      BY <2>5, <2>6, <2>8, <2>9, <3>3, <3>4
    <3> QED BY <2>9, <3>2, <3>5 DEF NewestAge
  <2>11. PICK u : u = w + 1
    OBVIOUS
  <2>12. cache_rebase_ages(r) = CacheOf(k, v, b, o, c, n, u)
    <3>1. cache_rebase_ages(r) = [r EXCEPT !.ages = b, !.clock = u]
      <4>1. Aged(r, base - 1) = b
        BY <1>0, <2>4 DEF Aged
      <4>2. a[cache_oldest_index(r)] = base
        BY <2>2, <2>3
      <4> QED BY <1>0, <1>2, <2>10, <2>11, <4>1, <4>2 DEF cache_rebase_ages
    <3> QED BY <3>1 DEF CacheOf
  <2>13. InOrder(b, o, u, q, n, c)
    <3>1. \A s \in o : b[s] < u
      BY <2>5, <2>6, <2>9, <2>11
    <3>2. u \in Nat \ {0}
      BY <2>9, <2>11
    <3> QED BY <2>5, <2>6, <2>7, <3>1, <3>2 DEF InOrder
  <2>14. u <= t + 1 /\ ((\A s \in o : a[s] > 0) => u <= t)
    <3>1. w = a[q[n]] - base + 1 /\ a[q[n]] < t /\ a[q[n]] \in Nat
      BY <2>5, <2>6, <2>8, <2>9
    <3>2. (\A s \in o : a[s] > 0) => base > 0
      BY <2>2, <2>3
    <3> QED BY <1>0, <2>3, <2>11, <3>1, <3>2
  <2> QED BY <2>6, <2>12, <2>13, <2>14
<1> QED BY <1>1, <1>2

(* OrderRemoved, where other slots have no age to speak of. *)
LEMMA OrderWithout ==
  ASSUME NEW q, NEW n, NEW o, NEW a, \A s \in o : a[s] \in Nat, IsOrder(q, n, o, a), NEW i \in 1 .. n, NEW s, s = q[i],
         NEW p, IsRemoved(o, p, q, i - 1, n), NEW b, \A u \in o \ {s} : b[u] = a[u]
  PROVE  IsOrder(p, n - 1, o \ {s}, b)
<1>1. PICK d \in [o -> Nat] : d = [u \in o |-> a[u]]
  OBVIOUS
<1>2. IsOrder(q, n, o, d)
  BY <1>1, OrderStays
<1>3. \A u \in o \ {q[i]} : b[u] = d[u]
  BY <1>1
<1>4. d \in [o -> Nat]
  OBVIOUS
<1>5. IsOrder(p, n - 1, o \ {q[i]}, b)
  BY <1>2, <1>3, <1>4, OrderRemoved
<1> QED BY <1>5

(* A slot that is used moves to the end of the order. *)
LEMMA OrderUsed ==
  ASSUME NEW c \in Nat, NEW a, NEW o, NEW t, NEW q, NEW n, InOrder(a, o, t, q, n, c), NEW i \in 1 .. n,
         NEW p, IsRemoved(o, p, q, i - 1, n), NEW b, b = [a EXCEPT ![q[i]] = t]
  PROVE  InOrder(b, o, t + 1, Append(p, q[i]), n, c)
<1>1. /\ a \in [Slots(c) -> Nat] /\ o \in SUBSET Slots(c) /\ t \in Nat \ {0} /\ n \in Nat /\ IsOrder(q, n, o, a)
      /\ (\A s \in o : a[s] < t) /\ \A s \in Slots(c) \ o : a[s] = 0
  BY DEF InOrder
<1>2. PICK s : s = q[i]
  OBVIOUS
<1>3. s \in o /\ s \in Slots(c)
  BY <1>1, <1>2, InOrderItem
<1>4. b \in [Slots(c) -> Nat] /\ b[s] = t /\ \A u \in Slots(c) : u # s => b[u] = a[u]
  BY <1>1, <1>2, <1>3
<1>7. \A u \in o \ {s} : b[u] = a[u] /\ b[u] < b[s]
  BY <1>1, <1>4
<1>8. IsOrder(p, n - 1, o \ {s}, b)
  <2>1. \A u \in o : a[u] \in Nat
    BY <1>1
  <2>2. \A u \in o \ {s} : b[u] = a[u]
    BY <1>7
  <2> QED BY <1>1, <1>2, <2>1, <2>2, OrderWithout
<1>9. IsOrder(Append(p, s), n, o, b)
  <2>1. IsOrder(Append(p, s), n - 1 + 1, (o \ {s}) \cup {s}, b)
    BY <1>2, <1>7, <1>8, OrderAppended
  <2>2. n - 1 + 1 = n /\ (o \ {s}) \cup {s} = o
    BY <1>1, <1>3
  <2> QED BY <2>1, <2>2
<1>10. (\A u \in o : b[u] < t + 1) /\ (\A u \in Slots(c) \ o : b[u] = 0) /\ t + 1 \in Nat \ {0}
  <2>1. \A u \in o : b[u] < t + 1
    <3> SUFFICES ASSUME NEW u \in o PROVE b[u] < t + 1
      OBVIOUS
    <3>1. u \in Slots(c) /\ a[u] < t /\ a[u] \in Nat
      BY <1>1
    <3>2. b[u] = t \/ b[u] = a[u]
      BY <1>4, <3>1
    <3> QED BY <1>1, <3>1, <3>2
  <2>2. \A u \in Slots(c) \ o : b[u] = 0
    BY <1>1, <1>3, <1>4
  <2> QED BY <1>1, <2>1, <2>2
<1>11. IsFiniteSet(o) /\ Cardinality(o) = n
  BY DEF InOrder
<1> QED BY <1>1, <1>2, <1>4, <1>9, <1>10, <1>11 DEF InOrder

(* cache_touch_index, with or without a rebase before it, moves the slot   *)
(* to the end of the order and keeps the clock within its bound.           *)
LEMMA TouchedIs ==
  ASSUME NEW k, NEW v, NEW c \in Nat, NEW a, NEW o, NEW t, NEW q, NEW n, InOrder(a, o, t, q, n, c),
         NEW r, r = CacheOf(k, v, a, o, c, n, t), NEW i \in 1 .. n, NEW p, IsRemoved(o, p, q, i - 1, n),
         \A s \in o \ {q[i]} : a[s] > 0
  PROVE  \E b, u : /\ CacheTouched(r, q[i]) = CacheOf(k, v, b, o, c, n, u) /\ InOrder(b, o, u, Append(p, q[i]), n, c)
                   /\ (t < ClockEnd => u <= ClockEnd + 1) /\ \A s \in o : b[s] > 0
<1>0. r.clock = t /\ t \in Nat \ {0} /\ o \in SUBSET Slots(c)
  BY CacheFields DEF InOrder
<1>1. PICK b, u, y : /\ y = CacheOf(k, v, b, o, c, n, u) /\ InOrder(b, o, u, q, n, c) /\ u <= t + 1
                     /\ (t >= ClockLimit \/ u = t) /\ (\A s \in o \ {q[i]} : b[s] > 0)
                     /\ y = IF t >= ClockLimit THEN cache_rebase_ages(r) ELSE r
  <2>1. CASE t >= ClockLimit
    <3>1. PICK b, u : /\ cache_rebase_ages(r) = CacheOf(k, v, b, o, c, n, u) /\ InOrder(b, o, u, q, n, c)
                      /\ u <= t + 1 /\ \A s \in o : b[s] > 0
      BY RebasedIs
    <3> QED BY <2>1, <3>1
  <2>2. CASE ~(t >= ClockLimit)
    BY <1>0, <2>2
  <2> QED BY <2>1, <2>2
<1>2. PICK s : s = q[i]
  OBVIOUS
<1>3. PICK d : d = [b EXCEPT ![s] = u]
  OBVIOUS
<1>4. u \in Nat \ {0} /\ InOrder(d, o, u + 1, Append(p, s), n, c)
  <2>1. u \in Nat \ {0}
    BY <1>1 DEF InOrder
  <2>2. InOrder(b, o, u, q, n, c) /\ d = [b EXCEPT ![q[i]] = u]
    BY <1>1, <1>2, <1>3
  <2>3. InOrder(d, o, u + 1, Append(p, q[i]), n, c)
    BY <2>2, OrderUsed
  <2> QED BY <1>2, <2>1, <2>3
<1>5. CacheTouched(r, s) = CacheOf(k, v, d, o, c, n, u + 1)
  <2>1. CacheTouched(r, s) = [y EXCEPT !.ages[s] = y.clock, !.clock = y.clock + 1]
    BY <1>0, <1>1 DEF CacheTouched
  <2>0. y = CacheOf(k, v, b, o, c, n, u)
    BY <1>1
  <2>2. y.ages = b /\ y.clock = u
    BY <2>0 DEF CacheOf
  <2>3. [y.ages EXCEPT ![s] = y.clock] = d /\ y.clock + 1 = u + 1
    BY <1>3, <2>2
  <2>4. CacheTouched(r, s) = CacheOf(k, v, [y.ages EXCEPT ![s] = y.clock], o, c, n, y.clock + 1)
    BY <2>0, <2>1 DEF CacheOf
  <2> QED BY <2>3, <2>4
<1>6. t < ClockEnd => u + 1 <= ClockEnd + 1
  <2>1. ClockEnd \in Nat /\ ClockLimit \in Nat
    BY ContainerAssumption
  <2> QED BY <1>0, <1>1, <1>4, <2>1
<1>7. \A x \in o : d[x] > 0
  <2> SUFFICES ASSUME NEW x \in o PROVE d[x] > 0
    OBVIOUS
  <2>1. b \in [Slots(c) -> Nat] /\ x \in Slots(c)
    BY <1>0, <1>1 DEF InOrder
  <2>2. CASE x = s
    BY <1>3, <1>4, <2>1, <2>2
  <2>3. CASE x # s
    BY <1>1, <1>2, <1>3, <2>1, <2>3
  <2> QED BY <2>2, <2>3
<1> QED BY <1>2, <1>4, <1>5, <1>6, <1>7

-----------------------------------------------------------------------------
(* The cache: the entries of the occupied slots. *)

(* The occupied slots o hold keys and values, no key twice. *)
Keyed(k, v, o, c) ==
  /\ k \in [Slots(c) -> Keys \cup {Junk}] /\ v \in [Slots(c) -> Stored \cup {Junk}]
  /\ \A s \in o : k[s] \in Keys /\ v[s] \in Stored
  /\ \A s, t \in o : k[s] = k[t] => s = t

(* The entries of the slots q, in their order. *)
EntriesOn(k, v, q, n) == [i \in 1 .. n |-> <<k[q[i]], v[q[i]]>>]

(* The order that cache_copy_lru_keys walks is the order of the slots. *)
LEMMA CacheOrderIs ==
  ASSUME NEW k, NEW v, NEW c \in Nat, NEW a, NEW o, NEW t, NEW q, NEW n, InOrder(a, o, t, q, n, c),
         NEW r, r = CacheOf(k, v, a, o, c, n, t)
  PROVE  CacheOrder(r) = q /\ CacheEntries(r) = EntriesOn(k, v, q, n) /\ q = [i \in 1 .. n |-> q[i]]
<1>0. r.occupied = o /\ r.ages = a /\ r.length = n /\ r.keys = k /\ r.values = v
  BY CacheFields
<1>1. n \in Nat /\ q = [i \in 1 .. n |-> q[i]] /\ IsOrder(q, n, o, a) /\ \A s \in o : a[s] \in Nat
  BY LenProperties DEF InOrder, IsOrder
<1>2. \A i \in 1 .. n : q[i] \in o /\ Cardinality(UsedBefore(r, q[i])) = i - 1
  <2> SUFFICES ASSUME NEW i \in 1 .. n PROVE q[i] \in o /\ Cardinality(UsedBefore(r, q[i])) = i - 1
    OBVIOUS
  <2>1. q[i] \in o
    BY InOrderItem
  <2>2. Cardinality(Older(o, a, q[i])) = i - 1
    BY <1>1, OrderRank
  <2>3. UsedBefore(r, q[i]) = Older(o, a, q[i])
    BY <1>0 DEF UsedBefore, Older
  <2> QED BY <2>1, <2>2, <2>3
<1>3. \A i \in 1 .. n : (CHOOSE s \in o : Cardinality(UsedBefore(r, s)) = i - 1) = q[i]
  <2> SUFFICES ASSUME NEW i \in 1 .. n PROVE (CHOOSE s \in o : Cardinality(UsedBefore(r, s)) = i - 1) = q[i]
    OBVIOUS
  <2>1. ASSUME NEW s \in o, Cardinality(UsedBefore(r, s)) = i - 1 PROVE s = q[i]
    <3>1. PICK j \in 1 .. n : q[j] = s
      BY <1>1 DEF IsOrder
    <3>2. j - 1 = i - 1
      BY <1>2, <2>1, <3>1
    <3>3. j = i
      BY <1>1, <3>2
    <3> QED BY <3>1, <3>3
  <2>2. q[i] \in o /\ Cardinality(UsedBefore(r, q[i])) = i - 1
    BY <1>2
  <2>3. PICK m : m = CHOOSE s \in o : Cardinality(UsedBefore(r, s)) = i - 1
    OBVIOUS
  <2>4. m \in o /\ Cardinality(UsedBefore(r, m)) = i - 1
    BY <2>2, <2>3
  <2> QED BY <2>1, <2>3, <2>4
<1>4. CacheOrder(r) = q
  <2>1. CacheOrder(r) = [i \in 1 .. n |-> CHOOSE s \in o : Cardinality(UsedBefore(r, s)) = i - 1]
    BY <1>0 DEF CacheOrder
  <2>2. [i \in 1 .. n |-> CHOOSE s \in o : Cardinality(UsedBefore(r, s)) = i - 1] = [i \in 1 .. n |-> q[i]]
    BY <1>3
  <2> QED BY <1>1, <2>1, <2>2
<1>5. CacheEntries(r) = EntriesOn(k, v, q, n)
  <2>1. DOMAIN q = 1 .. n
    BY <1>1
  <2> QED BY <1>0, <1>4, <2>1 DEF CacheEntries, EntriesOn
<1> QED BY <1>1, <1>4, <1>5

(* The entries are pairs of a key and a value, ... *)
LEMMA EntriesSeq ==
  ASSUME NEW k, NEW v, NEW c \in Nat, NEW a, NEW o, NEW t, NEW q, NEW n, InOrder(a, o, t, q, n, c), Keyed(k, v, o, c)
  PROVE  EntriesOn(k, v, q, n) \in Seq(Keys \X Stored) /\ Len(EntriesOn(k, v, q, n)) = n /\ n \in Nat
<1>1. \A i \in 1 .. n : q[i] \in o
  BY InOrderItem
<1>2. \A i \in 1 .. n : k[q[i]] \in Keys /\ v[q[i]] \in Stored
  BY <1>1 DEF Keyed
<1>3. n \in Nat
  BY DEF InOrder
<1>4. EntriesOn(k, v, q, n) \in [1 .. n -> Keys \X Stored]
  BY <1>2 DEF EntriesOn
<1> QED BY <1>3, <1>4, FunctionIsSeq

(* ... one for each slot of the order, ... *)
LEMMA EntriesItem ==
  ASSUME NEW k, NEW v, NEW q, NEW n, NEW i \in 1 .. n
  PROVE  /\ EntriesOn(k, v, q, n)[i] = <<k[q[i]], v[q[i]]>>
         /\ EntriesOn(k, v, q, n)[i][1] = k[q[i]] /\ EntriesOn(k, v, q, n)[i][2] = v[q[i]]
BY DEF EntriesOn

(* ... and none has the key of another. *)
LEMMA EntriesDiffer ==
  ASSUME NEW k, NEW v, NEW c \in Nat, NEW a, NEW o, NEW t, NEW q, NEW n, InOrder(a, o, t, q, n, c), Keyed(k, v, o, c),
         NEW i \in 1 .. n, NEW j \in 1 .. n, EntriesOn(k, v, q, n)[i][1] = EntriesOn(k, v, q, n)[j][1]
  PROVE  i = j
<1>1. q[i] \in o /\ q[j] \in o /\ k[q[i]] = k[q[j]]
  BY InOrderItem, EntriesItem
<1>2. q[i] = q[j]
  BY <1>1 DEF Keyed
<1>3. PICK d \in [o -> Nat] : d = [s \in o |-> a[s]]
  BY DEF InOrder
<1>4. IsOrder(q, n, o, d)
  BY <1>3, OrderStays DEF InOrder
<1> QED BY <1>2, <1>3, <1>4, OrderOnce

(* A key is in one slot, or none. *)
Found(k, q, n, r, key) ==
  \/ \E i \in 1 .. n : k[q[i]] = key /\ CacheHolds(r, key) = {q[i]} /\ Least(CacheHolds(r, key)) = q[i]
  \/ CacheHolds(r, key) = {} /\ \A i \in 1 .. n : k[q[i]] # key

(* The search for a key finds the one slot that has it, or none. *)
LEMMA HoldsIs ==
  ASSUME NEW k, NEW v, NEW c \in Nat, NEW a, NEW o, NEW t, NEW q, NEW n, InOrder(a, o, t, q, n, c), Keyed(k, v, o, c),
         NEW r, r = CacheOf(k, v, a, o, c, n, t), NEW key
  PROVE  Found(k, q, n, r, key)
<1>1. \A i \in 1 .. n : q[i] \in o /\ q[i] \in Nat
  BY InOrderItem
<1>2. \A s \in o : \E i \in 1 .. n : q[i] = s
  BY DEF InOrder, IsOrder
<1>3. CacheHolds(r, key) = {s \in o : k[s] = key}
  BY CacheFields DEF CacheHolds
<1>4. CASE \E i \in 1 .. n : k[q[i]] = key
  <2>1. PICK i \in 1 .. n : k[q[i]] = key
    BY <1>4
  <2>2. {s \in o : k[s] = key} = {q[i]}
    BY <1>1, <2>1 DEF Keyed
  <2>3. CacheHolds(r, key) = {q[i]} /\ Least({q[i]}) = q[i]
    BY <1>1, <1>3, <2>2, LeastOfOne
  <2> QED BY <2>1, <2>3 DEF Found
<1>5. CASE \A i \in 1 .. n : k[q[i]] # key
  BY <1>2, <1>3, <1>5 DEF Found
<1> QED BY <1>4, <1>5

(* There is a free slot as long as the length is below the capacity. *)
LEMMA FreeIs ==
  ASSUME NEW k, NEW v, NEW c \in Nat, NEW a, NEW o, NEW t, NEW q, NEW n, InOrder(a, o, t, q, n, c),
         NEW r, r = CacheOf(k, v, a, o, c, n, t)
  PROVE  /\ n <= c /\ (n = c <=> CacheFree(r) = {})
         /\ CacheFree(r) # {} => Least(CacheFree(r)) \in Slots(c) \ o
<1>1. o \in SUBSET Slots(c) /\ n \in Nat /\ IsFiniteSet(o) /\ Cardinality(o) = n
  BY DEF InOrder
<1>2. IsFiniteSet(Slots(c)) /\ Cardinality(Slots(c)) = c
  <2>1. 0 \in Int /\ c - 1 \in Int
    OBVIOUS
  <2>2. IsFiniteSet(0 .. c - 1) /\ Cardinality(0 .. c - 1) = IF 0 > c - 1 THEN 0 ELSE c - 1 - 0 + 1
    BY <2>1, FS_Interval
  <2> QED BY <2>2 DEF Slots
<1>3. Cardinality(o) <= Cardinality(Slots(c)) /\ (Cardinality(Slots(c)) = Cardinality(o) => Slots(c) = o)
  BY <1>1, <1>2, FS_Subset
<1>4. CacheFree(r) = Slots(c) \ o
  BY CacheFields DEF CacheFree
<1>5. n = c <=> Slots(c) \ o = {}
  BY <1>1, <1>2, <1>3
<1>6. ASSUME Slots(c) \ o # {} PROVE Least(Slots(c) \ o) \in Slots(c) \ o
  <2>1. Slots(c) \ o \in SUBSET Nat
    BY DEF Slots
  <2>2. \E first \in Slots(c) \ o : \A other \in Slots(c) \ o : first <= other
    BY <1>6, <2>1, LeastOf
  <2> QED BY <2>2 DEF Least
<1> QED BY <1>1, <1>2, <1>3, <1>4, <1>5, <1>6

(* An entry removed from the map, item by item. *)
LEMMA LruRemoveAtIs ==
  ASSUME NEW V, NEW s \in Seq(V), NEW n \in Nat, n = Len(s), NEW i \in 1 .. n, NEW t, t = Lru!RemoveAt(s, i)
  PROVE  IsRemoved(V, t, s, i - 1, n)
<1>1. PICK x \in 0 .. n - 1 : x = i - 1 /\ x + 1 = i
  OBVIOUS
<1>2. t = Sequence!RemoveAt(s, x + 1)
  BY <1>1 DEF Lru!RemoveAt, Sequence!RemoveAt
<1>3. IsRemoved(V, t, s, x, n)
  BY <1>2, RemoveAtIs
<1> QED BY <1>1, <1>3

(* Where the map has a key, and what it is without. *)
LEMMA PlaceIs ==
  ASSUME NEW e, NEW V, e \in Seq(V), NEW n \in Nat, Len(e) = n, CacheEntries(store) = e,
         \A i, j \in 1 .. n : e[i][1] = e[j][1] => i = j, NEW i \in 1 .. n, NEW key, e[i][1] = key
  PROVE  /\ Lru!Has(key) /\ Lru!EntriesOf(key) = <<e[i]>> /\ Lru!Others(key) = Lru!RemoveAt(e, i)
<1>1. DOMAIN e = 1 .. n
  BY LenProperties
<1>2. Lru!Has(key)
  BY <1>1 DEF Lru!Has
<1>3. Lru!Place(key) = i
  <2>1. PICK m : m = CHOOSE j \in 1 .. n : e[j][1] = key
    OBVIOUS
  <2>2. m \in 1 .. n /\ e[m][1] = key
    BY <2>1
  <2>3. m = i
    BY <2>2
  <2>4. Lru!Place(key) = m
    BY <1>1, <2>1 DEF Lru!Place
  <2> QED BY <2>3, <2>4
<1> QED BY <1>2, <1>3 DEF Lru!EntriesOf, Lru!Others

(* The map has no place for a key that no entry has. *)
LEMMA NoPlace ==
  ASSUME NEW e, NEW V, e \in Seq(V), NEW n \in Nat, Len(e) = n, CacheEntries(store) = e,
         NEW key, \A i \in 1 .. n : e[i][1] # key
  PROVE  ~Lru!Has(key) /\ Lru!EntriesOf(key) = <<>> /\ Lru!Others(key) = e
<1>1. DOMAIN e = 1 .. n
  BY LenProperties
<1>2. ~Lru!Has(key)
  BY <1>1 DEF Lru!Has
<1> QED BY <1>2 DEF Lru!EntriesOf, Lru!Others

(* Entries without the one in slot q[i]. *)
LEMMA EntriesRemoved ==
  ASSUME NEW c \in Nat, NEW a, NEW o, NEW t, NEW q, NEW n, InOrder(a, o, t, q, n, c), NEW i \in 1 .. n,
         NEW p, IsRemoved(o, p, q, i - 1, n), NEW k, NEW v, Keyed(k, v, o, c), NEW e, e = EntriesOn(k, v, q, n),
         NEW l, NEW w, \A s \in o \ {q[i]} : l[s] = k[s] /\ w[s] = v[s]
  PROVE  EntriesOn(l, w, p, n - 1) = Lru!RemoveAt(e, i)
<1>1. n \in Nat /\ \A s \in o : a[s] \in Nat
  BY DEF InOrder
<1>2. e \in Seq(Keys \X Stored) /\ Len(e) = n /\ \A j \in 1 .. n : e[j] = <<k[q[j]], v[q[j]]>>
  <2>1. e \in Seq(Keys \X Stored) /\ Len(e) = n
    BY EntriesSeq
  <2> QED BY <2>1 DEF EntriesOn
<1>3. PICK u : u = Lru!RemoveAt(e, i)
  OBVIOUS
<1>4. IsRemoved(Keys \X Stored, u, e, i - 1, n)
  BY <1>1, <1>2, <1>3, LruRemoveAtIs
<1>5. u = [j \in 1 .. n - 1 |-> u[j]] /\ \A j \in 1 .. n - 1 : u[j] = IF j <= i - 1 THEN e[j] ELSE e[j + 1]
  BY <1>4, LenProperties DEF IsRemoved
<1>6. IsOrder(p, n - 1, o \ {q[i]}, a)
  <2>1. IsOrder(q, n, o, a)
    BY DEF InOrder
  <2> QED BY <1>1, <2>1, OrderWithout
<1>7. \A j \in 1 .. n - 1 : p[j] \in o \ {q[i]} /\ p[j] = IF j <= i - 1 THEN q[j] ELSE q[j + 1]
  BY <1>6, OrderItem DEF IsRemoved
<1>8. \A j \in 1 .. n - 1 : <<l[p[j]], w[p[j]]>> = u[j]
  <2> SUFFICES ASSUME NEW j \in 1 .. n - 1 PROVE <<l[p[j]], w[p[j]]>> = u[j]
    OBVIOUS
  <2>1. j \in 1 .. n /\ j + 1 \in 1 .. n
    BY <1>1
  <2>2. l[p[j]] = k[p[j]] /\ w[p[j]] = v[p[j]]
    <3>1. p[j] \in o \ {q[i]}
      BY <1>7
    <3>2. PICK x \in o \ {q[i]} : x = p[j]
      BY <3>1
    <3> QED BY <3>2
  <2>3. CASE j <= i - 1
    <3>1. u[j] = e[j] /\ p[j] = q[j]
      BY <1>5, <1>7, <2>3
    <3>2. e[j] = <<k[q[j]], v[q[j]]>>
      BY <1>2, <2>1
    <3> QED BY <2>2, <3>1, <3>2
  <2>4. CASE ~(j <= i - 1)
    <3>1. u[j] = e[j + 1] /\ p[j] = q[j + 1]
      BY <1>5, <1>7, <2>4
    <3>2. e[j + 1] = <<k[q[j + 1]], v[q[j + 1]]>>
      BY <1>2, <2>1
    <3> QED BY <2>2, <3>1, <3>2
  <2> QED BY <2>3, <2>4
<1>9. EntriesOn(l, w, p, n - 1) = u
  BY <1>5, <1>8 DEF EntriesOn
<1> QED BY <1>3, <1>9

(* Entries with one more. *)
LEMMA EntriesAppended ==
  ASSUME NEW o, NEW q, NEW n \in Nat, q \in Seq(o), Len(q) = n, NEW s \in o, NEW k, NEW v, NEW e, e = EntriesOn(k, v, q, n)
  PROVE  EntriesOn(k, v, Append(q, s), n + 1) = Append(e, <<k[s], v[s]>>)
<1>1. PICK u : u = Append(q, s)
  OBVIOUS
<1>2. u[n + 1] = s /\ \A i \in 1 .. n : u[i] = q[i]
  BY <1>1, AppendProperties
<1>3. PICK V : V = {<<k[x], v[x]>> : x \in o}
  OBVIOUS
<1>4. e \in [1 .. n -> V]
  <2>1. \A i \in 1 .. n : q[i] \in o
    BY ElementOfSeq
  <2> QED BY <1>3, <2>1 DEF EntriesOn
<1>5. e \in Seq(V) /\ Len(e) = n
  BY <1>4, FunctionIsSeq
<1>6. PICK x \in V : x = <<k[s], v[s]>>
  BY <1>3
<1>7. PICK f : f = Append(e, x)
  OBVIOUS
<1>8. f \in Seq(V) /\ Len(f) = n + 1 /\ f[n + 1] = x /\ \A i \in 1 .. n : f[i] = e[i]
  BY <1>5, <1>7, AppendProperties
<1>9. f = [i \in 1 .. n + 1 |-> f[i]]
  BY <1>8, LenProperties
<1>10. \A i \in 1 .. n + 1 : <<k[u[i]], v[u[i]]>> = f[i]
  <2> SUFFICES ASSUME NEW i \in 1 .. n + 1 PROVE <<k[u[i]], v[u[i]]>> = f[i]
    OBVIOUS
  <2>1. CASE i = n + 1
    BY <1>2, <1>6, <1>8, <2>1
  <2>2. CASE i # n + 1
    <3>1. i \in 1 .. n
      BY <2>2
    <3>2. e[i] = <<k[q[i]], v[q[i]]>>
      BY <3>1 DEF EntriesOn
    <3> QED BY <1>2, <1>8, <3>1, <3>2
  <2> QED BY <2>1, <2>2
<1>11. EntriesOn(k, v, u, n + 1) = f
  BY <1>9, <1>10 DEF EntriesOn
<1> QED BY <1>1, <1>6, <1>7, <1>11

-----------------------------------------------------------------------------
(* The cache: each call is the same call of a map that drops the oldest. *)

(* r is a cache of capacity c whose n occupied slots are, by age, q. *)
CacheIs(r, k, v, a, o, c, n, t, q) ==
  /\ r = CacheOf(k, v, a, o, c, n, t) /\ InOrder(a, o, t, q, n, c) /\ Keyed(k, v, o, c)
  /\ (\A s \in o : a[s] > 0) /\ t <= ClockEnd + 1

(* The container is a cache of capacity c. *)
CacheAt(c) == object = "cache" /\ c \in Capacities /\ \E k, v, a, o, n, t, q : CacheIs(store, k, v, a, o, c, n, t, q)

(* A step of the map after which there still is a cache of capacity c. *)
CacheKept(c) == Lru!LruNext /\ CacheAt(c)'

(* The parts of a cache, ... *)
LEMMA CacheParts ==
  ASSUME NEW k, NEW v, NEW a, NEW o, NEW c \in Nat, NEW n, NEW t, NEW q, NEW r, CacheIs(r, k, v, a, o, c, n, t, q)
  PROVE  InOrder(a, o, t, q, n, c) /\ Keyed(k, v, o, c) /\ r = CacheOf(k, v, a, o, c, n, t) /\ n \in Nat /\ n <= c
<1>1. InOrder(a, o, t, q, n, c) /\ Keyed(k, v, o, c) /\ r = CacheOf(k, v, a, o, c, n, t)
  BY DEF CacheIs
<1>2. n <= c
  BY <1>1, FreeIs
<1>3. n \in Nat
  BY <1>1 DEF InOrder
<1> QED BY <1>1, <1>2, <1>3

(* ... the fields of its record, ... *)
LEMMA CacheRead ==
  ASSUME NEW k, NEW v, NEW a, NEW o, NEW c, NEW n, NEW t, NEW q, NEW r, CacheIs(r, k, v, a, o, c, n, t, q)
  PROVE  /\ r.keys = k /\ r.values = v /\ r.ages = a /\ r.occupied = o /\ r.capacity = c /\ r.length = n /\ r.clock = t
         /\ (\A s \in o : a[s] > 0) /\ t <= ClockEnd + 1
<1>1. r = CacheOf(k, v, a, o, c, n, t) /\ (\A s \in o : a[s] > 0) /\ t <= ClockEnd + 1
  BY DEF CacheIs
<1> QED BY <1>1 DEF CacheOf

(* ... the entries it stands for, ... *)
LEMMA CacheHas ==
  ASSUME NEW k, NEW v, NEW a, NEW o, NEW c \in Nat, NEW n, NEW t, NEW q, NEW r, CacheIs(r, k, v, a, o, c, n, t, q)
  PROVE  /\ CacheOrder(r) = q /\ CacheEntries(r) = EntriesOn(k, v, q, n) /\ r.capacity = c
         /\ EntriesOn(k, v, q, n) \in Seq(Keys \X Stored) /\ Len(EntriesOn(k, v, q, n)) = n
<1>1. InOrder(a, o, t, q, n, c) /\ Keyed(k, v, o, c) /\ r = CacheOf(k, v, a, o, c, n, t)
  BY DEF CacheIs
<1>2. CacheOrder(r) = q /\ CacheEntries(r) = EntriesOn(k, v, q, n)
  BY <1>1, CacheOrderIs
<1>3. EntriesOn(k, v, q, n) \in Seq(Keys \X Stored) /\ Len(EntriesOn(k, v, q, n)) = n
  BY <1>1, EntriesSeq
<1>4. r.capacity = c
  BY <1>1 DEF CacheOf
<1> QED BY <1>2, <1>3, <1>4

(* ... and their keys. *)
LEMMA CacheDiffers ==
  ASSUME NEW k, NEW v, NEW a, NEW o, NEW c \in Nat, NEW n, NEW t, NEW q, NEW r, CacheIs(r, k, v, a, o, c, n, t, q)
  PROVE  \A i, j \in 1 .. n : EntriesOn(k, v, q, n)[i][1] = EntriesOn(k, v, q, n)[j][1] => i = j
<1>1. InOrder(a, o, t, q, n, c) /\ Keyed(k, v, o, c)
  BY DEF CacheIs
<1> QED BY <1>1, EntriesDiffer

(* A call after which the cache is of k, v, a, o, n, t and q. *)
LEMMA CacheDoes ==
  ASSUME NEW c \in Capacities, object = "cache", store.capacity = c,
         NEW k, NEW v, NEW a, NEW o, NEW n, NEW t, NEW q, CacheIs(store', k, v, a, o, c, n, t, q),
         NEW op, NEW arg, NEW answer, Answer(op, arg, answer)
  PROVE  /\ CacheAt(c)' /\ Lru!LruOp = op /\ Lru!LruArg = arg /\ Lru!LruDoes(answer, EntriesOn(k, v, q, n))
         /\ UNCHANGED store.capacity /\ Lru!EachKeyOnce'
<1>0. c \in Nat
  BY ContainerAssumption
<1>1. object' = "cache" /\ call' = <<op, arg, answer>>
  BY DEF Answer
<1>2. CacheAt(c)'
  <2>1. CacheIs(store, k, v, a, o, c, n, t, q)' <=> CacheIs(store', k, v, a, o, c, n, t, q)
    BY DEF CacheIs
  <2> QED BY <1>1 DEF CacheAt, CacheIs
<1>3. CacheEntries(store') = EntriesOn(k, v, q, n) /\ store'.capacity = c
  BY <1>0, CacheHas
<1>4. CacheEntries(store)' = CacheEntries(store')
  BY DEF CacheEntries, CacheOrder, UsedBefore
<1>5. Lru!LruDoes(answer, EntriesOn(k, v, q, n))
  BY <1>1, <1>3, <1>4 DEF Lru!LruDoes
<1>6. Lru!EachKeyOnce'
  <2>1. DOMAIN EntriesOn(k, v, q, n) = 1 .. n
    BY DEF EntriesOn
  <2>2. \A i, j \in 1 .. n : EntriesOn(k, v, q, n)[i][1] = EntriesOn(k, v, q, n)[j][1] => i = j
    BY <1>0, CacheDiffers
  <2> QED BY <1>3, <1>4, <2>1, <2>2 DEF Lru!EachKeyOnce
<1>7. Lru!LruOp = op /\ Lru!LruArg = arg
  BY <1>1 DEF Lru!LruOp, Lru!LruArg
<1> QED BY <1>2, <1>3, <1>5, <1>6, <1>7

(* A call that changes nothing. *)
LEMMA CacheLooks ==
  ASSUME NEW c \in Capacities, object = "cache",
         NEW k, NEW v, NEW a, NEW o, NEW n, NEW t, NEW q, CacheIs(store, k, v, a, o, c, n, t, q),
         NEW op, NEW arg, NEW answer, Stay(op, arg, answer)
  PROVE  /\ CacheAt(c)' /\ Lru!LruOp = op /\ Lru!LruArg = arg /\ Lru!LruDoes(answer, CacheEntries(store))
         /\ UNCHANGED store.capacity /\ Lru!EachKeyOnce'
<1>1. c \in Nat /\ store' = store /\ Answer(op, arg, answer)
  BY ContainerAssumption DEF Stay
<1>2. CacheIs(store', k, v, a, o, c, n, t, q)
  BY <1>1
<1>3. store.capacity = c /\ CacheEntries(store) = EntriesOn(k, v, q, n)
  BY <1>1, CacheHas
<1> QED BY <1>1, <1>2, <1>3, CacheDoes

(* The key is in the slot q[i], in the array as in the map, ... *)
HeldAt(k, v, q, n, key, i) ==
  /\ k[q[i]] = key /\ CacheHolds(store, key) # {} /\ Least(CacheHolds(store, key)) = q[i]
  /\ Lru!EntriesOf(key) = <<<<k[q[i]], v[q[i]]>>>>
  /\ Lru!Others(key) = Lru!RemoveAt(EntriesOn(k, v, q, n), i)

(* ... or it is in neither. *)
HeldNowhere(k, v, q, n, key) ==
  /\ CacheHolds(store, key) = {} /\ \A i \in 1 .. n : k[q[i]] # key
  /\ Lru!EntriesOf(key) = <<>> /\ Lru!Others(key) = EntriesOn(k, v, q, n)

(* The search for a key in the array finds what the map has for it. *)
LEMMA CacheFinds ==
  ASSUME NEW c \in Capacities, NEW k, NEW v, NEW a, NEW o, NEW n, NEW t, NEW q, CacheIs(store, k, v, a, o, c, n, t, q),
         NEW key
  PROVE  HeldNowhere(k, v, q, n, key) \/ \E i \in 1 .. n : HeldAt(k, v, q, n, key, i)
<1>1. /\ c \in Nat /\ n \in Nat /\ store = CacheOf(k, v, a, o, c, n, t) /\ InOrder(a, o, t, q, n, c) /\ Keyed(k, v, o, c)
      /\ CacheEntries(store) = EntriesOn(k, v, q, n)
  <2>1. c \in Nat
    BY ContainerAssumption
  <2> QED BY <2>1, CacheParts, CacheHas
<1>2. EntriesOn(k, v, q, n) \in Seq(Keys \X Stored) /\ Len(EntriesOn(k, v, q, n)) = n
  BY <1>1, CacheHas
<1>3. \A i, j \in 1 .. n : EntriesOn(k, v, q, n)[i][1] = EntriesOn(k, v, q, n)[j][1] => i = j
  BY <1>1, CacheDiffers
<1>4. PICK e : e = EntriesOn(k, v, q, n)
  OBVIOUS
<1>5. ASSUME NEW i \in 1 .. n, k[q[i]] = key
      PROVE  Lru!EntriesOf(key) = <<e[i]>> /\ Lru!Others(key) = Lru!RemoveAt(e, i)
  <2>1. e[i][1] = key
    BY <1>4, <1>5, EntriesItem
  <2>2. e \in Seq(Keys \X Stored) /\ Len(e) = n /\ CacheEntries(store) = e /\ \A x, y \in 1 .. n : e[x][1] = e[y][1] => x = y
    BY <1>1, <1>2, <1>3, <1>4
  <2> QED BY <1>1, <2>1, <2>2, PlaceIs
<1>6. ASSUME \A i \in 1 .. n : k[q[i]] # key
      PROVE  Lru!EntriesOf(key) = <<>> /\ Lru!Others(key) = e
  <2>1. \A i \in 1 .. n : e[i][1] # key
    BY <1>4, <1>6, EntriesItem
  <2>2. e \in Seq(Keys \X Stored) /\ Len(e) = n /\ CacheEntries(store) = e
    BY <1>1, <1>2, <1>4
  <2> QED BY <1>1, <2>1, <2>2, NoPlace
<1>7. \/ \E i \in 1 .. n : k[q[i]] = key /\ CacheHolds(store, key) = {q[i]} /\ Least(CacheHolds(store, key)) = q[i]
      \/ CacheHolds(store, key) = {} /\ \A i \in 1 .. n : k[q[i]] # key
  <2>1. Found(k, q, n, store, key)
    BY <1>1, HoldsIs
  <2> QED BY <2>1 DEF Found
<1>8. CASE \E i \in 1 .. n : k[q[i]] = key /\ CacheHolds(store, key) = {q[i]} /\ Least(CacheHolds(store, key)) = q[i]
  <2>1. PICK i \in 1 .. n : k[q[i]] = key /\ CacheHolds(store, key) = {q[i]} /\ Least(CacheHolds(store, key)) = q[i]
    BY <1>8
  <2>2. e[i] = <<k[q[i]], v[q[i]]>>
    BY <1>4, EntriesItem
  <2>3. Lru!EntriesOf(key) = <<e[i]>> /\ Lru!Others(key) = Lru!RemoveAt(e, i)
    BY <1>5, <2>1
  <2>4. CacheHolds(store, key) # {}
    BY <2>1
  <2> QED BY <1>4, <2>1, <2>2, <2>3, <2>4 DEF HeldAt
<1>9. CASE CacheHolds(store, key) = {} /\ \A i \in 1 .. n : k[q[i]] # key
  BY <1>4, <1>6, <1>9 DEF HeldNowhere
<1> QED BY <1>7, <1>8, <1>9

(* r is a cache of capacity c with the entries e. *)
CacheWith(r, c, e) == \E k, v, a, o, n, t, q : CacheIs(r, k, v, a, o, c, n, t, q) /\ EntriesOn(k, v, q, n) = e

(* How a call of the cache is one of the map. *)
Does(c, op, arg, answer, e) ==
  /\ CacheAt(c)' /\ Lru!LruOp = op /\ Lru!LruArg = arg /\ Lru!LruDoes(answer, e)
  /\ UNCHANGED store.capacity /\ Lru!EachKeyOnce'

(* A call with this answer that leaves these entries is a call of the map. *)
LEMMA CacheWithDoes ==
  ASSUME NEW c \in Capacities, object = "cache", store.capacity = c, NEW e, CacheWith(store', c, e),
         NEW op, NEW arg, NEW answer, Answer(op, arg, answer)
  PROVE  Does(c, op, arg, answer, e)
<1>1. PICK k, v, a, o, n, t, q : CacheIs(store', k, v, a, o, c, n, t, q) /\ EntriesOn(k, v, q, n) = e
  BY DEF CacheWith
<1>2. /\ CacheAt(c)' /\ Lru!LruOp = op /\ Lru!LruArg = arg /\ Lru!LruDoes(answer, EntriesOn(k, v, q, n))
      /\ UNCHANGED store.capacity /\ Lru!EachKeyOnce'
  BY <1>1, CacheDoes
<1> QED BY <1>1, <1>2 DEF Does

(* So is a call that changes nothing. *)
LEMMA CacheStaysDoes ==
  ASSUME NEW c \in Capacities, object = "cache", NEW e, CacheWith(store, c, e),
         NEW op, NEW arg, NEW answer, Stay(op, arg, answer)
  PROVE  Does(c, op, arg, answer, e)
<1>1. PICK k, v, a, o, n, t, q : CacheIs(store, k, v, a, o, c, n, t, q) /\ EntriesOn(k, v, q, n) = e
  BY DEF CacheWith
<1>2. store' = store /\ Answer(op, arg, answer)
  BY DEF Stay
<1>3. store.capacity = c
  BY <1>1, CacheRead
<1>4. CacheWith(store', c, e)
  BY <1>1, <1>2 DEF CacheWith
<1> QED BY <1>2, <1>3, <1>4, CacheWithDoes

(* The slot q[i] is used, with another key and value or as it was. *)
LEMMA UseAt ==
  ASSUME NEW c \in Nat, NEW a, NEW o, NEW t, NEW q, NEW n, InOrder(a, o, t, q, n, c), t < ClockEnd,
         NEW k, NEW v, Keyed(k, v, o, c), NEW i \in 1 .. n, \A s \in o : a[s] > 0,
         NEW l, NEW w, Keyed(l, w, o, c), \A s \in o \ {q[i]} : l[s] = k[s] /\ w[s] = v[s],
         NEW r, r = CacheOf(l, w, a, o, c, n, t), NEW e, e = EntriesOn(k, v, q, n)
  PROVE  CacheWith(CacheTouched(r, q[i]), c, Append(Lru!RemoveAt(e, i), <<l[q[i]], w[q[i]]>>))
<1>1. n \in Nat /\ q \in Seq(o) /\ Len(q) = n /\ q[i] \in o
  BY InOrderItem DEF InOrder, IsOrder
<1>2. PICK p : p = Lru!RemoveAt(q, i)
  OBVIOUS
<1>3. IsRemoved(o, p, q, i - 1, n)
  BY <1>1, <1>2, LruRemoveAtIs
<1>4. PICK b, u : /\ CacheTouched(r, q[i]) = CacheOf(l, w, b, o, c, n, u) /\ InOrder(b, o, u, Append(p, q[i]), n, c)
                  /\ (t < ClockEnd => u <= ClockEnd + 1) /\ \A s \in o : b[s] > 0
  BY <1>3, TouchedIs
<1>5. CacheIs(CacheTouched(r, q[i]), l, w, b, o, c, n, u, Append(p, q[i]))
  BY <1>4 DEF CacheIs
<1>6. EntriesOn(l, w, p, n - 1) = Lru!RemoveAt(e, i)
  BY <1>3, EntriesRemoved
<1>7. p \in Seq(o) /\ Len(p) = n - 1 /\ n - 1 \in Nat
  BY <1>1, <1>3 DEF IsRemoved
<1>8. EntriesOn(l, w, Append(p, q[i]), n) = Append(EntriesOn(l, w, p, n - 1), <<l[q[i]], w[q[i]]>>)
  <2>1. PICK m, d : m = n - 1 /\ d = EntriesOn(l, w, p, m)
    OBVIOUS
  <2>2. m \in Nat /\ Len(p) = m /\ m + 1 = n
    BY <1>1, <1>7, <2>1
  <2>3. EntriesOn(l, w, Append(p, q[i]), m + 1) = Append(d, <<l[q[i]], w[q[i]]>>)
    BY <1>1, <1>7, <2>1, <2>2, EntriesAppended
  <2> QED BY <2>1, <2>2, <2>3
<1> QED BY <1>5, <1>6, <1>8 DEF CacheWith

(* A free slot is used. *)
LEMMA UseFree ==
  ASSUME NEW c \in Nat, NEW a, NEW o, NEW t, NEW q, NEW n, InOrder(a, o, t, q, n, c), t < ClockEnd,
         NEW k, NEW v, NEW s \in Slots(c) \ o, \A x \in o : a[x] > 0,
         NEW l, NEW w, Keyed(l, w, o \cup {s}, c), \A x \in o : l[x] = k[x] /\ w[x] = v[x],
         NEW r, r = CacheOf(l, w, a, o \cup {s}, c, n + 1, t), NEW e, e = EntriesOn(k, v, q, n)
  PROVE  CacheWith(CacheTouched(r, s), c, Append(e, <<l[s], w[s]>>))
<1>1. /\ n \in Nat /\ q \in Seq(o) /\ Len(q) = n /\ IsOrder(q, n, o, a) /\ a[s] = 0 /\ o \in SUBSET Slots(c)
      /\ a \in [Slots(c) -> Nat] /\ t \in Nat \ {0} /\ (\A x \in o : a[x] < t) /\ \A x \in Slots(c) \ o : a[x] = 0
  BY DEF InOrder, IsOrder
<1>2. PICK y, z, m : y = o \cup {s} /\ z = <<s>> \o q /\ m = n + 1
  OBVIOUS
<1>3. IsOrder(z, m, y, a)
  BY <1>1, <1>2, OrderPrepended
<1>4. IsFiniteSet(y) /\ Cardinality(y) = m
  <2>1. IsFiniteSet(o) /\ Cardinality(o) = n
    BY DEF InOrder
  <2> QED BY <1>2, <2>1, FS_AddElement
<1>5. InOrder(a, y, t, z, m, c)
  <2>1. y \in SUBSET Slots(c) /\ m \in Nat /\ (\A x \in y : a[x] < t) /\ \A x \in Slots(c) \ y : a[x] = 0
    BY <1>1, <1>2
  <2> QED BY <1>1, <1>3, <1>4, <2>1 DEF InOrder
<1>6. Len(z) = m /\ z[1] = s /\ \A i \in 1 .. n : z[i + 1] = q[i]
  BY <1>1, <1>2
<1>7. IsRemoved(y, q, z, 0, m)
  <2>1. q \in Seq(y)
    BY <1>1, <1>2
  <2> QED BY <1>1, <1>2, <1>6, <2>1 DEF IsRemoved
<1>8. PICK b, u : /\ CacheTouched(r, s) = CacheOf(l, w, b, y, c, m, u) /\ InOrder(b, y, u, Append(q, s), m, c)
                  /\ (t < ClockEnd => u <= ClockEnd + 1) /\ \A x \in y : b[x] > 0
  <2>1. 1 \in 1 .. m /\ 1 - 1 = 0 /\ \A x \in y \ {z[1]} : a[x] > 0
    BY <1>1, <1>2, <1>6
  <2>2. r = CacheOf(l, w, a, y, c, m, t) /\ IsRemoved(y, q, z, 1 - 1, m)
    BY <1>2, <1>7
  <2>3. \E b, u : /\ CacheTouched(r, z[1]) = CacheOf(l, w, b, y, c, m, u) /\ InOrder(b, y, u, Append(q, z[1]), m, c)
                  /\ (t < ClockEnd => u <= ClockEnd + 1) /\ \A x \in y : b[x] > 0
    <3>1. PICK i : i = 1
      OBVIOUS
    <3>2. i \in 1 .. m /\ IsRemoved(y, q, z, i - 1, m) /\ \A x \in y \ {z[i]} : a[x] > 0
      BY <2>1, <2>2, <3>1
    <3>3. \E b, u : /\ CacheTouched(r, z[i]) = CacheOf(l, w, b, y, c, m, u) /\ InOrder(b, y, u, Append(q, z[i]), m, c)
                    /\ (t < ClockEnd => u <= ClockEnd + 1) /\ \A x \in y : b[x] > 0
      BY <1>5, <2>2, <3>2, TouchedIs
    <3> QED BY <3>1, <3>3
  <2> QED BY <1>6, <2>3
<1>9. CacheIs(CacheTouched(r, s), l, w, b, y, c, m, u, Append(q, s))
  BY <1>2, <1>8 DEF CacheIs
<1>10. EntriesOn(l, w, Append(q, s), m) = Append(e, <<l[s], w[s]>>)
  <2>1. EntriesOn(l, w, q, n) = e
    <3>1. \A i \in 1 .. n : q[i] \in o
      BY <1>1, OrderItem
    <3>2. \A i \in 1 .. n : <<l[q[i]], w[q[i]]>> = <<k[q[i]], v[q[i]]>>
      BY <3>1
    <3>3. [i \in 1 .. n |-> <<l[q[i]], w[q[i]]>>] = [i \in 1 .. n |-> <<k[q[i]], v[q[i]]>>]
      BY <3>2
    <3> QED BY <3>3 DEF EntriesOn
  <2>2. q \in Seq(y) /\ s \in y
    BY <1>1, <1>2
  <2>3. EntriesOn(l, w, Append(q, s), n + 1) = Append(e, <<l[s], w[s]>>)
    BY <1>1, <2>1, <2>2, EntriesAppended
  <2> QED BY <1>2, <2>3
<1> QED BY <1>9, <1>10 DEF CacheWith

(* A slot that is freed leaves the order to the others. *)
LEMMA RemovedIs ==
  ASSUME NEW c \in Nat, NEW a, NEW o, NEW t, NEW q, NEW n, InOrder(a, o, t, q, n, c), t <= ClockEnd + 1,
         NEW k, NEW v, Keyed(k, v, o, c), NEW i \in 1 .. n, \A s \in o : a[s] > 0,
         NEW r, r = CacheOf(k, v, a, o, c, n, t), NEW e, e = EntriesOn(k, v, q, n)
  PROVE  CacheWith(CacheRemoved(r, q[i]), c, Lru!RemoveAt(e, i))
<1>1. /\ n \in Nat /\ q \in Seq(o) /\ Len(q) = n /\ q[i] \in o /\ IsOrder(q, n, o, a) /\ o \in SUBSET Slots(c)
      /\ a \in [Slots(c) -> Nat] /\ t \in Nat \ {0} /\ (\A x \in o : a[x] < t) /\ \A x \in Slots(c) \ o : a[x] = 0
  BY InOrderItem DEF InOrder, IsOrder
<1>2. PICK s, y, p, b, l, w, m : /\ s = q[i] /\ y = o \ {s} /\ p = Lru!RemoveAt(q, i) /\ b = [a EXCEPT ![s] = 0]
                                 /\ l = [k EXCEPT ![s] = Junk] /\ w = [v EXCEPT ![s] = Junk] /\ m = n - 1
  OBVIOUS
<1>3. IsRemoved(o, p, q, i - 1, n)
  BY <1>1, <1>2, LruRemoveAtIs
<1>4. s \in Slots(c) /\ b \in [Slots(c) -> Nat] /\ (\A x \in y : b[x] = a[x]) /\ \A x \in Slots(c) \ y : b[x] = 0
  BY <1>1, <1>2
<1>5. IsOrder(p, m, y, b)
  BY <1>1, <1>2, <1>3, <1>4, OrderWithout
<1>6. IsFiniteSet(y) /\ Cardinality(y) = m
  <2>1. IsFiniteSet(o) /\ Cardinality(o) = n
    BY DEF InOrder
  <2>2. IsFiniteSet(o \ {s}) /\ Cardinality(o \ {s}) = IF s \in o THEN Cardinality(o) - 1 ELSE Cardinality(o)
    BY <2>1, FS_RemoveElement
  <2> QED BY <1>1, <1>2, <2>1, <2>2
<1>7. InOrder(b, y, t, p, m, c)
  <2>1. y \in SUBSET Slots(c) /\ m \in Nat /\ \A x \in y : b[x] < t
    BY <1>1, <1>2, <1>4
  <2> QED BY <1>1, <1>4, <1>5, <1>6, <2>1 DEF InOrder
<1>8. Keyed(l, w, y, c)
  <2>1. l \in [Slots(c) -> Keys \cup {Junk}] /\ w \in [Slots(c) -> Stored \cup {Junk}]
    BY <1>2 DEF Keyed
  <2>2. \A x \in y : x \in o /\ l[x] = k[x] /\ w[x] = v[x]
    BY <1>1, <1>2 DEF Keyed
  <2> QED BY <2>1, <2>2 DEF Keyed
<1>9. CacheRemoved(r, s) = CacheOf(l, w, b, y, c, m, t)
  <2>1. /\ r.occupied \ {s} = y /\ [r.ages EXCEPT ![s] = 0] = b /\ r.length - 1 = m
        /\ [r.keys EXCEPT ![s] = Junk] = l /\ [r.values EXCEPT ![s] = Junk] = w
    BY <1>2 DEF CacheOf
  <2>2. CacheRemoved(r, s)
          = [r EXCEPT !.occupied = r.occupied \ {s}, !.ages = [r.ages EXCEPT ![s] = 0], !.length = r.length - 1,
                      !.keys = [r.keys EXCEPT ![s] = Junk], !.values = [r.values EXCEPT ![s] = Junk]]
    BY DEF CacheRemoved, CacheOf
  <2>3. CacheRemoved(r, s) = [r EXCEPT !.occupied = y, !.ages = b, !.length = m, !.keys = l, !.values = w]
    BY <2>1, <2>2
  <2> QED BY <2>3 DEF CacheOf
<1>10. CacheIs(CacheRemoved(r, s), l, w, b, y, c, m, t, p)
  <2>1. \A x \in y : b[x] > 0
    BY <1>2, <1>4
  <2> QED BY <1>7, <1>8, <1>9, <2>1 DEF CacheIs
<1>11. EntriesOn(l, w, p, m) = Lru!RemoveAt(e, i)
  <2>1. \A x \in o \ {q[i]} : l[x] = k[x] /\ w[x] = v[x]
    BY <1>1, <1>2 DEF Keyed
  <2>2. EntriesOn(l, w, p, n - 1) = Lru!RemoveAt(e, i)
    BY <1>3, <2>1, EntriesRemoved
  <2> QED BY <1>2, <2>2
<1> QED BY <1>2, <1>10, <1>11 DEF CacheWith

(* A rebase is none of the map's business. *)
LEMMA RebasedWith ==
  ASSUME NEW k, NEW v, NEW a, NEW o, NEW c \in Nat, NEW n, NEW t, NEW q, NEW r, CacheIs(r, k, v, a, o, c, n, t, q)
  PROVE  CacheWith(cache_rebase_ages(r), c, EntriesOn(k, v, q, n))
<1>1. /\ InOrder(a, o, t, q, n, c) /\ Keyed(k, v, o, c) /\ r = CacheOf(k, v, a, o, c, n, t)
      /\ (\A s \in o : a[s] > 0) /\ t <= ClockEnd + 1
  BY DEF CacheIs
<1>2. PICK b, u : /\ cache_rebase_ages(r) = CacheOf(k, v, b, o, c, n, u) /\ InOrder(b, o, u, q, n, c)
                  /\ u <= t + 1 /\ ((\A s \in o : a[s] > 0) => u <= t) /\ \A s \in o : b[s] > 0
  BY <1>1, RebasedIs
<1>3. u <= ClockEnd + 1
  <2>1. u \in Nat /\ t \in Nat /\ ClockEnd \in Nat
    BY <1>1, <1>2, ContainerAssumption DEF InOrder
  <2> QED BY <1>1, <1>2, <2>1
<1>4. CacheIs(cache_rebase_ages(r), k, v, b, o, c, n, u, q)
  BY <1>1, <1>2, <1>3 DEF CacheIs
<1> QED BY <1>4 DEF CacheWith

(* A cache without occupied slots, new or cleared. *)
LEMMA EmptyIs ==
  ASSUME NEW c \in Nat, NEW k, NEW v, NEW a, k = [s \in Slots(c) |-> Junk], v = [s \in Slots(c) |-> Junk],
         a = [s \in Slots(c) |-> 0], NEW r, r = CacheOf(k, v, a, {}, c, 0, 1)
  PROVE  CacheWith(r, c, <<>>)
<1>1. IsOrder(<<>>, 0, {}, a)
  BY OrderNone
<1>2. InOrder(a, {}, 1, <<>>, 0, c)
  BY <1>1, FS_EmptySet DEF InOrder
<1>3. Keyed(k, v, {}, c)
  BY DEF Keyed
<1>4. 1 <= ClockEnd + 1
  BY ContainerAssumption
<1>5. CacheIs(r, k, v, a, {}, c, 0, 1, <<>>)
  BY <1>2, <1>3, <1>4 DEF CacheIs
<1>6. EntriesOn(k, v, <<>>, 0) = <<>>
  BY DEF EntriesOn
<1> QED BY <1>5, <1>6 DEF CacheWith

(* Nothing behind a sequence, ... *)
LEMMA ConcatNone ==
  ASSUME NEW V, NEW s \in Seq(V)
  PROVE  s \o <<>> = s
BY ConcatEmptySeq

(* ... and one item behind it. *)
LEMMA ConcatOne ==
  ASSUME NEW V, NEW s \in Seq(V), NEW x \in V
  PROVE  s \o <<x>> = Append(s, x)
<1>1. PICK n : n = Len(s) /\ n \in Nat
  BY LenProperties
<1>2. PICK u : u = <<x>>
  OBVIOUS
<1>3. u \in Seq(V) /\ Len(u) = 1 /\ u[1] = x
  BY <1>2
<1>4. /\ s \o u \in Seq(V) /\ Len(s \o u) = n + 1
      /\ \A i \in 1 .. n + 1 : (s \o u)[i] = IF i <= n THEN s[i] ELSE u[i - n]
  BY <1>1, <1>3, ConcatProperties
<1>5. Append(s, x) \in Seq(V) /\ Len(Append(s, x)) = n + 1
  BY <1>1, AppendIs
<1>6. ASSUME NEW i \in 1 .. n + 1
      PROVE  (s \o u)[i] = Append(s, x)[i]
  <2>1. Append(s, x)[i] = IF i = n + 1 THEN x ELSE s[i]
    BY <1>1, AppendItem
  <2>2. (s \o u)[i] = IF i <= n THEN s[i] ELSE u[i - n]
    BY <1>4
  <2>3. CASE i <= n
    BY <1>1, <2>1, <2>2, <2>3
  <2>4. CASE i = n + 1
    <3>1. i - n = 1 /\ ~(i <= n)
      BY <1>1, <2>4
    <3> QED BY <1>3, <2>1, <2>2, <2>4, <3>1
  <2>5. i <= n \/ i = n + 1
    BY <1>1
  <2> QED BY <2>3, <2>4, <2>5
<1>7. s \o u = Append(s, x)
  BY <1>1, <1>4, <1>5, <1>6, SeqEqual
<1> QED BY <1>2, <1>7

(* The first item of a sequence, and the sequence without it. *)
LEMMA FirstOf ==
  ASSUME NEW V, NEW s \in Seq(V), NEW n, n = Len(s), n > 0
  PROVE  SubSeq(s, 1, 1) = <<s[1]>> /\ Lru!RemoveAt(s, 1) = SubSeq(s, 2, n)
<1>1. n \in Nat
  BY LenProperties
<1>2. SubSeq(s, 1, 1) = <<s[1]>>
  <2>1. PICK m \in 0 .. Len(s), l \in 0 .. Len(s), x \in V : m = 0 /\ l = 1 /\ x = s[1]
    BY <1>1, ElementOfSeq
  <2>2. PICK p : p = SubSeq(s, m + 1, l)
    OBVIOUS
  <2>3. l \in m .. Len(s) /\ l - m = 1
    BY <1>1, <2>1
  <2>4. p \in Seq(V) /\ Len(p) = 1
    BY <2>2, <2>3, PartOf
  <2>5. p[1] = x
    <3>1. PICK j \in 1 .. l - m : j = 1
      BY <2>3
    <3>2. p[j] = s[m + j]
      BY <2>2, <2>3, PartItem
    <3> QED BY <2>1, <3>1, <3>2
  <2>6. p = <<x>>
    BY <2>4, <2>5, SeqEqual
  <2>7. m + 1 = 1 /\ l = 1 /\ x = s[1]
    BY <2>1
  <2>8. SubSeq(s, m + 1, l) = SubSeq(s, 1, 1)
    BY <2>7
  <2> QED BY <2>2, <2>6, <2>7, <2>8
<1>3. Lru!RemoveAt(s, 1) = SubSeq(s, 2, n)
  <2>1. PICK p : p = SubSeq(s, 2, n)
    OBVIOUS
  <2>2. p \in Seq(V)
    BY <2>1, RestIs
  <2>3. SubSeq(s, 1, 0) = <<>>
    BY SubSeqEmpty
  <2>4. <<>> \o p = p
    BY <2>2, ConcatEmptySeq
  <2>5. Lru!RemoveAt(s, 1) = SubSeq(s, 1, 0) \o SubSeq(s, 2, n)
    BY DEF Lru!RemoveAt
  <2> QED BY <2>1, <2>3, <2>4, <2>5
<1> QED BY <1>2, <1>3

(* All items of a sequence are the sequence. *)
LEMMA WholeIs ==
  ASSUME NEW V, NEW s \in Seq(V), NEW n, n = Len(s)
  PROVE  SubSeq(s, 1, n) = s
<1>1. n \in Nat
  BY LenProperties
<1>2. PICK m \in 0 .. n : m = 0
  BY <1>1
<1>3. PICK p : p = SubSeq(s, m + 1, n)
  OBVIOUS
<1>4. n \in m .. Len(s) /\ m \in 0 .. Len(s) /\ n - m = n
  BY <1>1, <1>2
<1>5. p \in Seq(V) /\ Len(p) = n
  BY <1>3, <1>4, PartOf
<1>6. \A i \in 1 .. n : p[i] = s[i]
  <2> TAKE i \in 1 .. n
  <2>1. p[i] = s[m + i]
    BY <1>3, <1>4, PartItem
  <2> QED BY <1>1, <1>2, <2>1
<1>7. p = s
  BY <1>5, <1>6, SeqEqual
<1>8. m + 1 = 1
  BY <1>2
<1> QED BY <1>3, <1>7, <1>8

(* What the map is about a key that a slot holds. *)
LEMMA MapHolds ==
  ASSUME NEW c \in Nat, NEW a, NEW o, NEW t, NEW q, NEW n, InOrder(a, o, t, q, n, c),
         NEW k, NEW v, Keyed(k, v, o, c), NEW key, NEW i \in 1 .. n, HeldAt(k, v, q, n, key, i),
         NEW e, e = EntriesOn(k, v, q, n), NEW s, s = q[i]
  PROVE  /\ Lru!Others(key) = Lru!RemoveAt(e, i) /\ Lru!RemoveAt(e, i) \in Seq(Keys \X Stored)
         /\ Lru!EntriesOf(key) = <<<<key, v[s]>>>> /\ Lru!EntriesOf(key) # <<>>
         /\ Lru!Others(key) \o Lru!EntriesOf(key) = Append(Lru!RemoveAt(e, i), <<key, v[s]>>)
         /\ Lru!ValuesIn(Lru!EntriesOf(key)) = <<v[s]>>
<1>1. /\ k[s] = key /\ Lru!Others(key) = Lru!RemoveAt(e, i) /\ Lru!EntriesOf(key) = <<<<key, v[s]>>>>
  BY DEF HeldAt
<1>2. s \in o /\ key \in Keys /\ v[s] \in Stored /\ n \in Nat
  BY <1>1, InOrderItem DEF Keyed, InOrder
<1>3. e \in Seq(Keys \X Stored) /\ Len(e) = n
  BY EntriesSeq
<1>4. Lru!RemoveAt(e, i) \in Seq(Keys \X Stored)
  <2>1. PICK d : d = Lru!RemoveAt(e, i)
    OBVIOUS
  <2>2. IsRemoved(Keys \X Stored, d, e, i - 1, n)
    BY <1>2, <1>3, <2>1, LruRemoveAtIs
  <2> QED BY <2>1, <2>2 DEF IsRemoved
<1>5. PICK x \in Keys \X Stored : x = <<key, v[s]>>
  BY <1>2
<1>6. Lru!Others(key) \o Lru!EntriesOf(key) = Append(Lru!RemoveAt(e, i), x)
  BY <1>1, <1>4, <1>5, ConcatOne
<1>7. Lru!ValuesIn(Lru!EntriesOf(key)) = <<v[s]>>
  <2>1. DOMAIN <<x>> = 1 .. 1 /\ <<x>>[1] = x /\ x[2] = v[s]
    BY <1>5
  <2>2. Lru!ValuesIn(<<x>>) = [j \in 1 .. 1 |-> <<x>>[j][2]]
    BY <2>1 DEF Lru!ValuesIn
  <2>3. [j \in 1 .. 1 |-> <<x>>[j][2]] = <<v[s]>>
    BY <2>1
  <2> QED BY <1>1, <1>5, <2>2, <2>3
<1>8. <<<<key, v[s]>>>> # <<>>
  OBVIOUS
<1> QED BY <1>1, <1>4, <1>5, <1>6, <1>7, <1>8

(* A slot is used as it is. *)
LEMMA UsedIs ==
  ASSUME NEW c \in Nat, NEW k, NEW v, NEW a, NEW o, NEW n, NEW t, NEW q, NEW r, CacheIs(r, k, v, a, o, c, n, t, q),
         t < ClockEnd, NEW i \in 1 .. n, NEW s, s = q[i], NEW e, e = EntriesOn(k, v, q, n)
  PROVE  CacheWith(CacheTouched(r, s), c, Append(Lru!RemoveAt(e, i), <<k[s], v[s]>>))
<1>1. /\ InOrder(a, o, t, q, n, c) /\ Keyed(k, v, o, c) /\ r = CacheOf(k, v, a, o, c, n, t) /\ (\A x \in o : a[x] > 0)
      /\ (\A x \in o \ {q[i]} : k[x] = k[x] /\ v[x] = v[x])
  BY DEF CacheIs
<1>2. CacheWith(CacheTouched(r, q[i]), c, Append(Lru!RemoveAt(e, i), <<k[q[i]], v[q[i]]>>))
  BY <1>1, UseAt
<1> QED BY <1>2

(* cache_touch is the map's touch. *)
LEMMA CacheTouches ==
  ASSUME NEW c, CacheAt(c), NEW key \in Keys, cache_touch(key)
  PROVE  CacheKept(c)
<1>1. object = "cache" /\ c \in Capacities /\ c \in Nat
  BY ContainerAssumption DEF CacheAt
<1>2. PICK k, v, a, o, n, t, q : CacheIs(store, k, v, a, o, c, n, t, q)
  BY DEF CacheAt
<1>3. PICK e : e = EntriesOn(k, v, q, n)
  OBVIOUS
<1>4. CacheWith(store, c, e) /\ CacheEntries(store) = e /\ store.capacity = c /\ store.clock = t /\ e \in Seq(Keys \X Stored)
  BY <1>1, <1>2, <1>3, CacheHas, CacheRead DEF CacheWith
<1>5. CASE HeldNowhere(k, v, q, n, key)
  <2>1. Stay("touch", key, FALSE)
    BY <1>5 DEF cache_touch, HeldNowhere
  <2>2. Does(c, "touch", key, FALSE, e)
    BY <1>1, <1>4, <2>1, CacheStaysDoes
  <2>3. Lru!EntriesOf(key) = <<>> /\ Lru!Others(key) = e /\ e \o <<>> = e
    BY <1>3, <1>4, <1>5, ConcatNone DEF HeldNowhere
  <2>4. Lru!LruDoes(Lru!EntriesOf(key) # <<>>, Lru!Others(key) \o Lru!EntriesOf(key)) /\ Lru!LruArg = key
    BY <2>2, <2>3 DEF Does
  <2> QED BY <2>2, <2>4 DEF CacheKept, Lru!LruNext, Does
<1>6. ASSUME NEW i \in 1 .. n, HeldAt(k, v, q, n, key, i)
      PROVE  CacheKept(c)
  <2>1. PICK s : s = q[i]
    OBVIOUS
  <2>2. /\ k[s] = key /\ store' = CacheTouched(store, s) /\ Answer("touch", key, TRUE) /\ store.clock < ClockEnd
    BY <1>6, <2>1 DEF cache_touch, HeldAt, Ticking
  <2>3. CacheWith(CacheTouched(store, s), c, Append(Lru!RemoveAt(e, i), <<k[s], v[s]>>))
    BY <1>1, <1>2, <1>3, <1>4, <2>1, <2>2, UsedIs
  <2>4. PICK f : f = Append(Lru!RemoveAt(e, i), <<key, v[s]>>)
    OBVIOUS
  <2>5. Does(c, "touch", key, TRUE, f)
    BY <1>1, <1>4, <2>2, <2>3, <2>4, CacheWithDoes
  <2>6. InOrder(a, o, t, q, n, c) /\ Keyed(k, v, o, c)
    BY <1>2 DEF CacheIs
  <2>7. Lru!Others(key) \o Lru!EntriesOf(key) = f /\ Lru!EntriesOf(key) # <<>>
    BY <1>1, <1>3, <1>6, <2>1, <2>4, <2>6, MapHolds
  <2>8. Lru!LruDoes(Lru!EntriesOf(key) # <<>>, Lru!Others(key) \o Lru!EntriesOf(key)) /\ Lru!LruArg = key
    BY <2>5, <2>7 DEF Does
  <2> QED BY <2>5, <2>8 DEF CacheKept, Lru!LruNext, Does
<1> QED BY <1>1, <1>2, <1>5, <1>6, CacheFinds

(* cache_get_ref is the map's get. *)
LEMMA CacheGets ==
  ASSUME NEW c, CacheAt(c), NEW key \in Keys, cache_get_ref(key)
  PROVE  CacheKept(c)
<1>1. object = "cache" /\ c \in Capacities /\ c \in Nat
  BY ContainerAssumption DEF CacheAt
<1>2. PICK k, v, a, o, n, t, q : CacheIs(store, k, v, a, o, c, n, t, q)
  BY DEF CacheAt
<1>3. PICK e : e = EntriesOn(k, v, q, n)
  OBVIOUS
<1>4. /\ CacheWith(store, c, e) /\ CacheEntries(store) = e /\ store.capacity = c /\ store.clock = t /\ store.values = v
      /\ e \in Seq(Keys \X Stored)
  BY <1>1, <1>2, <1>3, CacheHas, CacheRead DEF CacheWith
<1>5. CASE HeldNowhere(k, v, q, n, key)
  <2>1. Stay("get", key, <<>>)
    BY <1>5 DEF cache_get_ref, HeldNowhere
  <2>2. Does(c, "get", key, <<>>, e)
    BY <1>1, <1>4, <2>1, CacheStaysDoes
  <2>3. Lru!EntriesOf(key) = <<>> /\ Lru!Others(key) = e /\ e \o <<>> = e /\ Lru!ValuesIn(<<>>) = <<>>
    BY <1>3, <1>4, <1>5, ConcatNone DEF HeldNowhere, Lru!ValuesIn
  <2>4. Lru!LruDoes(Lru!ValuesIn(Lru!EntriesOf(key)), Lru!Others(key) \o Lru!EntriesOf(key)) /\ Lru!LruArg = key
    BY <2>2, <2>3 DEF Does
  <2> QED BY <2>2, <2>4 DEF CacheKept, Lru!LruNext, Does
<1>6. ASSUME NEW i \in 1 .. n, HeldAt(k, v, q, n, key, i)
      PROVE  CacheKept(c)
  <2>1. PICK s : s = q[i]
    OBVIOUS
  <2>2. /\ k[s] = key /\ store' = CacheTouched(store, s) /\ Answer("get", key, <<v[s]>>) /\ store.clock < ClockEnd
    BY <1>4, <1>6, <2>1 DEF cache_get_ref, HeldAt, Ticking
  <2>3. CacheWith(CacheTouched(store, s), c, Append(Lru!RemoveAt(e, i), <<k[s], v[s]>>))
    BY <1>1, <1>2, <1>3, <1>4, <2>1, <2>2, UsedIs
  <2>4. PICK f : f = Append(Lru!RemoveAt(e, i), <<key, v[s]>>)
    OBVIOUS
  <2>5. Does(c, "get", key, <<v[s]>>, f)
    BY <1>1, <1>4, <2>2, <2>3, <2>4, CacheWithDoes
  <2>6. InOrder(a, o, t, q, n, c) /\ Keyed(k, v, o, c)
    BY <1>2 DEF CacheIs
  <2>7. Lru!Others(key) \o Lru!EntriesOf(key) = f /\ Lru!ValuesIn(Lru!EntriesOf(key)) = <<v[s]>>
    BY <1>1, <1>3, <1>6, <2>1, <2>4, <2>6, MapHolds
  <2>8. Lru!LruDoes(Lru!ValuesIn(Lru!EntriesOf(key)), Lru!Others(key) \o Lru!EntriesOf(key)) /\ Lru!LruArg = key
    BY <2>5, <2>7 DEF Does
  <2> QED BY <2>5, <2>8 DEF CacheKept, Lru!LruNext, Does
<1> QED BY <1>1, <1>2, <1>5, <1>6, CacheFinds

(* cache_peek_ref is the map's peek: it is no use. *)
LEMMA CachePeeks ==
  ASSUME NEW c, CacheAt(c), NEW key \in Keys, cache_peek_ref(key)
  PROVE  CacheKept(c)
<1>1. object = "cache" /\ c \in Capacities /\ c \in Nat
  BY ContainerAssumption DEF CacheAt
<1>2. PICK k, v, a, o, n, t, q : CacheIs(store, k, v, a, o, c, n, t, q)
  BY DEF CacheAt
<1>3. PICK e : e = EntriesOn(k, v, q, n)
  OBVIOUS
<1>4. CacheWith(store, c, e) /\ CacheEntries(store) = e /\ store.values = v
  BY <1>1, <1>2, <1>3, CacheHas, CacheRead DEF CacheWith
<1>5. PICK answer : /\ answer = IF CacheHolds(store, key) = {} THEN <<>> ELSE <<store.values[Least(CacheHolds(store, key))]>>
                    /\ Stay("peek", key, answer)
  BY DEF cache_peek_ref
<1>6. Does(c, "peek", key, answer, e)
  BY <1>1, <1>4, <1>5, CacheStaysDoes
<1>7. answer = Lru!ValuesIn(Lru!EntriesOf(key))
  <2>1. CASE HeldNowhere(k, v, q, n, key)
    BY <1>5, <2>1 DEF HeldNowhere, Lru!ValuesIn
  <2>2. ASSUME NEW i \in 1 .. n, HeldAt(k, v, q, n, key, i)
        PROVE  answer = Lru!ValuesIn(Lru!EntriesOf(key))
    <3>1. PICK s : s = q[i]
      OBVIOUS
    <3>2. InOrder(a, o, t, q, n, c) /\ Keyed(k, v, o, c)
      BY <1>2 DEF CacheIs
    <3>3. Lru!ValuesIn(Lru!EntriesOf(key)) = <<v[s]>>
      BY <1>1, <1>3, <2>2, <3>1, <3>2, MapHolds
    <3> QED BY <1>4, <1>5, <2>2, <3>1, <3>3 DEF HeldAt
  <2> QED BY <1>1, <1>2, <2>1, <2>2, CacheFinds
<1>8. Lru!LruDoes(Lru!ValuesIn(Lru!EntriesOf(key)), CacheEntries(store)) /\ Lru!LruArg = key
  BY <1>4, <1>6, <1>7 DEF Does
<1> QED BY <1>6, <1>8 DEF CacheKept, Lru!LruNext, Does

(* cache_remove is the map's remove. *)
LEMMA CacheRemoves ==
  ASSUME NEW c, CacheAt(c), NEW key \in Keys, cache_remove(key)
  PROVE  CacheKept(c)
<1>1. object = "cache" /\ c \in Capacities /\ c \in Nat
  BY ContainerAssumption DEF CacheAt
<1>2. PICK k, v, a, o, n, t, q : CacheIs(store, k, v, a, o, c, n, t, q)
  BY DEF CacheAt
<1>3. PICK e : e = EntriesOn(k, v, q, n)
  OBVIOUS
<1>4. CacheWith(store, c, e) /\ CacheEntries(store) = e /\ store.capacity = c
  BY <1>1, <1>2, <1>3, CacheHas, CacheRead DEF CacheWith
<1>5. CASE HeldNowhere(k, v, q, n, key)
  <2>1. Stay("remove", key, FALSE)
    BY <1>5 DEF cache_remove, HeldNowhere
  <2>2. Does(c, "remove", key, FALSE, e)
    BY <1>1, <1>4, <2>1, CacheStaysDoes
  <2>3. Lru!EntriesOf(key) = <<>> /\ Lru!Others(key) = e
    BY <1>3, <1>5 DEF HeldNowhere
  <2>4. Lru!LruDoes(Lru!EntriesOf(key) # <<>>, Lru!Others(key)) /\ Lru!LruArg = key
    BY <2>2, <2>3 DEF Does
  <2> QED BY <2>2, <2>4 DEF CacheKept, Lru!LruNext, Does
<1>6. ASSUME NEW i \in 1 .. n, HeldAt(k, v, q, n, key, i)
      PROVE  CacheKept(c)
  <2>1. PICK s : s = q[i]
    OBVIOUS
  <2>2. store' = CacheRemoved(store, s) /\ Answer("remove", key, TRUE)
    BY <1>6, <2>1 DEF cache_remove, HeldAt
  <2>3. /\ InOrder(a, o, t, q, n, c) /\ Keyed(k, v, o, c) /\ store = CacheOf(k, v, a, o, c, n, t)
        /\ (\A x \in o : a[x] > 0) /\ t <= ClockEnd + 1
    BY <1>2 DEF CacheIs
  <2>4. CacheWith(CacheRemoved(store, s), c, Lru!RemoveAt(e, i))
    BY <1>1, <1>3, <2>1, <2>3, RemovedIs
  <2>5. PICK f : f = Lru!RemoveAt(e, i)
    OBVIOUS
  <2>6. Does(c, "remove", key, TRUE, f)
    BY <1>1, <1>4, <2>2, <2>4, <2>5, CacheWithDoes
  <2>7. Lru!Others(key) = f /\ Lru!EntriesOf(key) # <<>>
    BY <1>1, <1>3, <1>6, <2>1, <2>5, <2>3, MapHolds
  <2>8. Lru!LruDoes(Lru!EntriesOf(key) # <<>>, Lru!Others(key)) /\ Lru!LruArg = key
    BY <2>6, <2>7 DEF Does
  <2> QED BY <2>6, <2>8 DEF CacheKept, Lru!LruNext, Does
<1> QED BY <1>1, <1>2, <1>5, <1>6, CacheFinds

(* cache_remove_oldest removes the map's first entry. *)
LEMMA CacheRemovesOldest ==
  ASSUME NEW c, CacheAt(c), cache_remove_oldest
  PROVE  CacheKept(c)
<1>1. object = "cache" /\ c \in Capacities /\ c \in Nat
  BY ContainerAssumption DEF CacheAt
<1>2. PICK k, v, a, o, n, t, q : CacheIs(store, k, v, a, o, c, n, t, q)
  BY DEF CacheAt
<1>3. PICK e : e = EntriesOn(k, v, q, n)
  OBVIOUS
<1>4. /\ CacheWith(store, c, e) /\ CacheEntries(store) = e /\ store.capacity = c /\ store.length = n
      /\ e \in Seq(Keys \X Stored) /\ Len(e) = n /\ store.ages = a /\ store.occupied = o
  BY <1>1, <1>2, <1>3, CacheHas, CacheRead DEF CacheWith
<1>5. /\ InOrder(a, o, t, q, n, c) /\ Keyed(k, v, o, c) /\ store = CacheOf(k, v, a, o, c, n, t)
      /\ (\A x \in o : a[x] > 0) /\ t <= ClockEnd + 1 /\ n \in Nat
  BY <1>2 DEF CacheIs, InOrder
<1>6. CASE n = 0
  <2>1. Stay("removeOldest", 0, FALSE)
    BY <1>4, <1>6 DEF cache_remove_oldest
  <2>2. Does(c, "removeOldest", 0, FALSE, e)
    BY <1>1, <1>4, <2>1, CacheStaysDoes
  <2>3. e = <<>> /\ SubSeq(<<>>, 2, Len(<<>>)) = <<>>
    <3>1. e = <<>>
      BY <1>4, <1>6, EmptySeq
    <3>2. Len(<<>>) = 0
      BY <1>4, <1>6, <3>1
    <3>3. \A x : SubSeq(x, 2, 0) = <<>>
      BY SubSeqEmpty
    <3>4. SubSeq(<<>>, 2, 0) = <<>>
      BY <3>3
    <3> QED BY <3>1, <3>2, <3>4
  <2>4. Lru!LruDoes(CacheEntries(store) # <<>>, SubSeq(CacheEntries(store), 2, Len(CacheEntries(store))))
    BY <1>4, <2>2, <2>3 DEF Does
  <2> QED BY <2>2, <2>4 DEF CacheKept, Lru!LruNext, Does
<1>7. CASE n > 0
  <2>1. PICK i \in 1 .. n : i = 1
    BY <1>5, <1>7
  <2>2. cache_oldest_index(store) = q[i]
    BY <1>1, <1>4, <1>5, <1>7, <2>1, OldestIs
  <2>3. store' = CacheRemoved(store, q[i]) /\ Answer("removeOldest", 0, TRUE)
    <3>1. store.length # 0
      BY <1>4, <1>5, <1>7
    <3> QED BY <2>2, <3>1 DEF cache_remove_oldest
  <2>4. CacheWith(CacheRemoved(store, q[i]), c, Lru!RemoveAt(e, i))
    BY <1>1, <1>3, <1>5, RemovedIs
  <2>5. PICK f : f = SubSeq(e, 2, n)
    OBVIOUS
  <2>6. Lru!RemoveAt(e, i) = f /\ e # <<>>
    BY <1>4, <1>7, <2>1, <2>5, FirstOf
  <2>7. Does(c, "removeOldest", 0, TRUE, f)
    BY <1>1, <1>4, <2>3, <2>4, <2>6, CacheWithDoes
  <2>8. Lru!LruDoes(CacheEntries(store) # <<>>, SubSeq(CacheEntries(store), 2, Len(CacheEntries(store))))
    BY <1>4, <2>5, <2>6, <2>7 DEF Does
  <2> QED BY <2>7, <2>8 DEF CacheKept, Lru!LruNext, Does
<1> QED BY <1>5, <1>6, <1>7

(* cache_rebase_ages changes nothing in the map. *)
LEMMA CacheRebases ==
  ASSUME NEW c, CacheAt(c), CacheRebased
  PROVE  CacheKept(c)
<1>1. object = "cache" /\ c \in Capacities /\ c \in Nat
  BY ContainerAssumption DEF CacheAt
<1>2. PICK k, v, a, o, n, t, q : CacheIs(store, k, v, a, o, c, n, t, q)
  BY DEF CacheAt
<1>3. PICK e : e = EntriesOn(k, v, q, n)
  OBVIOUS
<1>4. CacheEntries(store) = e /\ store.capacity = c
  BY <1>1, <1>2, <1>3, CacheHas
<1>5. CacheWith(cache_rebase_ages(store), c, e)
  BY <1>1, <1>2, <1>3, RebasedWith
<1>6. store' = cache_rebase_ages(store) /\ Answer("rebase", 0, TRUE)
  BY DEF CacheRebased
<1>7. Does(c, "rebase", 0, TRUE, e)
  BY <1>1, <1>4, <1>5, <1>6, CacheWithDoes
<1> QED BY <1>4, <1>7 DEF CacheKept, Lru!LruNext, Does

(* cache_clear leaves the map without entries. *)
LEMMA CacheClears ==
  ASSUME NEW c, CacheAt(c), cache_clear
  PROVE  CacheKept(c)
<1>1. object = "cache" /\ c \in Capacities /\ c \in Nat
  BY ContainerAssumption DEF CacheAt
<1>2. PICK k, v, a, o, n, t, q : CacheIs(store, k, v, a, o, c, n, t, q)
  BY DEF CacheAt
<1>3. /\ store = CacheOf(k, v, a, o, c, n, t) /\ DOMAIN k = Slots(c) /\ DOMAIN v = Slots(c) /\ DOMAIN a = Slots(c)
  BY <1>2 DEF CacheIs, InOrder, Keyed
<1>4. store.capacity = c
  BY <1>3 DEF CacheOf
<1>5. PICK l, w, b : l = [s \in Slots(c) |-> Junk] /\ w = [s \in Slots(c) |-> Junk] /\ b = [s \in Slots(c) |-> 0]
  OBVIOUS
<1>6. store' = CacheOf(l, w, b, {}, c, 0, 1) /\ Answer("clear", 0, TRUE)
  BY <1>3, <1>5 DEF cache_clear, CacheOf
<1>7. CacheWith(store', c, <<>>)
  BY <1>1, <1>5, <1>6, EmptyIs
<1>8. Does(c, "clear", 0, TRUE, <<>>)
  BY <1>1, <1>4, <1>6, <1>7, CacheWithDoes
<1> QED BY <1>8 DEF CacheKept, Lru!LruNext, Does

(* cache_copy_lru_keys lists the keys of the map in their order. *)
LEMMA CacheLists ==
  ASSUME NEW c, CacheAt(c), cache_copy_lru_keys
  PROVE  CacheKept(c)
<1>1. object = "cache" /\ c \in Capacities /\ c \in Nat
  BY ContainerAssumption DEF CacheAt
<1>2. PICK k, v, a, o, n, t, q : CacheIs(store, k, v, a, o, c, n, t, q)
  BY DEF CacheAt
<1>3. PICK e : e = EntriesOn(k, v, q, n)
  OBVIOUS
<1>4. /\ CacheWith(store, c, e) /\ CacheEntries(store) = e /\ CacheOrder(store) = q /\ store.keys = k
      /\ e \in Seq(Keys \X Stored) /\ Len(e) = n
  BY <1>1, <1>2, <1>3, CacheHas, CacheRead DEF CacheWith
<1>5. DOMAIN q = 1 .. n /\ DOMAIN e = 1 .. n
  <2>1. q \in Seq(o) /\ Len(q) = n
    BY <1>2 DEF CacheIs, InOrder, IsOrder
  <2> QED BY <1>4, <2>1, LenProperties
<1>6. PICK answer : answer = [i \in 1 .. n |-> k[q[i]]] /\ Stay("keys", 0, answer)
  BY <1>4, <1>5 DEF cache_copy_lru_keys
<1>7. Does(c, "keys", 0, answer, e)
  BY <1>1, <1>4, <1>6, CacheStaysDoes
<1>8. answer = Lru!KeysIn(e)
  <2>1. \A i \in 1 .. n : e[i][1] = k[q[i]]
    BY <1>3, EntriesItem
  <2> QED BY <1>5, <1>6, <2>1 DEF Lru!KeysIn
<1>9. Lru!LruDoes(Lru!KeysIn(CacheEntries(store)), CacheEntries(store))
  BY <1>4, <1>7, <1>8 DEF Does
<1> QED BY <1>7, <1>9 DEF CacheKept, Lru!LruNext, Does

(* A call that is the map's put, what it pushes out and what stays apart. *)
LEMMA MapPuts ==
  ASSUME NEW c \in Nat, c > 0, store.capacity = c, NEW key, NEW value, NEW arg, arg = <<key, value>>, NEW out, NEW rest,
         out = Lru!Evicted(key), rest = SubSeq(Lru!Others(key), Len(out) + 1, Len(Lru!Others(key))),
         NEW f, f = Append(rest, arg), NEW answer, answer = <<TRUE, out>>, Does(c, "put", arg, answer, f)
  PROVE  CacheKept(c)
<1>1. Lru!LruOp = "put" /\ Lru!LruArg = arg /\ arg[1] = key /\ c # 0
  BY DEF Does
<1>2. Lru!LruDoes(answer, f)
  BY DEF Does
<1>3. Lru!LruDoes(<<TRUE, Lru!Evicted(key)>>,
        Append(SubSeq(Lru!Others(key), Len(Lru!Evicted(key)) + 1, Len(Lru!Others(key))), Lru!LruArg))
  BY <1>1, <1>2
<1> QED BY <1>1, <1>3 DEF CacheKept, Lru!LruNext, Does

(* The key is there: its value is another and its slot is used. *)
LEMMA PutHeld ==
  ASSUME NEW c \in Nat, NEW k, NEW v, NEW a, NEW o, NEW n, NEW t, NEW q, CacheIs(store, k, v, a, o, c, n, t, q),
         t < ClockEnd, NEW i \in 1 .. n, NEW key \in Keys, NEW value \in Stored, HeldAt(k, v, q, n, key, i),
         NEW e, e = EntriesOn(k, v, q, n)
  PROVE  CacheWith(CacheStored(store, key, value), c, Append(Lru!RemoveAt(e, i), <<key, value>>))
<1>1. /\ InOrder(a, o, t, q, n, c) /\ Keyed(k, v, o, c) /\ store = CacheOf(k, v, a, o, c, n, t) /\ (\A x \in o : a[x] > 0)
  BY DEF CacheIs
<1>2. PICK s, w : s = q[i] /\ w = [v EXCEPT ![s] = value]
  OBVIOUS
<1>3. s \in o /\ s \in Slots(c) /\ k[s] = key
  BY <1>1, <1>2, InOrderItem DEF HeldAt
<1>4. w[s] = value /\ \A x \in o \ {s} : w[x] = v[x]
  BY <1>1, <1>2, <1>3 DEF Keyed, InOrder
<1>5. Keyed(k, w, o, c)
  <2>1. w \in [Slots(c) -> Stored \cup {Junk}]
    BY <1>1, <1>2 DEF Keyed
  <2>2. \A x \in o : w[x] \in Stored
    BY <1>1, <1>4 DEF Keyed
  <2> QED BY <1>1, <2>1, <2>2 DEF Keyed
<1>6. PICK r : r = CacheOf(k, w, a, o, c, n, t)
  OBVIOUS
<1>7. r = [store EXCEPT !.values[s] = value]
  BY <1>1, <1>2, <1>6 DEF CacheOf
<1>8. CacheStored(store, key, value) = CacheTouched(r, s)
  BY <1>2, <1>7 DEF CacheStored, HeldAt
<1>9. \A x \in o \ {q[i]} : k[x] = k[x] /\ w[x] = v[x]
  BY <1>2, <1>4
<1>10. CacheWith(CacheTouched(r, q[i]), c, Append(Lru!RemoveAt(e, i), <<k[q[i]], w[q[i]]>>))
  BY <1>1, <1>5, <1>6, <1>9, UseAt
<1> QED BY <1>2, <1>3, <1>4, <1>8, <1>10

(* The slot s stores a key that was nowhere. *)
KeyedAlso(k, v, l, w, o, c, s, key, value) ==
  /\ Keyed(l, w, o \cup {s}, c) /\ l[s] = key /\ w[s] = value
  /\ \A x \in o \ {s} : l[x] = k[x] /\ w[x] = v[x]

(* No key is stored twice when a key that was nowhere is stored. *)
LEMMA KeyedMore ==
  ASSUME NEW c, NEW k, NEW v, NEW o \in SUBSET Slots(c), Keyed(k, v, o, c), NEW s \in Slots(c), NEW key \in Keys, NEW value \in Stored,
         \A x \in o : k[x] # key, NEW l, NEW w, l = [k EXCEPT ![s] = key], w = [v EXCEPT ![s] = value]
  PROVE  KeyedAlso(k, v, l, w, o, c, s, key, value)
<1>1. l \in [Slots(c) -> Keys \cup {Junk}] /\ w \in [Slots(c) -> Stored \cup {Junk}]
  BY DEF Keyed
<1>2. l[s] = key /\ w[s] = value /\ \A x \in o \ {s} : l[x] = k[x] /\ w[x] = v[x]
  BY DEF Keyed
<1>3. \A x \in o \cup {s} : l[x] \in Keys /\ w[x] \in Stored
  BY <1>2 DEF Keyed
<1>4. ASSUME NEW x \in o \cup {s}, NEW y \in o \cup {s}, l[x] = l[y]
      PROVE  x = y
  <2>1. CASE x = s /\ y # s
    BY <1>2, <1>4, <2>1
  <2>2. CASE x # s /\ y = s
    BY <1>2, <1>4, <2>2
  <2>3. CASE x # s /\ y # s
    BY <1>2, <1>4, <2>3 DEF Keyed
  <2> QED BY <2>1, <2>2, <2>3
<1>5. Keyed(l, w, o \cup {s}, c)
  BY <1>1, <1>3, <1>4 DEF Keyed
<1> QED BY <1>2, <1>5 DEF KeyedAlso

(* A key that is nowhere is in no occupied slot. *)
LEMMA NowhereOn ==
  ASSUME NEW c \in Nat, NEW k, NEW v, NEW a, NEW o, NEW n, NEW t, NEW q, InOrder(a, o, t, q, n, c),
         NEW key, HeldNowhere(k, v, q, n, key)
  PROVE  o \in SUBSET Slots(c) /\ CacheHolds(store, key) = {} /\ \A x \in o : k[x] # key
<1>1. o \in SUBSET Slots(c) /\ \A s \in o : \E i \in 1 .. n : q[i] = s
  BY DEF InOrder, IsOrder
<1> QED BY <1>1 DEF HeldNowhere

(* The key goes into a free slot. *)
LEMMA PutFree ==
  ASSUME NEW c \in Nat, NEW k, NEW v, NEW a, NEW o, NEW n, NEW t, NEW q, CacheIs(store, k, v, a, o, c, n, t, q),
         t < ClockEnd, NEW key \in Keys, NEW value \in Stored, HeldNowhere(k, v, q, n, key), n # c,
         NEW e, e = EntriesOn(k, v, q, n)
  PROVE  CacheWith(CacheStored(store, key, value), c, Append(e, <<key, value>>))
<1>1. /\ InOrder(a, o, t, q, n, c) /\ Keyed(k, v, o, c) /\ store = CacheOf(k, v, a, o, c, n, t) /\ (\A x \in o : a[x] > 0)
  BY DEF CacheIs
<1>2. CacheFree(store) # {} /\ Least(CacheFree(store)) \in Slots(c) \ o
  <2>1. CacheFree(store) # {}
    BY <1>1, FreeIs
  <2>2. CacheFree(store) # {} => Least(CacheFree(store)) \in Slots(c) \ o
    BY <1>1, FreeIs
  <2> QED BY <2>1, <2>2
<1>3. PICK s, l, w : s = Least(CacheFree(store)) /\ l = [k EXCEPT ![s] = key] /\ w = [v EXCEPT ![s] = value]
  OBVIOUS
<1>4. s \in Slots(c) \ o /\ o \ {s} = o
  BY <1>2, <1>3
<1>5. o \in SUBSET Slots(c) /\ CacheHolds(store, key) = {} /\ \A x \in o : k[x] # key
  BY <1>1, NowhereOn
<1>6. Keyed(l, w, o \cup {s}, c) /\ l[s] = key /\ w[s] = value /\ \A x \in o : l[x] = k[x] /\ w[x] = v[x]
  <2>1. KeyedAlso(k, v, l, w, o, c, s, key, value)
    BY <1>1, <1>3, <1>4, <1>5, KeyedMore
  <2> QED BY <1>4, <2>1 DEF KeyedAlso
<1>7. PICK r : r = CacheOf(l, w, a, o \cup {s}, c, n + 1, t)
  OBVIOUS
<1>8. r = [store EXCEPT !.keys[s] = key, !.values[s] = value, !.occupied = o \cup {s}, !.length = n + 1]
  <2>1. [store.keys EXCEPT ![s] = key] = l /\ [store.values EXCEPT ![s] = value] = w
    BY <1>1, <1>3 DEF CacheOf
  <2>2. [store EXCEPT !.keys = l, !.values = w, !.occupied = o \cup {s}, !.length = n + 1]
          = [store EXCEPT !.keys[s] = key, !.values[s] = value, !.occupied = o \cup {s}, !.length = n + 1]
    BY <1>1, <2>1 DEF CacheOf
  <2>3. PICK y : y = [store EXCEPT !.keys = l, !.values = w, !.occupied = o \cup {s}, !.length = n + 1]
    OBVIOUS
  <2>4. y = CacheOf(l, w, a, o \cup {s}, c, n + 1, t)
    <3>1. store = CacheOf(k, v, a, o, c, n, t)
      BY <1>1
    <3> QED BY <2>3, <3>1 DEF CacheOf
  <2> QED BY <1>7, <2>2, <2>3, <2>4
<1>9. CachePutAt(store, s, key, value) = CacheTouched(r, s)
  <2>1. store.occupied = o /\ store.length = n
    BY <1>1 DEF CacheOf
  <2> QED BY <1>4, <1>8, <2>1 DEF CachePutAt
<1>10. CacheStored(store, key, value) = CacheTouched(r, s)
  BY <1>2, <1>3, <1>5, <1>9 DEF CacheStored
<1>11. CacheWith(CacheTouched(r, s), c, Append(e, <<l[s], w[s]>>))
  BY <1>1, <1>4, <1>6, <1>7, UseFree
<1> QED BY <1>6, <1>10, <1>11

(* No slot is free: the key goes where the least recently used one is. *)
LEMMA PutOver ==
  ASSUME NEW c \in Nat, NEW k, NEW v, NEW a, NEW o, NEW n, NEW t, NEW q, CacheIs(store, k, v, a, o, c, n, t, q),
         t < ClockEnd, NEW key \in Keys, NEW value \in Stored, HeldNowhere(k, v, q, n, key), n = c, NEW i \in 1 .. n, i = 1,
         NEW e, e = EntriesOn(k, v, q, n)
  PROVE  CacheWith(CacheStored(store, key, value), c, Append(Lru!RemoveAt(e, i), <<key, value>>))
<1>1. /\ InOrder(a, o, t, q, n, c) /\ Keyed(k, v, o, c) /\ store = CacheOf(k, v, a, o, c, n, t) /\ (\A x \in o : a[x] > 0)
  BY DEF CacheIs
<1>2. CacheFree(store) = {}
  BY <1>1, FreeIs
<1>3. PICK s, l, w : s = q[i] /\ l = [k EXCEPT ![s] = key] /\ w = [v EXCEPT ![s] = value]
  OBVIOUS
<1>4. s \in o /\ s \in Slots(c) /\ o \cup {s} = o
  BY <1>1, <1>3, InOrderItem
<1>5. o \in SUBSET Slots(c) /\ CacheHolds(store, key) = {} /\ \A x \in o : k[x] # key
  BY <1>1, NowhereOn
<1>6. Keyed(l, w, o, c) /\ l[s] = key /\ w[s] = value /\ \A x \in o \ {s} : l[x] = k[x] /\ w[x] = v[x]
  <2>1. KeyedAlso(k, v, l, w, o, c, s, key, value)
    BY <1>1, <1>3, <1>4, <1>5, KeyedMore
  <2> QED BY <1>4, <2>1 DEF KeyedAlso
<1>7. PICK r : r = CacheOf(l, w, a, o, c, n, t)
  OBVIOUS
<1>8. r = [store EXCEPT !.keys[s] = key, !.values[s] = value, !.occupied = o, !.length = n]
  <2>1. [store.keys EXCEPT ![s] = key] = l /\ [store.values EXCEPT ![s] = value] = w
    BY <1>1, <1>3 DEF CacheOf
  <2>2. [store EXCEPT !.keys = l, !.values = w, !.occupied = o, !.length = n]
          = [store EXCEPT !.keys[s] = key, !.values[s] = value, !.occupied = o, !.length = n]
    BY <1>1, <2>1 DEF CacheOf
  <2>3. PICK y : y = [store EXCEPT !.keys = l, !.values = w, !.occupied = o, !.length = n]
    OBVIOUS
  <2>4. y = CacheOf(l, w, a, o, c, n, t)
    <3>1. store = CacheOf(k, v, a, o, c, n, t)
      BY <1>1
    <3> QED BY <2>3, <3>1 DEF CacheOf
  <2> QED BY <1>7, <2>2, <2>3, <2>4
<1>9. CachePutAt(store, s, key, value) = CacheTouched(r, s)
  <2>1. store.occupied = o /\ store.length = n
    BY <1>1 DEF CacheOf
  <2> QED BY <1>4, <1>8, <2>1 DEF CachePutAt
<1>10. cache_oldest_index(store) = s
  <2>1. store.ages = a /\ store.occupied = o /\ n > 0
    BY <1>1 DEF CacheOf
  <2> QED BY <1>1, <1>3, <2>1, OldestIs
<1>11. CacheStored(store, key, value) = CacheTouched(r, s)
  BY <1>2, <1>5, <1>9, <1>10 DEF CacheStored
<1>12. CacheWith(CacheTouched(r, q[i]), c, Append(Lru!RemoveAt(e, i), <<l[q[i]], w[q[i]]>>))
  <2>1. \A x \in o \ {q[i]} : l[x] = k[x] /\ w[x] = v[x]
    BY <1>3, <1>6
  <2> QED BY <1>1, <1>6, <1>7, <2>1, UseAt
<1> QED BY <1>3, <1>6, <1>11, <1>12

(* cache_put_with_evicted is the map's put: a key that is there is used,   *)
(* one that is not takes a free slot, or the place of the entry used       *)
(* longest ago.                                                            *)
LEMMA CachePuts ==
  ASSUME NEW c, CacheAt(c), NEW key \in Keys, NEW value \in Stored, cache_put_with_evicted(key, value)
  PROVE  CacheKept(c)
<1>1. object = "cache" /\ c \in Capacities /\ c \in Nat
  BY ContainerAssumption DEF CacheAt
<1>2. PICK k, v, a, o, n, t, q : CacheIs(store, k, v, a, o, c, n, t, q)
  BY DEF CacheAt
<1>3. PICK e, arg, none : e = EntriesOn(k, v, q, n) /\ arg = <<key, value>> /\ none = <<>>
  OBVIOUS
<1>4. /\ CacheWith(store, c, e) /\ CacheEntries(store) = e /\ store.capacity = c /\ store.clock = t
      /\ e \in Seq(Keys \X Stored) /\ Len(e) = n
  BY <1>1, <1>2, <1>3, CacheHas, CacheRead DEF CacheWith
<1>5. store.keys = k /\ store.values = v /\ store.ages = a /\ store.occupied = o /\ store.length = n
  BY <1>2, CacheRead
<1>6. /\ InOrder(a, o, t, q, n, c) /\ Keyed(k, v, o, c) /\ store = CacheOf(k, v, a, o, c, n, t)
  BY <1>2 DEF CacheIs
<1>7. n \in Nat /\ n <= c
  BY <1>1, <1>2, CacheParts
<1>8. CASE c = 0
  <2>1. Stay("put", arg, <<FALSE, <<>>>>)
    BY <1>3, <1>4, <1>8 DEF cache_put_with_evicted
  <2>2. Does(c, "put", arg, <<FALSE, <<>>>>, e)
    BY <1>1, <1>4, <2>1, CacheStaysDoes
  <2>3. Lru!LruDoes(<<FALSE, <<>>>>, CacheEntries(store))
    BY <1>4, <2>2 DEF Does
  <2> QED BY <1>4, <1>8, <2>2, <2>3 DEF CacheKept, Lru!LruNext, Does
<1>9. CASE c > 0
  <2> DEFINE s0 == cache_oldest_index(store)
             evicts == CacheHolds(store, key) = {} /\ store.length >= store.capacity
             out == IF evicts THEN <<<<store.keys[s0], store.values[s0]>>>> ELSE <<>>
  <2>1. t < ClockEnd /\ store' = CacheStored(store, key, value) /\ Answer("put", arg, <<TRUE, out>>)
    BY <1>3, <1>4, <1>9 DEF cache_put_with_evicted, Ticking
  <2>2. ASSUME NEW i \in 1 .. n, HeldAt(k, v, q, n, key, i)
        PROVE  CacheKept(c)
    <3>1. out = <<>>
      BY <2>2 DEF HeldAt
    <3>2. PICK d, f, answer : d = Lru!RemoveAt(e, i) /\ f = Append(d, arg) /\ answer = <<TRUE, none>>
      OBVIOUS
    <3>3. CacheWith(store', c, f)
      BY <1>1, <1>2, <1>3, <2>1, <2>2, <3>2, PutHeld
    <3>4. Does(c, "put", arg, answer, f)
      BY <1>1, <1>3, <1>4, <2>1, <3>1, <3>2, <3>3, CacheWithDoes
    <3>5. PICK s : s = q[i]
      OBVIOUS
    <3>6. Lru!Others(key) = d /\ d \in Seq(Keys \X Stored) /\ Lru!EntriesOf(key) # <<>>
      BY <1>1, <1>3, <1>6, <2>2, <3>2, <3>5, MapHolds
    <3>7. none = Lru!Evicted(key)
      BY <1>3, <3>6 DEF Lru!Evicted
    <3>8. d = SubSeq(Lru!Others(key), Len(none) + 1, Len(Lru!Others(key)))
      <4>1. Len(none) + 1 = 1
        BY <1>3, EmptySeq
      <4>2. SubSeq(d, 1, Len(d)) = d
        BY <3>6, WholeIs
      <4> QED BY <3>6, <4>1, <4>2
    <3> QED BY <1>1, <1>3, <1>4, <1>9, <3>2, <3>4, <3>7, <3>8, MapPuts
  <2>3. CASE HeldNowhere(k, v, q, n, key) /\ n # c
    <3>1. out = <<>>
      <4>1. ~(store.length >= store.capacity)
        BY <1>1, <1>4, <1>5, <1>7, <2>3
      <4> QED BY <4>1
    <3>2. PICK f, answer : f = Append(e, arg) /\ answer = <<TRUE, none>>
      OBVIOUS
    <3>3. CacheWith(store', c, f)
      BY <1>1, <1>2, <1>3, <2>1, <2>3, <3>2, PutFree
    <3>4. Does(c, "put", arg, answer, f)
      BY <1>1, <1>3, <1>4, <2>1, <3>1, <3>2, <3>3, CacheWithDoes
    <3>5. Lru!Others(key) = e
      BY <1>3, <2>3 DEF HeldNowhere
    <3>6. none = Lru!Evicted(key)
      BY <1>3, <1>4, <2>3 DEF Lru!Evicted
    <3>7. e = SubSeq(Lru!Others(key), Len(none) + 1, Len(Lru!Others(key)))
      <4>1. Len(none) + 1 = 1
        BY <1>3, EmptySeq
      <4>2. SubSeq(e, 1, Len(e)) = e
        BY <1>4, WholeIs
      <4> QED BY <3>5, <4>1, <4>2
    <3> QED BY <1>1, <1>3, <1>4, <1>9, <3>2, <3>4, <3>6, <3>7, MapPuts
  <2>4. CASE HeldNowhere(k, v, q, n, key) /\ n = c
    <3>1. PICK i \in 1 .. n : i = 1
      BY <1>1, <1>9, <2>4
    <3>2. PICK s : s = q[i]
      OBVIOUS
    <3>3. s0 = s
      BY <1>1, <1>5, <1>6, <1>9, <2>4, <3>1, <3>2, OldestIs
    <3>4. PICK one, d, f, answer : /\ one = <<<<k[s], v[s]>>>> /\ d = Lru!RemoveAt(e, i) /\ f = Append(d, arg)
                                   /\ answer = <<TRUE, one>>
      OBVIOUS
    <3>5. out = one
      <4>1. CacheHolds(store, key) = {} /\ store.length >= store.capacity
        BY <1>1, <1>4, <1>5, <1>7, <2>4 DEF HeldNowhere
      <4> QED BY <1>5, <3>3, <3>4, <4>1
    <3>6. CacheWith(store', c, f)
      BY <1>1, <1>2, <1>3, <2>1, <2>4, <3>1, <3>4, PutOver
    <3>7. Does(c, "put", arg, answer, f)
      BY <1>1, <1>3, <1>4, <2>1, <3>4, <3>5, <3>6, CacheWithDoes
    <3>8. Lru!Others(key) = e /\ Lru!EntriesOf(key) = <<>>
      BY <1>3, <2>4 DEF HeldNowhere
    <3>9. SubSeq(e, 1, 1) = <<e[1]>> /\ Lru!RemoveAt(e, 1) = SubSeq(e, 2, n)
      BY <1>4, <1>9, <2>4, FirstOf
    <3>10. e[1] = <<k[s], v[s]>>
      BY <1>3, <3>1, <3>2, EntriesItem
    <3>11. one = Lru!Evicted(key)
      BY <1>4, <2>4, <3>4, <3>8, <3>9, <3>10 DEF Lru!Evicted
    <3>12. d = SubSeq(Lru!Others(key), Len(one) + 1, Len(Lru!Others(key)))
      <4>1. Len(one) + 1 = 2
        BY <3>4
      <4> QED BY <1>4, <3>1, <3>4, <3>8, <3>9, <4>1
    <3> QED BY <1>1, <1>3, <1>4, <1>9, <3>4, <3>7, <3>11, <3>12, MapPuts
  <2> QED BY <1>1, <1>2, <2>2, <2>3, <2>4, CacheFinds
<1> QED BY <1>1, <1>8, <1>9

-----------------------------------------------------------------------------
(* The cache, always. *)

(* A new cache is one. *)
LEMMA CacheStarts ==
  ASSUME CacheInit
  PROVE  \E c : CacheAt(c)
<1>1. PICK c \in Capacities :
        store = [keys |-> [s \in Slots(c) |-> Junk], values |-> [s \in Slots(c) |-> Junk],
                 ages |-> [s \in Slots(c) |-> 0], occupied |-> {}, capacity |-> c, length |-> 0, clock |-> 1]
  BY DEF CacheInit
<1>2. PICK k, v, a : k = [s \in Slots(c) |-> Junk] /\ v = [s \in Slots(c) |-> Junk] /\ a = [s \in Slots(c) |-> 0]
  OBVIOUS
<1>3. store = CacheOf(k, v, a, {}, c, 0, 1) /\ c \in Nat
  BY <1>1, <1>2, ContainerAssumption DEF CacheOf
<1>4. CacheWith(store, c, <<>>)
  BY <1>2, <1>3, EmptyIs
<1>5. object = "cache"
  BY DEF CacheInit
<1> QED BY <1>1, <1>4, <1>5 DEF CacheWith, CacheAt

(* Every call is one of the map. *)
LEMMA CacheStep ==
  ASSUME NEW c, CacheAt(c), CacheNext
  PROVE  CacheKept(c)
<1>1. CASE \E key \in Keys :
             \/ cache_touch(key) \/ cache_get_ref(key) \/ cache_peek_ref(key) \/ cache_remove(key)
             \/ \E value \in Stored : cache_put_with_evicted(key, value)
  BY <1>1, CacheTouches, CacheGets, CachePeeks, CacheRemoves, CachePuts
<1>2. CASE cache_remove_oldest \/ CacheRebased \/ cache_clear \/ cache_copy_lru_keys
  BY <1>2, CacheRemovesOldest, CacheRebases, CacheClears, CacheLists
<1> QED BY <1>1, <1>2 DEF CacheNext

(* The ages of a cache list its slots in the order of their use. *)
CacheInv == object = "cache" => \E c : CacheAt(c)

(* A new container satisfies it, ... *)
LEMMA CacheInvInit == Init => CacheInv
BY CacheStarts DEF Init, CacheInv, RingInit, DequeInit, ChannelInit, PoolInit, CacheInit, HeapInit, PqInit

(* ... and every call keeps it, and is a call of the map. *)
LEMMA CacheInvStep ==
  ASSUME CacheInv, [Next]_vars
  PROVE  CacheInv' /\ (object = "cache" => vars' = vars \/ Lru!LruNext)
<1>1. CASE UNCHANGED vars
  <2>1. ASSUME object' = "cache"
        PROVE  \E c : CacheAt(c)'
    <3>1. object = "cache" /\ object' = object /\ store' = store
      BY <1>1, <2>1 DEF vars
    <3>2. PICK c : CacheAt(c)
      BY <3>1 DEF CacheInv
    <3>3. CacheAt(c)'
      BY <3>1, <3>2 DEF CacheAt, CacheIs
    <3> QED BY <3>3
  <2> QED BY <1>1, <2>1 DEF CacheInv
<1>2. CASE Next
  <2>1. CASE object = "cache"
    <3>1. PICK c : CacheAt(c)
      BY <2>1 DEF CacheInv
    <3>2. CacheNext
      BY <1>2, <2>1 DEF Next, RingNext, DequeNext, ChannelNext, PoolNext, HeapNext, PqNext
    <3>3. CacheKept(c)
      BY <3>1, <3>2, CacheStep
    <3> QED BY <3>3 DEF CacheInv, CacheKept
  <2>2. CASE object # "cache"
    <3>1. object' = object
      BY <1>2, KindsStay
    <3> QED BY <2>2, <3>1 DEF CacheInv
  <2> QED BY <2>1, <2>2
<1> QED BY <1>1, <1>2

(* A cache always has its order. *)
LEMMA CacheAlwaysKept == Spec => []CacheInv
<1>1. CacheInv /\ [Next]_vars => CacheInv'
  BY CacheInvStep
<1> QED BY <1>1, CacheInvInit, PTL DEF Spec

(* EvictsLeastRecent for every capacity, key, value and clock limit: over  *)
(* every rebase (cache_rebase_ages), eviction and reuse of a slot, the     *)
(* cache answers and changes as a map does that drops the entry used       *)
(* longest ago (cache_put_with_evicted, cache_get_ref, cache_touch,        *)
(* cache_remove).                                                          *)
THEOREM EvictsLeastRecentAlways == Spec => EvictsLeastRecent
<1>1. CacheInv /\ [Next]_vars => [object = "cache" => Lru!LruNext]_vars
  BY CacheInvStep
<1> QED BY <1>1, CacheAlwaysKept, PTL DEF Spec, EvictsLeastRecent

(* What cache_invariant checks, and that no two occupied slots have one    *)
(* key or one age: the parts of CacheTypeOK, whatever the capacity and the *)
(* clock limit.                                                            *)
THEOREM CacheInvariantAlways == Spec => [](object = "cache" => CacheTypeOK)
<1>1. ASSUME NEW c, CacheAt(c)
      PROVE  CacheTypeOK
  <2>1. c \in Capacities
    BY <1>1 DEF CacheAt
  <2>2. PICK k, v, a, o, n, t, q : CacheIs(store, k, v, a, o, c, n, t, q)
    BY <1>1 DEF CacheAt
  <2>3. /\ store.keys = k /\ store.values = v /\ store.ages = a /\ store.occupied = o
        /\ store.capacity = c /\ store.length = n /\ store.clock = t
        /\ (\A s \in o : a[s] > 0) /\ t <= ClockEnd + 1
    BY <2>2, CacheRead
  <2>4. InOrder(a, o, t, q, n, c) /\ Keyed(k, v, o, c)
    BY <2>2 DEF CacheIs
  <2>5. /\ a \in [Slots(c) -> Nat] /\ o \in SUBSET Slots(c) /\ t \in Nat \ {0} /\ Cardinality(o) = n /\ IsOrder(q, n, o, a)
        /\ (\A s \in o : a[s] < t) /\ (\A s \in Slots(c) \ o : a[s] = 0) /\ n \in Nat
    BY <2>4 DEF InOrder
  <2>6. t \in 1 .. ClockEnd + 1 /\ t - 1 \in Int
    BY <2>3, <2>5, ContainerAssumption
  <2>7. \A s \in Slots(c) : IF s \in o THEN a[s] \in 1 .. t - 1 ELSE a[s] = 0
    BY <2>3, <2>5
  <2>8. ASSUME NEW s \in o, NEW u \in o, s # u
        PROVE  k[s] # k[u] /\ a[s] # a[u]
    <3>1. PICK i \in 1 .. n, j \in 1 .. n : q[i] = s /\ q[j] = u
      BY <2>5 DEF IsOrder
    <3>2. i < j \/ j < i
      BY <2>5, <2>8, <3>1
    <3>3. a[s] < a[u] \/ a[u] < a[s]
      BY <2>5, <3>1, <3>2 DEF IsOrder
    <3>4. a[s] \in Nat /\ a[u] \in Nat
      BY <2>5
    <3> QED BY <2>4, <2>8, <3>3, <3>4 DEF Keyed
  <2>9. \A s \in o : k[s] \in Keys /\ v[s] \in Stored
    BY <2>4 DEF Keyed
  <2> QED BY <2>1, <2>3, <2>5, <2>6, <2>7, <2>8, <2>9 DEF CacheTypeOK
<1>2. CacheInv => (object = "cache" => CacheTypeOK)
  BY <1>1 DEF CacheInv
<1> QED BY <1>2, CacheAlwaysKept, PTL
=============================================================================
