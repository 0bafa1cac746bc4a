---------------------------- MODULE Deque_proofs ----------------------------
(***************************************************************************)
(* Proofs about the deque of Lib/std/deque.nqr, for every capacity: each   *)
(* call, with all rounds of its loop, does to the items in the circular    *)
(* storage what the same call does to a plain bounded sequence.  First     *)
(* what the rounds of a loop do to a sequence, then what each function     *)
(* does to the sequence a record holds, then each call as a step of        *)
(* BoundedSequence.  With the ring and the channel of Containers_proofs    *)
(* this is the whole of SequencesKept.                                     *)
(***************************************************************************)
EXTENDS Containers_proofs

-----------------------------------------------------------------------------
(* Sequences reversed, turned and shortened, one round at a time. *)

(* Item i of a reversed sequence is the i-th from its end. *)
LEMMA ReverseIs ==
  ASSUME NEW V, NEW s \in Seq(V), NEW t, t = Sequence!Reverse(s)
  PROVE  t \in Seq(V) /\ Len(t) = Len(s) /\ \A i \in 1 .. Len(s) : t[i] = s[Len(s) + 1 - i]
<1>1. PICK n \in Nat : n = Len(s)
  BY LenProperties
<1>2. t = [i \in 1 .. n |-> s[(n - i) + 1]]
  BY <1>1 DEF Sequence!Reverse
<1>3. \A i \in 1 .. n : t[i] = s[n + 1 - i] /\ s[n + 1 - i] \in V
  <2> SUFFICES ASSUME NEW i \in 1 .. n PROVE t[i] = s[n + 1 - i] /\ s[n + 1 - i] \in V
    OBVIOUS
  <2>1. (n - i) + 1 = n + 1 - i /\ n + 1 - i \in 1 .. Len(s)
    BY <1>1
  <2> QED BY <2>1, <1>2, ElementOfSeq
<1>4. t \in Seq(V) /\ Len(t) = n
  <2>1. t \in [1 .. n -> V]
    BY <1>2, <1>3
  <2> QED BY <2>1, FunctionIsSeq
<1> QED BY <1>1, <1>3, <1>4

(* The first k of vs before s, as pushing them one by one at the front     *)
(* leaves them: the last of them first, ...                                *)
Prepended(vs, k, s) == Sequence!Reverse(SubSeq(vs, 1, k)) \o s

(* ... and the same said item by item. *)
IsPrepended(V, t, vs, k, s) ==
  /\ t \in Seq(V) /\ Len(t) = k + Len(s)
  /\ \A i \in 1 .. k : t[i] = vs[k + 1 - i]
  /\ \A i \in k + 1 .. k + Len(s) : t[i] = s[i - k]

(* Values prepended one by one stand in reverse order. *)
LEMMA PrependedIs ==
  ASSUME NEW V, NEW s \in Seq(V), NEW vs \in Seq(V), NEW k \in 0 .. Len(vs), NEW t, t = Prepended(vs, k, s)
  PROVE  IsPrepended(V, t, vs, k, s)
<1>1. PICK n \in Nat : n = Len(s)
  BY LenProperties
<1>2. PICK p : p = SubSeq(vs, 1, k)
  OBVIOUS
<1>3. p \in Seq(V) /\ Len(p) = k /\ \A i \in 1 .. k : p[i] = vs[i]
  <2>1. PICK zero \in 0 .. Len(vs) : zero = 0 /\ k \in zero .. Len(vs)
    BY LenProperties
  <2>2. p = SubSeq(vs, zero + 1, k)
    BY <1>2, <2>1
  <2>3. p \in Seq(V) /\ Len(p) = k - zero
    BY <2>1, <2>2, PartOf
  <2>4. \A i \in 1 .. k - zero : p[i] = vs[zero + i]
    BY <2>1, <2>2, PartItem
  <2> QED BY <2>1, <2>3, <2>4
<1>4. PICK r : r = Sequence!Reverse(p)
  OBVIOUS
<1>5. r \in Seq(V) /\ Len(r) = k /\ \A i \in 1 .. k : r[i] = p[k + 1 - i]
  <2>1. r \in Seq(V) /\ Len(r) = Len(p) /\ \A i \in 1 .. Len(p) : r[i] = p[Len(p) + 1 - i]
    BY <1>3, <1>4, ReverseIs
  <2> QED BY <2>1, <1>3
<1>6. \A i \in 1 .. k : r[i] = vs[k + 1 - i]
  <2> SUFFICES ASSUME NEW i \in 1 .. k PROVE r[i] = vs[k + 1 - i]
    OBVIOUS
  <2>1. k + 1 - i \in 1 .. k
    OBVIOUS
  <2> QED BY <2>1, <1>3, <1>5
<1>7. t = r \o s
  BY <1>2, <1>4 DEF Prepended
<1>8. t \in Seq(V) /\ Len(t) = k + Len(s)
  BY <1>5, <1>7, ConcatProperties
<1>9. \A i \in 1 .. Len(r) + Len(s) : t[i] = IF i <= Len(r) THEN r[i] ELSE s[i - Len(r)]
  BY <1>5, <1>7, ConcatProperties
<1>10. ASSUME NEW i \in 1 .. k + n
       PROVE  t[i] = IF i <= k THEN r[i] ELSE s[i - k]
  BY <1>1, <1>5, <1>9
<1>11. \A i \in 1 .. k : t[i] = vs[k + 1 - i]
  <2> SUFFICES ASSUME NEW i \in 1 .. k PROVE t[i] = vs[k + 1 - i]
    OBVIOUS
  <2>1. i \in 1 .. k + n /\ i <= k
    OBVIOUS
  <2> QED BY <2>1, <1>6, <1>10
<1>12. \A i \in k + 1 .. k + n : t[i] = s[i - k]
  <2> SUFFICES ASSUME NEW i \in k + 1 .. k + n PROVE t[i] = s[i - k]
    OBVIOUS
  <2>1. i \in 1 .. k + n /\ ~(i <= k)
    OBVIOUS
  <2> QED BY <2>1, <1>10
<1> QED BY <1>1, <1>8, <1>11, <1>12 DEF IsPrepended

(* One item put before a sequence. *)
LEMMA BeforeIs ==
  ASSUME NEW V, NEW s \in Seq(V), NEW v \in V, NEW t, t = <<v>> \o s
  PROVE  /\ t \in Seq(V) /\ Len(t) = Len(s) + 1
         /\ \A i \in 1 .. Len(s) + 1 : t[i] = IF i = 1 THEN v ELSE s[i - 1]
<1>1. PICK n \in Nat : n = Len(s)
  BY LenProperties
<1>2. <<v>> \in Seq(V) /\ Len(<<v>>) = 1 /\ <<v>>[1] = v
  OBVIOUS
<1>3. PICK u \in Seq(V) : u = <<v>> /\ Len(u) = 1 /\ u[1] = v
  BY <1>2
<1>4. /\ t \in Seq(V) /\ Len(t) = Len(u) + Len(s)
      /\ \A i \in 1 .. Len(u) + Len(s) : t[i] = IF i <= Len(u) THEN u[i] ELSE s[i - Len(u)]
  BY <1>3, ConcatProperties
<1>5. Len(t) = n + 1 /\ \A i \in 1 .. n + 1 : t[i] = IF i <= 1 THEN u[i] ELSE s[i - 1]
  <2>1. 1 + n = n + 1
    OBVIOUS
  <2> QED BY <1>1, <1>3, <1>4, <2>1
<1>6. \A i \in 1 .. n + 1 : i <= 1 <=> i = 1
  OBVIOUS
<1> QED BY <1>1, <1>3, <1>4, <1>5, <1>6

(* The loop of deque_push_front_many. *)
LEMMA OneMoreBefore ==
  ASSUME NEW V, NEW s \in Seq(V), NEW vs \in Seq(V), NEW k \in 1 .. Len(vs)
  PROVE  <<vs[k]>> \o Prepended(vs, k - 1, s) = Prepended(vs, k, s)
<1>1. PICK n \in Nat, l \in 0 .. Len(vs), m \in 0 .. Len(vs) : n = Len(s) /\ l = k - 1 /\ m = k
  BY LenProperties
<1>2. PICK p : p = Prepended(vs, l, s)
  OBVIOUS
<1>3. /\ p \in Seq(V) /\ Len(p) = l + Len(s) /\ \A i \in 1 .. l : p[i] = vs[l + 1 - i]
      /\ \A i \in l + 1 .. l + Len(s) : p[i] = s[i - l]
  <2>1. IsPrepended(V, p, vs, l, s)
    BY <1>1, <1>2, PrependedIs
  <2> QED BY <2>1 DEF IsPrepended
<1>4. PICK t : t = Prepended(vs, m, s)
  OBVIOUS
<1>5. /\ t \in Seq(V) /\ Len(t) = m + Len(s) /\ \A i \in 1 .. m : t[i] = vs[m + 1 - i]
      /\ \A i \in m + 1 .. m + Len(s) : t[i] = s[i - m]
  <2>1. IsPrepended(V, t, vs, m, s)
    BY <1>1, <1>4, PrependedIs
  <2> QED BY <2>1 DEF IsPrepended
<1>6. PICK v \in V : v = vs[k]
  BY ElementOfSeq
<1>7. PICK u : u = <<v>> \o p
  OBVIOUS
<1>8. u \in Seq(V) /\ Len(u) = Len(p) + 1 /\ \A i \in 1 .. Len(p) + 1 : u[i] = IF i = 1 THEN v ELSE p[i - 1]
  BY <1>3, <1>7, BeforeIs
<1>9. Len(p) + 1 = m + n /\ Len(p) = l + n /\ m = l + 1
  BY <1>1, <1>3
<1>10. ASSUME NEW i \in 1 .. m + n
       PROVE  u[i] = t[i]
  <2>1. CASE i = 1
    <3>1. i \in 1 .. m /\ m + 1 - i = k /\ i \in 1 .. Len(p) + 1
      BY <1>1, <1>9, <2>1
    <3>2. u[i] = v
      BY <1>8, <2>1, <3>1
    <3>3. t[i] = vs[m + 1 - i]
      BY <1>5, <3>1
    <3> QED BY <3>1, <3>2, <3>3, <1>6
  <2>2. CASE i # 1 /\ i <= m
    <3>1. i \in 1 .. m /\ i - 1 \in 1 .. l /\ l + 1 - (i - 1) = m + 1 - i /\ i \in 1 .. Len(p) + 1
      BY <1>1, <1>9, <2>2
    <3>2. p[i - 1] = vs[l + 1 - (i - 1)]
      BY <1>3, <3>1
    <3>3. u[i] = p[i - 1]
      BY <1>8, <2>2, <3>1
    <3>4. t[i] = vs[m + 1 - i]
      BY <1>5, <3>1
    <3> QED BY <3>1, <3>2, <3>3, <3>4
  <2>3. CASE ~(i <= m)
    <3>1. /\ i \in m + 1 .. m + Len(s) /\ i - 1 \in l + 1 .. l + Len(s) /\ (i - 1) - l = i - m /\ i # 1
          /\ i \in 1 .. Len(p) + 1
      BY <1>1, <1>9, <2>3
    <3>2. p[i - 1] = s[(i - 1) - l]
      BY <1>3, <3>1
    <3>3. u[i] = p[i - 1]
      BY <1>8, <3>1
    <3>4. t[i] = s[i - m]
      BY <1>5, <3>1
    <3> QED BY <3>1, <3>2, <3>3, <3>4
  <2> QED BY <2>1, <2>2, <2>3
<1>11. u = t
  <2>1. Len(u) = Len(t) /\ Len(u) = m + n
    BY <1>1, <1>5, <1>8, <1>9
  <2> QED BY <1>5, <1>8, <1>10, <2>1, SeqEqual
<1> QED BY <1>1, <1>2, <1>4, <1>6, <1>7, <1>11

(* t is s turned by k. *)
IsTurned(V, t, s, k, n) ==
  t \in Seq(V) /\ Len(t) = n /\ \A i \in 1 .. n : t[i] = s[((i - 1 + k) % n) + 1]

(* A turned sequence, item by item. *)
LEMMA TurnedIs ==
  ASSUME NEW V, NEW s \in Seq(V), NEW k \in Nat, NEW n \in Nat, n = Len(s), NEW t, t = Sequence!Turned(s, k)
  PROVE  IsTurned(V, t, s, k, n)
<1>1. DOMAIN s = 1 .. n
  BY LenProperties
<1>2. t = [i \in 1 .. n |-> s[((i - 1 + k) % n) + 1]]
  BY <1>1 DEF Sequence!Turned
<1>3. t \in Seq(V)
  BY TurnedIn
<1>4. Len(t) = n
  <2>1. DOMAIN t = 1 .. n /\ DOMAIN t = 1 .. Len(t) /\ Len(t) \in Nat
    BY <1>2, <1>3, LenProperties
  <2> QED BY <2>1
<1> QED BY <1>2, <1>3, <1>4 DEF IsTurned

(* There is one sequence that is s turned by k. *)
LEMMA TurnedSame ==
  ASSUME NEW V, NEW s, NEW k \in Nat, NEW n \in Nat, NEW t, NEW u, IsTurned(V, t, s, k, n), IsTurned(V, u, s, k, n)
  PROVE  t = u
<1>1. t \in Seq(V) /\ Len(t) = n /\ \A i \in 1 .. n : t[i] = s[((i - 1 + k) % n) + 1]
  BY DEF IsTurned
<1>2. u \in Seq(V) /\ Len(u) = n /\ \A i \in 1 .. n : u[i] = s[((i - 1 + k) % n) + 1]
  BY DEF IsTurned
<1>3. \A i \in 1 .. n : t[i] = u[i]
  BY <1>1, <1>2
<1> QED BY <1>1, <1>2, <1>3, SeqEqual

(* The first item moves behind the last. *)
LEMMA TurnedLeftOnce ==
  ASSUME NEW V, NEW s \in Seq(V), Len(s) > 0
  PROVE  Append(SubSeq(s, 2, Len(s)), s[1]) = Sequence!Turned(s, 1)
<1>1. PICK n \in Nat : n = Len(s) /\ n > 0
  BY LenProperties
<1>2. PICK p : p = SubSeq(s, 2, Len(s))
  OBVIOUS
<1>3. p \in Seq(V) /\ Len(p) = Len(s) - 1 /\ \A i \in 1 .. Len(s) - 1 : p[i] = s[i + 1]
  BY <1>1, <1>2, RestIs
<1>4. PICK v \in V : v = s[1]
  <2>1. 1 \in 1 .. Len(s)
    BY <1>1
  <2> QED BY <2>1, ElementOfSeq
<1>5. PICK t : t = Append(p, v)
  OBVIOUS
<1>6. t \in Seq(V) /\ Len(t) = n
  BY <1>1, <1>3, <1>5, AppendIs
<1>7. ASSUME NEW i \in 1 .. n
      PROVE  t[i] = s[((i - 1 + 1) % n) + 1]
  <2>1. i \in 1 .. Len(p) + 1
    BY <1>1, <1>3
  <2>2. t[i] = IF i = Len(p) + 1 THEN v ELSE p[i]
    BY <1>3, <1>5, <2>1, AppendItem
  <2>3. PICK x \in Nat : x = i - 1 + 1 /\ x = i /\ x < 2 * n
    OBVIOUS
  <2>4. x % n = IF x < n THEN x ELSE x - n
    BY <1>1, <2>3, WrapOf
  <2>5. CASE i = n
    <3>1. x % n = 0 /\ Len(p) + 1 = n
      BY <1>1, <1>3, <2>3, <2>4, <2>5
    <3>2. t[i] = s[1]
      BY <1>4, <2>2, <2>5, <3>1
    <3>3. (x % n) + 1 = 1
      BY <3>1
    <3> QED BY <2>3, <3>2, <3>3
  <2>6. CASE i \in 1 .. n - 1
    <3>1. x % n = i /\ i # Len(p) + 1 /\ i \in 1 .. Len(s) - 1
      BY <1>1, <1>3, <2>3, <2>4, <2>6
    <3>2. t[i] = s[i + 1]
      BY <1>3, <2>2, <3>1
    <3> QED BY <2>3, <3>1, <3>2
  <2>7. i = n \/ i \in 1 .. n - 1
    OBVIOUS
  <2> QED BY <2>5, <2>6, <2>7
<1>8. IsTurned(V, t, s, 1, n)
  BY <1>6, <1>7 DEF IsTurned
<1>9. PICK one \in Nat : one = 1
  OBVIOUS
<1>10. IsTurned(V, Sequence!Turned(s, one), s, one, n)
  BY <1>1, TurnedIs
<1>11. t = Sequence!Turned(s, one)
  BY <1>8, <1>9, <1>10, TurnedSame
<1> QED BY <1>2, <1>4, <1>5, <1>9, <1>11

(* The last item moves before the first. *)
LEMMA TurnedRightOnce ==
  ASSUME NEW V, NEW s \in Seq(V), Len(s) > 0
  PROVE  <<s[Len(s)]>> \o SubSeq(s, 1, Len(s) - 1) = Sequence!Turned(s, Len(s) - 1)
<1>1. PICK n \in Nat : n = Len(s) /\ n > 0
  BY LenProperties
<1>0. PICK zero \in 0 .. Len(s) : zero = 0
  BY <1>1
<1>2. PICK l \in zero .. Len(s) : l = n - 1
  BY <1>0, <1>1
<1>3. PICK p : p = SubSeq(s, 1, Len(s) - 1)
  OBVIOUS
<1>4. p = SubSeq(s, zero + 1, l)
  BY <1>0, <1>1, <1>2, <1>3
<1>5. p \in Seq(V) /\ Len(p) = l
  <2>1. p \in Seq(V) /\ Len(p) = l - zero
    BY <1>2, <1>4, PartOf
  <2> QED BY <1>0, <1>2, <2>1
<1>6. \A i \in 1 .. l : p[i] = s[i]
  <2>1. \A i \in 1 .. l - zero : p[i] = s[zero + i]
    BY <1>2, <1>4, PartItem
  <2> QED BY <1>0, <1>2, <2>1
<1>7. PICK v \in V : v = s[n]
  <2>1. n \in 1 .. Len(s)
    BY <1>1
  <2> QED BY <2>1, ElementOfSeq
<1>8. PICK t : t = <<v>> \o p
  OBVIOUS
<1>9. t \in Seq(V) /\ Len(t) = Len(p) + 1 /\ \A i \in 1 .. Len(p) + 1 : t[i] = IF i = 1 THEN v ELSE p[i - 1]
  BY <1>5, <1>8, BeforeIs
<1>10. Len(p) + 1 = n /\ l = n - 1
  BY <1>1, <1>2, <1>5
<1>11. ASSUME NEW i \in 1 .. n
       PROVE  t[i] = s[((i - 1 + l) % n) + 1]
  <2>1. t[i] = IF i = 1 THEN v ELSE p[i - 1]
    BY <1>9, <1>10
  <2>2. PICK x \in Nat : x = i - 1 + l /\ x < 2 * n
    <3>1. l \in Nat /\ l = n - 1
      BY <1>1, <1>10
    <3>2. i - 1 + l \in Nat /\ i - 1 + l < 2 * n
      BY <3>1
    <3> QED BY <3>2
  <2>3. x % n = IF x < n THEN x ELSE x - n
    BY <1>1, <2>2, WrapOf
  <2>4. CASE i = 1
    <3>1. (x % n) + 1 = n
      BY <1>1, <1>10, <2>2, <2>3, <2>4
    <3> QED BY <1>7, <2>1, <2>2, <2>4, <3>1
  <2>5. CASE i # 1
    <3>1. (x % n) + 1 = i - 1 /\ i - 1 \in 1 .. l
      BY <1>1, <1>10, <2>2, <2>3, <2>5
    <3>2. p[i - 1] = s[i - 1]
      BY <1>6, <3>1
    <3> QED BY <2>1, <2>2, <2>5, <3>1, <3>2
  <2> QED BY <2>4, <2>5
<1>12. IsTurned(V, t, s, l, n)
  BY <1>9, <1>10, <1>11 DEF IsTurned
<1>13. l \in Nat
  BY <1>1, <1>10
<1>14. IsTurned(V, Sequence!Turned(s, l), s, l, n)
  BY <1>1, <1>13, TurnedIs
<1>15. t = Sequence!Turned(s, l)
  BY <1>12, <1>13, <1>14, TurnedSame
<1> QED BY <1>1, <1>3, <1>7, <1>8, <1>10, <1>15

(* Turns add up. *)
LEMMA TurnedTwice ==
  ASSUME NEW V, NEW s \in Seq(V), Len(s) > 0, NEW a \in Nat, NEW b \in Nat
  PROVE  Sequence!Turned(Sequence!Turned(s, a), b) = Sequence!Turned(s, a + b)
<1>1. PICK n \in Nat : n = Len(s) /\ n > 0
  BY LenProperties
<1>2. PICK t : t = Sequence!Turned(s, a)
  OBVIOUS
<1>3. IsTurned(V, t, s, a, n)
  BY <1>1, <1>2, TurnedIs
<1>4. t \in Seq(V) /\ Len(t) = n /\ \A i \in 1 .. n : t[i] = s[((i - 1 + a) % n) + 1]
  BY <1>3 DEF IsTurned
<1>5. PICK u : u = Sequence!Turned(t, b)
  OBVIOUS
<1>6. IsTurned(V, u, t, b, n)
  BY <1>4, <1>5, TurnedIs
<1>7. u \in Seq(V) /\ Len(u) = n /\ \A i \in 1 .. n : u[i] = t[((i - 1 + b) % n) + 1]
  BY <1>6 DEF IsTurned
<1>8. PICK c \in Nat : c = a + b
  OBVIOUS
<1>9. ASSUME NEW i \in 1 .. n
      PROVE  u[i] = s[((i - 1 + c) % n) + 1]
  <2>1. PICK x \in Int, y \in 0 .. n - 1 : x = i - 1 + b /\ y = x % n
    BY <1>1, RemainderIn
  <2>2. y + 1 \in 1 .. n /\ (y + 1) - 1 + a = a + y
    OBVIOUS
  <2>3. u[i] = t[y + 1]
    BY <1>7, <2>1
  <2>4. t[y + 1] = s[((a + y) % n) + 1]
    BY <1>4, <2>2
  <2>5. (a + (x % n)) % n = (a + x) % n
    <3>1. PICK z \in Int : z = a
      OBVIOUS
    <3>2. (z + (x % n)) % n = (z + x) % n
      BY <1>1, <2>1, RemainderOfSum
    <3> QED BY <3>1, <3>2
  <2>6. a + x = i - 1 + c
    BY <1>8, <2>1
  <2>7. (a + y) % n = (i - 1 + c) % n
    BY <2>1, <2>5, <2>6
  <2> QED BY <2>3, <2>4, <2>7
<1>10. IsTurned(V, u, s, c, n)
  BY <1>7, <1>9 DEF IsTurned
<1>11. IsTurned(V, Sequence!Turned(s, c), s, c, n)
  BY <1>1, TurnedIs
<1>12. u = Sequence!Turned(s, c)
  BY <1>10, <1>11, TurnedSame
<1> QED BY <1>2, <1>5, <1>8, <1>12

(* Whole turns change nothing, one way ... *)
LEMMA TurnedLess ==
  ASSUME NEW V, NEW s \in Seq(V), NEW n \in Nat, n = Len(s), n > 0, NEW k \in Nat, NEW m \in Nat, m = k % n
  PROVE  Sequence!Turned(s, m) = Sequence!Turned(s, k)
<1>1. IsTurned(V, Sequence!Turned(s, k), s, k, n)
  BY TurnedIs
<1>2. PICK t : t = Sequence!Turned(s, m)
  OBVIOUS
<1>3. IsTurned(V, t, s, m, n)
  BY <1>2, TurnedIs
<1>4. ASSUME NEW i \in 1 .. n
      PROVE  (i - 1 + m) % n = (i - 1 + k) % n
  <2>1. PICK x \in Int, y \in Int : x = i - 1 /\ y = k
    OBVIOUS
  <2>2. (x + (y % n)) % n = (x + y) % n
    BY RemainderOfSum
  <2> QED BY <2>1, <2>2
<1>5. IsTurned(V, t, s, k, n)
  BY <1>3, <1>4 DEF IsTurned
<1> QED BY <1>1, <1>2, <1>5, TurnedSame

(* Counted from x, a and b steps round n slots end in the same slot. *)
EndsAlike(x, a, b, n) == (x + a) % n = (x + b) % n

(* Turning right by one is turning left by n - 1; whole turns drop out. *)
LEMMA RemainderBackLess ==
  ASSUME NEW n \in Nat, n > 0, NEW x \in Int, NEW k \in Nat, NEW m \in Nat, m = k % n,
         NEW a, a = m * (n - 1), NEW b, b = k * (n - 1)
  PROVE  EndsAlike(x, a, b, n)
<1>1. m % n = m
  <2>1. m \in 0 .. n - 1
    BY RemainderIn
  <2>2. m % n = IF m < n THEN m ELSE m - n
    <3>1. m < 2 * n
      BY <2>1
    <3> QED BY <3>1, WrapOf
  <2> QED BY <2>1, <2>2
<1>2. (x + n - (k % n)) % n = (x + k * (n - 1)) % n
  BY RemainderBack
<1>3. (x + n - (m % n)) % n = (x + m * (n - 1)) % n
  BY RemainderBack
<1> QED BY <1>1, <1>2, <1>3 DEF EndsAlike

(* ... or the other. *)
LEMMA TurnedBackLess ==
  ASSUME NEW V, NEW s \in Seq(V), NEW n \in Nat, n = Len(s), n > 0, NEW k \in Nat, NEW m \in Nat, m = k % n,
         NEW a \in Nat, a = m * (n - 1), NEW b \in Nat, b = k * (n - 1)
  PROVE  Sequence!Turned(s, a) = Sequence!Turned(s, b)
<1>1. IsTurned(V, Sequence!Turned(s, b), s, b, n)
  BY TurnedIs
<1>2. PICK t : t = Sequence!Turned(s, a)
  OBVIOUS
<1>3. IsTurned(V, t, s, a, n)
  BY <1>2, TurnedIs
<1>5. ASSUME NEW i \in 1 .. n
      PROVE  (i - 1 + a) % n = (i - 1 + b) % n
  <2>1. PICK x \in Int : x = i - 1
    OBVIOUS
  <2>2. EndsAlike(x, a, b, n)
    BY <2>1, RemainderBackLess
  <2>4. (x + a) % n = (x + b) % n
    BY <2>2 DEF EndsAlike
  <2> QED BY <2>1, <2>4
<1>6. IsTurned(V, t, s, b, n)
  BY <1>3, <1>5 DEF IsTurned
<1> QED BY <1>1, <1>2, <1>6, TurnedSame

(* There is nothing to turn in a sequence of one item. *)
LEMMA TurnedOne ==
  ASSUME NEW V, NEW s \in Seq(V), Len(s) = 1, NEW k \in Nat
  PROVE  Sequence!Turned(s, k) = s
<1>1. PICK n \in Nat : n = Len(s) /\ n = 1
  OBVIOUS
<1>2. PICK t : t = Sequence!Turned(s, k)
  OBVIOUS
<1>3. IsTurned(V, t, s, k, n)
  BY <1>1, <1>2, TurnedIs
<1>4. t \in Seq(V) /\ Len(t) = n /\ \A i \in 1 .. n : t[i] = s[((i - 1 + k) % n) + 1]
  BY <1>3 DEF IsTurned
<1>5. ASSUME NEW i \in 1 .. n
      PROVE  t[i] = s[i]
  <2>1. (i - 1 + k) % n \in 0 .. n - 1
    BY <1>1, RemainderIn
  <2>2. ((i - 1 + k) % n) + 1 = i
    BY <1>1, <2>1
  <2> QED BY <1>4, <2>2
<1>6. t = s
  BY <1>1, <1>4, <1>5, SeqEqual
<1> QED BY <1>2, <1>6

(* t is s with v at j. *)
IsPut(V, t, s, j, v, n) ==
  t \in Seq(V) /\ Len(t) = n /\ \A i \in 1 .. n : t[i] = IF i = j THEN v ELSE s[i]

(* One item of a sequence replaced. *)
LEMMA PutIs ==
  ASSUME NEW V, NEW s \in Seq(V), NEW n, n = Len(s), NEW j \in 1 .. n, NEW v \in V
  PROVE  IsPut(V, Put(s, j, v), s, j, v, n)
BY ExceptSeq DEF Put, IsPut

(* t is s with its first k items and its last k in each other's places. *)
IsHalfReversed(V, t, s, k, n) ==
  t \in Seq(V) /\ Len(t) = n /\ \A i \in 1 .. n : t[i] = IF i <= k \/ i > n - k THEN s[n + 1 - i] ELSE s[i]

(* The loop of deque_reverse before its first round, ... *)
LEMMA HalfReversedNone ==
  ASSUME NEW V, NEW s \in Seq(V), NEW n, n = Len(s)
  PROVE  IsHalfReversed(V, s, s, 0, n)
<1>1. Len(s) \in Nat
  BY LenProperties
<1>2. \A i \in 1 .. n : ~(i <= 0 \/ i > n - 0)
  BY <1>1
<1> QED BY <1>2 DEF IsHalfReversed

(* ... in a round, which swaps two items as far from the ends, ... *)
LEMMA HalfReversedMore ==
  ASSUME NEW V, NEW s \in Seq(V), NEW n \in Nat, n = Len(s), NEW k \in Nat, k > 0, 2 * k <= n, NEW l, l = k - 1,
         NEW t, IsHalfReversed(V, t, s, l, n), NEW j \in Nat, j = n + 1 - k,
         NEW u, u = Put(Put(t, k, t[j]), j, t[k])
  PROVE  IsHalfReversed(V, u, s, k, n)
<1>1. t \in Seq(V) /\ Len(t) = n /\ \A i \in 1 .. n : t[i] = IF i <= l \/ i > n - l THEN s[n + 1 - i] ELSE s[i]
  BY DEF IsHalfReversed
<1>2. k \in 1 .. n /\ j \in 1 .. n /\ k < j
  OBVIOUS
<1>3. PICK a \in V, b \in V : a = t[j] /\ b = t[k]
  BY <1>1, <1>2, ElementOfSeq
<1>4. a = s[j] /\ b = s[k]
  <2>1. ~(j <= l \/ j > n - l) /\ ~(k <= l \/ k > n - l)
    BY <1>2
  <2> QED BY <1>1, <1>2, <1>3, <2>1
<1>5. PICK w : w = Put(t, k, a)
  OBVIOUS
<1>6. w \in Seq(V) /\ Len(w) = n /\ \A i \in 1 .. n : w[i] = IF i = k THEN a ELSE t[i]
  <2>1. IsPut(V, w, t, k, a, n)
    BY <1>1, <1>2, <1>3, <1>5, PutIs
  <2> QED BY <2>1 DEF IsPut
<1>7. u = Put(w, j, b)
  BY <1>3, <1>5
<1>8. u \in Seq(V) /\ Len(u) = n /\ \A i \in 1 .. n : u[i] = IF i = j THEN b ELSE w[i]
  <2>1. IsPut(V, u, w, j, b, n)
    BY <1>2, <1>3, <1>6, <1>7, PutIs
  <2> QED BY <2>1 DEF IsPut
<1>9. ASSUME NEW i \in 1 .. n
      PROVE  u[i] = IF i <= k \/ i > n - k THEN s[n + 1 - i] ELSE s[i]
  <2>1. CASE i = j
    <3>1. i > n - k /\ n + 1 - i = k
      BY <2>1
    <3> QED BY <1>4, <1>8, <2>1, <3>1
  <2>2. CASE i = k
    <3>1. i <= k /\ n + 1 - i = j /\ i # j
      BY <1>2, <2>2
    <3> QED BY <1>4, <1>6, <1>8, <2>2, <3>1
  <2>3. CASE i # j /\ i # k
    <3>1. (i <= k \/ i > n - k) <=> (i <= l \/ i > n - l)
      BY <2>3
    <3>2. u[i] = t[i]
      BY <1>6, <1>8, <2>3
    <3> QED BY <1>1, <3>1, <3>2
  <2> QED BY <2>1, <2>2, <2>3
<1> QED BY <1>8, <1>9 DEF IsHalfReversed

(* ... and at its end: half the rounds reverse the whole sequence. *)
LEMMA HalfReversedAll ==
  ASSUME NEW V, NEW s \in Seq(V), NEW n \in Nat, n = Len(s), NEW k, k = n \div 2, NEW t, IsHalfReversed(V, t, s, k, n)
  PROVE  t = Sequence!Reverse(s)
<1>1. t \in Seq(V) /\ Len(t) = n /\ \A i \in 1 .. n : t[i] = IF i <= k \/ i > n - k THEN s[n + 1 - i] ELSE s[i]
  BY DEF IsHalfReversed
<1>2. PICK r : r = Sequence!Reverse(s)
  OBVIOUS
<1>3. r \in Seq(V) /\ Len(r) = n /\ \A i \in 1 .. n : r[i] = s[n + 1 - i]
  BY <1>2, ReverseIs
<1>4. k \in Nat /\ 2 * k <= n /\ n <= 2 * k + 1
  OBVIOUS
<1>5. ASSUME NEW i \in 1 .. n
      PROVE  t[i] = r[i]
  <2>1. CASE i <= k \/ i > n - k
    BY <1>1, <1>3, <2>1
  <2>2. CASE ~(i <= k \/ i > n - k)
    <3>1. n + 1 - i = i
      BY <1>4, <2>2
    <3> QED BY <1>1, <1>3, <2>2, <3>1
  <2> QED BY <2>1, <2>2
<1> QED BY <1>1, <1>2, <1>3, <1>5, SeqEqual

(* t is s without the item at x. *)
IsRemoved(V, t, s, x, n) ==
  t \in Seq(V) /\ Len(t) = n - 1 /\ \A i \in 1 .. n - 1 : t[i] = IF i <= x THEN s[i] ELSE s[i + 1]

(* A sequence without the item at x, item by item. *)
LEMMA RemoveAtIs ==
  ASSUME NEW V, NEW s \in Seq(V), NEW n \in Nat, n = Len(s), NEW x \in 0 .. n - 1, NEW t, t = Sequence!RemoveAt(s, x + 1)
  PROVE  IsRemoved(V, t, s, x, n)
<1>1. PICK p, q : p = SubSeq(s, 1, x) /\ q = SubSeq(s, x + 2, n)
  OBVIOUS
<1>2. t = p \o q
  <2>1. (x + 1) - 1 = x /\ (x + 1) + 1 = x + 2
    OBVIOUS
  <2> QED BY <1>1, <2>1 DEF Sequence!RemoveAt
<1>3. p \in Seq(V) /\ Len(p) = x /\ \A i \in 1 .. x : p[i] = s[i]
  <2>1. PICK zero \in 0 .. Len(s) : zero = 0 /\ x \in zero .. Len(s)
    OBVIOUS
  <2>2. p = SubSeq(s, zero + 1, x)
    BY <1>1, <2>1
  <2>3. p \in Seq(V) /\ Len(p) = x - zero
    BY <2>1, <2>2, PartOf
  <2>4. \A i \in 1 .. x - zero : p[i] = s[zero + i]
    BY <2>1, <2>2, PartItem
  <2> QED BY <2>1, <2>3, <2>4
<1>4. q \in Seq(V) /\ Len(q) = n - 1 - x /\ \A i \in 1 .. n - 1 - x : q[i] = s[x + 1 + i]
  <2>1. PICK m \in 0 .. Len(s) : m = x + 1 /\ n \in m .. Len(s)
    OBVIOUS
  <2>2. q = SubSeq(s, m + 1, n)
    BY <1>1, <2>1
  <2>3. q \in Seq(V) /\ Len(q) = n - m
    BY <2>1, <2>2, PartOf
  <2>4. \A i \in 1 .. n - m : q[i] = s[m + i]
    BY <2>1, <2>2, PartItem
  <2> QED BY <2>1, <2>3, <2>4
<1>5. t \in Seq(V) /\ Len(t) = Len(p) + Len(q)
  BY <1>2, <1>3, <1>4, ConcatProperties
<1>8. \A i \in 1 .. Len(p) + Len(q) : t[i] = IF i <= Len(p) THEN p[i] ELSE q[i - Len(p)]
  <2>1. p \in Seq(V) /\ q \in Seq(V)
    BY <1>3, <1>4
  <2>2. \A i \in 1 .. Len(p) + Len(q) : (p \o q)[i] = IF i <= Len(p) THEN p[i] ELSE q[i - Len(p)]
    BY <2>1, ConcatProperties
  <2> QED BY <2>2, <1>2
<1>6. Len(p) + Len(q) = n - 1
  BY <1>3, <1>4
<1>7. ASSUME NEW i \in 1 .. n - 1
      PROVE  t[i] = IF i <= x THEN s[i] ELSE s[i + 1]
  <2>1. t[i] = IF i <= x THEN p[i] ELSE q[i - x]
    BY <1>3, <1>6, <1>8
  <2>2. CASE i <= x
    <3>1. i \in 1 .. x
      BY <2>2
    <3> QED BY <1>3, <2>1, <2>2, <3>1
  <2>3. CASE ~(i <= x)
    <3>1. i - x \in 1 .. n - 1 - x /\ x + 1 + (i - x) = i + 1
      BY <2>3
    <3>2. q[i - x] = s[x + 1 + (i - x)]
      BY <1>4, <3>1
    <3> QED BY <2>1, <2>3, <3>1, <3>2
  <2> QED BY <2>2, <2>3
<1> QED BY <1>5, <1>6, <1>7 DEF IsRemoved

(* There is one sequence that is s without the item at x. *)
LEMMA RemovedSame ==
  ASSUME NEW V, NEW s, NEW n \in Nat, NEW x, NEW t, NEW u, IsRemoved(V, t, s, x, n), IsRemoved(V, u, s, x, n)
  PROVE  t = u
<1>1. t \in Seq(V) /\ Len(t) = n - 1 /\ \A i \in 1 .. n - 1 : t[i] = IF i <= x THEN s[i] ELSE s[i + 1]
  BY DEF IsRemoved
<1>2. u \in Seq(V) /\ Len(u) = n - 1 /\ \A i \in 1 .. n - 1 : u[i] = IF i <= x THEN s[i] ELSE s[i + 1]
  BY DEF IsRemoved
<1>3. \A i \in 1 .. n - 1 : t[i] = u[i]
  BY <1>1, <1>2
<1> QED BY <1>1, <1>2, <1>3, SeqEqual

(* The k items before the one at x are moved up. *)
IsMovedUp(V, t, s, x, k, n) ==
  t \in Seq(V) /\ Len(t) = n /\ \A i \in 1 .. n : t[i] = IF i > x + 1 - k /\ i <= x + 1 THEN s[i - 1] ELSE s[i]

(* The first loop of deque_remove_at before its first round, ... *)
LEMMA MovedUpNone ==
  ASSUME NEW V, NEW s \in Seq(V), NEW n, n = Len(s), NEW x \in Nat
  PROVE  IsMovedUp(V, s, s, x, 0, n)
<1>1. Len(s) \in Nat
  BY LenProperties
<1>2. \A i \in 1 .. n : ~(i > x + 1 - 0 /\ i <= x + 1)
  BY <1>1
<1> QED BY <1>2 DEF IsMovedUp

(* ... in a round, which copies an item over the one behind it, ... *)
LEMMA MovedUpMore ==
  ASSUME NEW V, NEW s \in Seq(V), NEW n \in Nat, n = Len(s), NEW x \in 0 .. n - 1, NEW k \in 1 .. x, NEW l, l = k - 1,
         NEW t, IsMovedUp(V, t, s, x, l, n), NEW j, j = x + 1 - k, NEW u, u = Put(t, j + 1, t[j])
  PROVE  IsMovedUp(V, u, s, x, k, n)
<1>1. t \in Seq(V) /\ Len(t) = n /\ \A i \in 1 .. n : t[i] = IF i > x + 1 - l /\ i <= x + 1 THEN s[i - 1] ELSE s[i]
  BY DEF IsMovedUp
<1>2. j \in 1 .. n /\ j + 1 \in 1 .. n
  OBVIOUS
<1>3. PICK a \in V : a = t[j]
  BY <1>1, <1>2, ElementOfSeq
<1>4. a = s[j]
  <2>1. ~(j > x + 1 - l /\ j <= x + 1)
    OBVIOUS
  <2> QED BY <1>1, <1>2, <1>3, <2>1
<1>5. PICK h \in 1 .. n : h = j + 1
  BY <1>2
<1>6. u \in Seq(V) /\ Len(u) = n /\ \A i \in 1 .. n : u[i] = IF i = h THEN a ELSE t[i]
  <2>1. IsPut(V, u, t, h, a, n)
    BY <1>1, <1>3, <1>5, PutIs
  <2> QED BY <2>1 DEF IsPut
<1>7. ASSUME NEW i \in 1 .. n
      PROVE  u[i] = IF i > x + 1 - k /\ i <= x + 1 THEN s[i - 1] ELSE s[i]
  <2>1. CASE i = h
    <3>1. i > x + 1 - k /\ i <= x + 1 /\ i - 1 = j
      BY <1>5, <2>1
    <3> QED BY <1>4, <1>6, <2>1, <3>1
  <2>2. CASE i # h
    <3>1. (i > x + 1 - k /\ i <= x + 1) <=> (i > x + 1 - l /\ i <= x + 1)
      BY <1>5, <2>2
    <3>2. u[i] = t[i]
      BY <1>6, <2>2
    <3> QED BY <1>1, <3>1, <3>2
  <2> QED BY <2>1, <2>2
<1> QED BY <1>6, <1>7 DEF IsMovedUp

(* ... and at its end: without its first item the sequence is s without    *)
(* the one at x.                                                           *)
LEMMA MovedUpAll ==
  ASSUME NEW V, NEW s \in Seq(V), NEW n \in Nat, n = Len(s), NEW x \in 0 .. n - 1, NEW t, IsMovedUp(V, t, s, x, x, n)
  PROVE  SubSeq(t, 2, n) = Sequence!RemoveAt(s, x + 1)
<1>1. t \in Seq(V) /\ Len(t) = n /\ \A i \in 1 .. n : t[i] = IF i > x + 1 - x /\ i <= x + 1 THEN s[i - 1] ELSE s[i]
  BY DEF IsMovedUp
<1>2. PICK p : p = SubSeq(t, 2, n)
  OBVIOUS
<1>3. p \in Seq(V) /\ Len(p) = n - 1 /\ \A i \in 1 .. n - 1 : p[i] = t[i + 1]
  <2>1. Len(t) > 0 /\ p = SubSeq(t, 2, Len(t))
    BY <1>1, <1>2
  <2>2. p \in Seq(V) /\ Len(p) = Len(t) - 1 /\ \A i \in 1 .. Len(t) - 1 : p[i] = t[i + 1]
    BY <1>1, <2>1, RestIs
  <2> QED BY <1>1, <2>2
<1>4. ASSUME NEW i \in 1 .. n - 1
      PROVE  p[i] = IF i <= x THEN s[i] ELSE s[i + 1]
  <2>1. PICK h \in 1 .. n : h = i + 1
    OBVIOUS
  <2>2. t[h] = IF h > x + 1 - x /\ h <= x + 1 THEN s[h - 1] ELSE s[h]
    BY <1>1, <2>1
  <2>3. (h > x + 1 - x /\ h <= x + 1 <=> i <= x) /\ h - 1 = i
    BY <2>1
  <2> QED BY <1>3, <2>1, <2>2, <2>3
<1>5. IsRemoved(V, p, s, x, n)
  BY <1>3, <1>4 DEF IsRemoved
<1>6. IsRemoved(V, Sequence!RemoveAt(s, x + 1), s, x, n)
  BY RemoveAtIs
<1> QED BY <1>2, <1>5, <1>6, RemovedSame

(* The k items behind the one at x are moved down. *)
IsMovedDown(V, t, s, x, k, n) ==
  t \in Seq(V) /\ Len(t) = n /\ \A i \in 1 .. n : t[i] = IF i > x /\ i <= x + k THEN s[i + 1] ELSE s[i]

(* The second loop of deque_remove_at before its first round, ... *)
LEMMA MovedDownNone ==
  ASSUME NEW V, NEW s \in Seq(V), NEW n, n = Len(s), NEW x \in Nat
  PROVE  IsMovedDown(V, s, s, x, 0, n)
<1>1. Len(s) \in Nat
  BY LenProperties
<1>2. \A i \in 1 .. n : ~(i > x /\ i <= x + 0)
  BY <1>1
<1> QED BY <1>2 DEF IsMovedDown

(* ... in a round, which copies an item over the one before it, ... *)
LEMMA MovedDownMore ==
  ASSUME NEW V, NEW s \in Seq(V), NEW n \in Nat, n = Len(s), NEW x \in 0 .. n - 1, NEW k \in 1 .. n - 1 - x,
         NEW l, l = k - 1, NEW t, IsMovedDown(V, t, s, x, l, n), NEW j, j = x + k, NEW u, u = Put(t, j, t[j + 1])
  PROVE  IsMovedDown(V, u, s, x, k, n)
<1>1. t \in Seq(V) /\ Len(t) = n /\ \A i \in 1 .. n : t[i] = IF i > x /\ i <= x + l THEN s[i + 1] ELSE s[i]
  BY DEF IsMovedDown
<1>2. PICK h \in 1 .. n : h = j + 1 /\ j \in 1 .. n
  OBVIOUS
<1>3. PICK a \in V : a = t[h]
  BY <1>1, <1>2, ElementOfSeq
<1>4. a = s[h]
  <2>1. ~(h > x /\ h <= x + l)
    BY <1>2
  <2> QED BY <1>1, <1>2, <1>3, <2>1
<1>5. u \in Seq(V) /\ Len(u) = n /\ \A i \in 1 .. n : u[i] = IF i = j THEN a ELSE t[i]
  <2>1. IsPut(V, u, t, j, a, n)
    BY <1>1, <1>2, <1>3, PutIs
  <2> QED BY <2>1 DEF IsPut
<1>6. ASSUME NEW i \in 1 .. n
      PROVE  u[i] = IF i > x /\ i <= x + k THEN s[i + 1] ELSE s[i]
  <2>1. CASE i = j
    <3>1. i > x /\ i <= x + k /\ i + 1 = h
      BY <1>2, <2>1
    <3> QED BY <1>4, <1>5, <2>1, <3>1
  <2>2. CASE i # j
    <3>1. (i > x /\ i <= x + k) <=> (i > x /\ i <= x + l)
      BY <2>2
    <3>2. u[i] = t[i]
      BY <1>5, <2>2
    <3> QED BY <1>1, <3>1, <3>2
  <2> QED BY <2>1, <2>2
<1> QED BY <1>5, <1>6 DEF IsMovedDown

(* ... and at its end: without its last item the sequence is s without the *)
(* one at x.                                                               *)
LEMMA MovedDownAll ==
  ASSUME NEW V, NEW s \in Seq(V), NEW n \in Nat, n = Len(s), NEW x \in 0 .. n - 1, NEW k, k = n - 1 - x,
         NEW t, IsMovedDown(V, t, s, x, k, n)
  PROVE  SubSeq(t, 1, n - 1) = Sequence!RemoveAt(s, x + 1)
<1>1. t \in Seq(V) /\ Len(t) = n /\ \A i \in 1 .. n : t[i] = IF i > x /\ i <= x + k THEN s[i + 1] ELSE s[i]
  BY DEF IsMovedDown
<1>2. PICK p : p = SubSeq(t, 1, n - 1)
  OBVIOUS
<1>3. p \in Seq(V) /\ Len(p) = n - 1 /\ \A i \in 1 .. n - 1 : p[i] = t[i]
  <2>0. Len(t) = n
    BY <1>1
  <2>1. PICK zero \in 0 .. Len(t) : zero = 0
    BY <2>0
  <2>2. PICK l \in zero .. Len(t) : l = n - 1
    BY <2>0, <2>1
  <2>3. p = SubSeq(t, zero + 1, l)
    BY <1>2, <2>1, <2>2
  <2>4. p \in Seq(V) /\ Len(p) = l - zero
    BY <1>1, <2>1, <2>2, <2>3, PartOf
  <2>5. \A i \in 1 .. l - zero : p[i] = t[zero + i]
    BY <1>1, <2>1, <2>2, <2>3, PartItem
  <2> QED BY <2>1, <2>2, <2>4, <2>5
<1>4. ASSUME NEW i \in 1 .. n - 1
      PROVE  p[i] = IF i <= x THEN s[i] ELSE s[i + 1]
  <2>1. t[i] = IF i > x /\ i <= x + k THEN s[i + 1] ELSE s[i]
    BY <1>1
  <2>2. i > x /\ i <= x + k <=> ~(i <= x)
    OBVIOUS
  <2> QED BY <1>3, <2>1, <2>2
<1>5. IsRemoved(V, p, s, x, n)
  BY <1>3, <1>4 DEF IsRemoved
<1>6. IsRemoved(V, Sequence!RemoveAt(s, x + 1), s, x, n)
  BY RemoveAtIs
<1> QED BY <1>2, <1>5, <1>6, RemovedSame

(* v is the item at x and none of those before it, or none behind it. *)
IsFirst(s, n, v, x) == x \in 0 .. n - 1 /\ s[x + 1] = v /\ \A j \in 0 .. n - 1 : s[j + 1] = v => x <= j
IsLast(s, n, v, x) == x \in 0 .. n - 1 /\ s[x + 1] = v /\ \A j \in 0 .. n - 1 : s[j + 1] = v => x >= j

(* v is in a sequence if it is one of its items. *)
LEMMA InSequence ==
  ASSUME NEW V, NEW s \in Seq(V), NEW n \in Nat, n = Len(s), NEW v
  PROVE  v \in Sequence!ToSet(s) <=> \E i \in 1 .. n : s[i] = v
<1>1. DOMAIN s = 1 .. n
  BY LenProperties
<1> QED BY <1>1 DEF Sequence!ToSet

(* Removing the first v is removing the item at its place, ... *)
LEMMA RemoveFirstIs ==
  ASSUME NEW V, NEW s \in Seq(V), NEW n \in Nat, n = Len(s), NEW v, NEW x, IsFirst(s, n, v, x)
  PROVE  Sequence!RemoveFirst(s, v) = Sequence!RemoveAt(s, x + 1)
<1>1. x \in 0 .. n - 1 /\ s[x + 1] = v /\ \A j \in 0 .. n - 1 : s[j + 1] = v => x <= j
  BY DEF IsFirst
<1>2. PICK here : here = {i \in 1 .. n : s[i] = v}
  OBVIOUS
<1>3. PICK h \in here : h = x + 1
  BY <1>1, <1>2
<1>4. \A i \in here : h <= i
  <2> SUFFICES ASSUME NEW i \in here PROVE h <= i
    OBVIOUS
  <2>1. i - 1 \in 0 .. n - 1 /\ (i - 1) + 1 = i /\ s[i] = v
    BY <1>2
  <2>2. x <= i - 1
    BY <1>1, <2>1
  <2> QED BY <1>1, <1>3, <2>1, <2>2
<1>5. Sequence!Min(here) = h
  <2>1. PICK m : m = CHOOSE i \in here : \A j \in here : i <= j
    OBVIOUS
  <2>2. m \in here /\ \A j \in here : m <= j
    BY <1>3, <1>4, <2>1
  <2>3. m <= h /\ h <= m /\ m \in Int /\ h \in Int
    BY <1>2, <1>3, <1>4, <2>2
  <2> QED BY <2>1, <2>3 DEF Sequence!Min
<1>6. Sequence!SelectInSeq(s, LAMBDA w : w = v) = h
  BY <1>2, <1>3, <1>5 DEF Sequence!SelectInSeq
<1>7. \E i \in 1 .. Len(s) : s[i] = v
  BY <1>2, <1>3
<1> QED BY <1>3, <1>6, <1>7 DEF Sequence!RemoveFirst

(* ... a sequence without v stays as it is, ... *)
LEMMA RemoveNone ==
  ASSUME NEW V, NEW s \in Seq(V), NEW n \in Nat, n = Len(s), NEW v, \A i \in 1 .. n : s[i] # v
  PROVE  Sequence!RemoveFirst(s, v) = s /\ Sequence!Reverse(Sequence!RemoveFirst(Sequence!Reverse(s), v)) = s
<1>1. Sequence!RemoveFirst(s, v) = s
  BY DEF Sequence!RemoveFirst
<1>2. PICK r : r = Sequence!Reverse(s)
  OBVIOUS
<1>3. r \in Seq(V) /\ Len(r) = n /\ \A i \in 1 .. n : r[i] = s[n + 1 - i]
  BY <1>2, ReverseIs
<1>4. ASSUME NEW i \in 1 .. n
      PROVE  r[i] # v
  <2>1. n + 1 - i \in 1 .. n
    OBVIOUS
  <2> QED BY <1>3, <2>1
<1>5. Sequence!RemoveFirst(r, v) = r
  BY <1>3, <1>4 DEF Sequence!RemoveFirst
<1>6. PICK q : q = Sequence!Reverse(r)
  OBVIOUS
<1>7. q \in Seq(V) /\ Len(q) = n /\ \A i \in 1 .. n : q[i] = r[n + 1 - i]
  <2>1. q \in Seq(V) /\ Len(q) = Len(r) /\ \A i \in 1 .. Len(r) : q[i] = r[Len(r) + 1 - i]
    BY <1>3, <1>6, ReverseIs
  <2> QED BY <1>3, <2>1
<1>8. ASSUME NEW i \in 1 .. n
      PROVE  q[i] = s[i]
  <2>1. n + 1 - i \in 1 .. n /\ n + 1 - (n + 1 - i) = i
    OBVIOUS
  <2>2. r[n + 1 - i] = s[n + 1 - (n + 1 - i)]
    BY <1>3, <2>1
  <2> QED BY <1>7, <2>1, <2>2
<1>9. q = s
  BY <1>7, <1>8, SeqEqual
<1> QED BY <1>1, <1>2, <1>5, <1>6, <1>9

(* ... and removing the last v is removing the item at its place. *)
LEMMA RemoveLastIs ==
  ASSUME NEW V, NEW s \in Seq(V), NEW n \in Nat, n = Len(s), NEW v, NEW x, IsLast(s, n, v, x)
  PROVE  Sequence!Reverse(Sequence!RemoveFirst(Sequence!Reverse(s), v)) = Sequence!RemoveAt(s, x + 1)
<1>1. x \in 0 .. n - 1 /\ s[x + 1] = v /\ \A j \in 0 .. n - 1 : s[j + 1] = v => x >= j
  BY DEF IsLast
<1>2. PICK r : r = Sequence!Reverse(s)
  OBVIOUS
<1>3. r \in Seq(V) /\ Len(r) = n /\ \A i \in 1 .. n : r[i] = s[n + 1 - i]
  BY <1>2, ReverseIs
<1>0. x \in 0 .. n - 1
  BY DEF IsLast
<1>4. PICK y \in 0 .. n - 1 : y = n - 1 - x
  <2>1. n - 1 - x \in 0 .. n - 1
    BY <1>0
  <2> QED BY <2>1
<1>5. IsFirst(r, n, v, y)
  <2>1. r[y + 1] = v
    <3>1. y + 1 \in 1 .. n /\ n + 1 - (y + 1) = x + 1
      BY <1>1, <1>4
    <3> QED BY <1>1, <1>3, <3>1
  <2>2. ASSUME NEW j \in 0 .. n - 1, r[j + 1] = v
        PROVE  y <= j
    <3>1. j + 1 \in 1 .. n /\ n + 1 - (j + 1) = (n - 1 - j) + 1 /\ n - 1 - j \in 0 .. n - 1
      OBVIOUS
    <3>2. s[(n - 1 - j) + 1] = v
      BY <1>3, <2>2, <3>1
    <3>3. x >= n - 1 - j
      BY <1>1, <3>1, <3>2
    <3> QED BY <1>1, <1>4, <3>3
  <2> QED BY <2>1, <2>2 DEF IsFirst
<1>6. PICK p : p = Sequence!RemoveAt(r, y + 1)
  OBVIOUS
<1>7. Sequence!RemoveFirst(r, v) = p
  BY <1>3, <1>5, <1>6, RemoveFirstIs
<1>8. p \in Seq(V) /\ Len(p) = n - 1 /\ \A i \in 1 .. n - 1 : p[i] = IF i <= y THEN r[i] ELSE r[i + 1]
  <2>1. IsRemoved(V, p, r, y, n)
    BY <1>3, <1>6, RemoveAtIs
  <2> QED BY <2>1 DEF IsRemoved
<1>9. PICK q : q = Sequence!Reverse(p)
  OBVIOUS
<1>10. q \in Seq(V) /\ Len(q) = n - 1 /\ \A i \in 1 .. n - 1 : q[i] = p[n - i]
  <2>1. q \in Seq(V) /\ Len(q) = Len(p) /\ \A i \in 1 .. Len(p) : q[i] = p[Len(p) + 1 - i]
    BY <1>8, <1>9, ReverseIs
  <2>2. \A i \in 1 .. n - 1 : (n - 1) + 1 - i = n - i
    OBVIOUS
  <2> QED BY <1>8, <2>1, <2>2
<1>11. ASSUME NEW i \in 1 .. n - 1
       PROVE  q[i] = IF i <= x THEN s[i] ELSE s[i + 1]
  <2>1. PICK h \in 1 .. n - 1 : h = n - i
    OBVIOUS
  <2>2. q[i] = IF h <= y THEN r[h] ELSE r[h + 1]
    BY <1>8, <1>10, <2>1
  <2>3. h <= y <=> ~(i <= x)
    BY <1>1, <1>4, <2>1
  <2>4. r[h] = s[i + 1] /\ r[h + 1] = s[i]
    <3>1. h \in 1 .. n /\ h + 1 \in 1 .. n /\ n + 1 - h = i + 1 /\ n + 1 - (h + 1) = i
      BY <2>1
    <3> QED BY <1>3, <3>1
  <2> QED BY <2>2, <2>3, <2>4
<1>12. IsRemoved(V, q, s, x, n)
  BY <1>10, <1>11 DEF IsRemoved
<1>13. IsRemoved(V, Sequence!RemoveAt(s, x + 1), s, x, n)
  BY <1>1, RemoveAtIs
<1> QED BY <1>2, <1>7, <1>9, <1>12, <1>13, RemovedSame

-----------------------------------------------------------------------------
(* The deque: what its functions do to the sequence it holds. *)

(* A deque of capacity c with n items from slot h on. *)
DequeOf(d, h, c, n) == [data |-> d, capacity |-> c, length |-> n, head |-> h]

(* The deques of capacity c: the head of one without slots is 0. *)
DequeRecords(c) == [data : Storages(Anything, c), capacity : {c}, length : 0 .. c, head : Heads(c)]

(* The deques of c slots that hold the sequence s. *)
DequeWith(c, s) == {r \in DequeRecords(c) : DequeItems(r) = s}

(* The items of a deque are those of a circular buffer. *)
LEMMA DequeIsCircle ==
  ASSUME NEW r
  PROVE  DequeItems(r) = Circle(r.data, r.head, r.capacity, r.length)
BY DEF DequeItems, DequeRef, DequeSlot, Circle

(* The fields of a deque. *)
LEMMA DequeFields ==
  ASSUME NEW d, NEW h, NEW c, NEW n, NEW r, r = DequeOf(d, h, c, n)
  PROVE  r.data = d /\ r.capacity = c /\ r.length = n /\ r.head = h
BY DEF DequeOf

(* A record over a circular buffer holds the items of the buffer, ... *)
LEMMA DequeIn ==
  ASSUME NEW c \in Nat, NEW d \in Storages(Anything, c), NEW h \in Heads(c), NEW n \in 0 .. c
  PROVE  DequeOf(d, h, c, n) \in DequeWith(c, Circle(d, h, c, n))
<1>1. DequeOf(d, h, c, n) \in DequeRecords(c)
  BY DEF DequeOf, DequeRecords
<1>2. DequeItems(DequeOf(d, h, c, n)) = Circle(d, h, c, n)
  BY DequeIsCircle DEF DequeOf
<1> QED BY <1>1, <1>2 DEF DequeWith

(* ... and every deque is such a record. *)
LEMMA DequeOut ==
  ASSUME NEW c \in Nat, NEW s, NEW r \in DequeWith(c, s)
  PROVE  \E d \in Storages(Anything, c), h \in Heads(c), n \in 0 .. c :
           r = DequeOf(d, h, c, n) /\ s = Circle(d, h, c, n) /\ s \in Seq(Anything) /\ Len(s) = n
<1>1. r \in DequeRecords(c) /\ s = DequeItems(r)
  BY DEF DequeWith
<1>2. PICK d \in Storages(Anything, c), h \in Heads(c), n \in 0 .. c : r = DequeOf(d, h, c, n)
  BY <1>1 DEF DequeRecords, DequeOf
<1>3. s = Circle(d, h, c, n)
  BY <1>1, <1>2, DequeIsCircle DEF DequeOf
<1>4. s \in Seq(Anything) /\ Len(s) = n
  BY <1>3, CircleSeq
<1> QED BY <1>2, <1>3, <1>4

(* deque_ref finds an item of the sequence. *)
LEMMA DequeRefIs ==
  ASSUME NEW c \in Nat, NEW s, NEW r \in DequeWith(c, s), NEW j \in 0 .. Len(s) - 1
  PROVE  DequeRef(r, j) = s[j + 1] /\ s[j + 1] \in Anything
<1>1. s = DequeItems(r) /\ s \in Seq(Anything) /\ r.length = Len(s) /\ Len(s) \in Nat
  BY DequeOut, DequeFields, LenProperties DEF DequeWith
<1>2. PICK i \in 1 .. r.length : i = j + 1 /\ i - 1 = j
  BY <1>1
<1>3. s[i] = DequeRef(r, i - 1)
  BY <1>1 DEF DequeItems
<1>4. i \in 1 .. Len(s)
  BY <1>1, <1>2
<1> QED BY <1>1, <1>2, <1>3, <1>4, ElementOfSeq

(* deque_push_back puts a value in the free slot behind the last item. *)
LEMMA DequePushBackIs ==
  ASSUME NEW c \in Nat, NEW s, NEW r \in DequeWith(c, s), Len(s) < c, NEW v \in Anything
  PROVE  DequePushedBack(r, v) \in DequeWith(c, Append(s, v))
<1>1. PICK d \in Storages(Anything, c), h \in Heads(c), n \in 0 .. c :
        r = DequeOf(d, h, c, n) /\ s = Circle(d, h, c, n) /\ Len(s) = n
  BY DequeOut
<1>2. n < c
  BY <1>1
<1>3. PICK g : g = (h + n) % c
  OBVIOUS
<1>4. g \in Slots(c) /\ Circle(Put(d, g, v), h, c, n + 1) = Append(s, v)
  BY <1>1, <1>2, <1>3, CircleAppended
<1>5. Put(d, g, v) \in Storages(Anything, c) /\ n + 1 \in 0 .. c
  BY <1>2, <1>4 DEF Storages, Put
<1>6. DequePushedBack(r, v) = DequeOf(Put(d, g, v), h, c, n + 1)
  <2>1. r.data = d /\ r.capacity = c /\ r.length = n /\ r.head = h
    BY <1>1, DequeFields
  <2>2. DequePushedBack(r, v) = [r EXCEPT !.data = Put(d, g, v), !.length = n + 1]
    BY <1>3, <2>1 DEF DequePushedBack, DequeSlot, Put
  <2> QED BY <1>1, <2>2 DEF DequeOf
<1> QED BY <1>4, <1>5, <1>6, DequeIn

(* deque_push_front puts a value in the free slot before the first, and    *)
(* moves the head there.                                                   *)
LEMMA DequePushFrontIs ==
  ASSUME NEW c \in Nat, NEW s, NEW r \in DequeWith(c, s), Len(s) < c, NEW v \in Anything
  PROVE  DequePushedFront(r, v) \in DequeWith(c, <<v>> \o s)
<1>1. PICK d \in Storages(Anything, c), h \in Heads(c), n \in 0 .. c :
        r = DequeOf(d, h, c, n) /\ s = Circle(d, h, c, n) /\ Len(s) = n
  BY DequeOut
<1>2. n < c
  BY <1>1
<1>3. PICK g : g = SlotBefore(h, c)
  OBVIOUS
<1>4. g \in Heads(c) /\ Circle(Put(d, g, v), g, c, n + 1) = <<v>> \o s
  BY <1>1, <1>2, <1>3, CirclePrepended
<1>5. Put(d, g, v) \in Storages(Anything, c) /\ n + 1 \in 0 .. c
  <2>1. n + 1 \in 0 .. c
    BY <1>2
  <2>2. g \in Slots(c)
    BY <1>2, <1>4 DEF Heads
  <2>3. Put(d, g, v) \in Storages(Anything, c)
    BY <2>2 DEF Storages, Put
  <2> QED BY <2>1, <2>3
<1>6. DequePushedFront(r, v) = DequeOf(Put(d, g, v), g, c, n + 1)
  <2>1. r.data = d /\ r.capacity = c /\ r.length = n /\ r.head = h
    BY <1>1, DequeFields
  <2>2. Before(r, r.head) = g
    BY <1>3, <2>1 DEF Before, SlotBefore
  <2>3. DequePushedFront(r, v) = [r EXCEPT !.head = g, !.data = Put(r.data, g, v), !.length = r.length + 1]
    BY <2>2 DEF DequePushedFront, Put
  <2>4. DequePushedFront(r, v) = [r EXCEPT !.head = g, !.data = Put(d, g, v), !.length = n + 1]
    BY <2>1, <2>3
  <2> QED BY <1>1, <2>4 DEF DequeOf
<1> QED BY <1>4, <1>5, <1>6, DequeIn

(* deque_set replaces one item alone. *)
LEMMA DequeSetIs ==
  ASSUME NEW c \in Nat, NEW s, NEW r \in DequeWith(c, s), NEW j \in 0 .. Len(s) - 1, NEW v \in Anything,
         NEW q, q = [r EXCEPT !.data = Put(r.data, DequeSlot(r, j), v)]
  PROVE  q \in DequeWith(c, Put(s, j + 1, v))
<1>1. PICK d \in Storages(Anything, c), h \in Heads(c), n \in 0 .. c :
        r = DequeOf(d, h, c, n) /\ s = Circle(d, h, c, n) /\ Len(s) = n
  BY DequeOut
<1>2. r.data = d /\ r.head = h /\ r.capacity = c
  BY <1>1, DequeFields
<1>3. PICK g : g = DequeSlot(r, j)
  OBVIOUS
<1>4. g = (h + j) % c /\ j \in 0 .. n - 1
  BY <1>1, <1>2, <1>3 DEF DequeSlot
<1>5. g \in Slots(c) /\ Circle(Put(d, g, v), h, c, n) = Put(Circle(d, h, c, n), j + 1, v)
  BY <1>4, CircleSet
<1>6. Put(d, g, v) \in Storages(Anything, c)
  BY <1>5 DEF Storages, Put
<1>7. q = DequeOf(Put(d, g, v), h, c, n)
  <2>1. q = [r EXCEPT !.data = Put(d, g, v)]
    BY <1>2, <1>3
  <2> QED BY <1>1, <2>1 DEF DequeOf
<1> QED BY <1>1, <1>5, <1>6, <1>7, DequeIn

(* Shortening a deque keeps its first items; the head of an empty one goes *)
(* back to slot 0.                                                         *)
LEMMA DequeCutIs ==
  ASSUME NEW c \in Nat, NEW s, NEW r \in DequeWith(c, s), NEW m \in 0 .. Len(s)
  PROVE  DequeCut(r, m) \in DequeWith(c, SubSeq(s, 1, m))
<1>1. PICK d \in Storages(Anything, c), h \in Heads(c), n \in 0 .. c :
        r = DequeOf(d, h, c, n) /\ s = Circle(d, h, c, n) /\ Len(s) = n
  BY DequeOut
<1>2. m \in 0 .. n /\ m \in 0 .. c
  BY <1>1
<1>3. PICK g : g = IF m = 0 THEN 0 ELSE h
  OBVIOUS
<1>4. g \in Heads(c)
  BY <1>3 DEF Heads, Slots
<1>5. Circle(d, g, c, m) = SubSeq(s, 1, m)
  <2>1. Circle(d, h, c, m) = SubSeq(s, 1, m)
    BY <1>1, <1>2, CircleFirsts
  <2>2. CASE m = 0
    BY <2>1, <2>2, CircleNone
  <2>3. CASE m # 0
    BY <1>3, <2>1, <2>3
  <2> QED BY <2>2, <2>3
<1>6. DequeCut(r, m) = DequeOf(d, g, c, m)
  <2>1. r.head = h
    BY <1>1, DequeFields
  <2>2. DequeCut(r, m) = [r EXCEPT !.length = m, !.head = g]
    BY <1>3, <2>1 DEF DequeCut
  <2> QED BY <1>1, <2>2 DEF DequeOf
<1> QED BY <1>2, <1>4, <1>5, <1>6, DequeIn

(* Moving the head drops the first items, short of all of them. *)
LEMMA DequeDropIs ==
  ASSUME NEW c \in Nat, NEW s, NEW r \in DequeWith(c, s), NEW m \in 0 .. Len(s) - 1,
         NEW q, q = [r EXCEPT !.head = DequeSlot(r, m), !.length = r.length - m]
  PROVE  q \in DequeWith(c, SubSeq(s, m + 1, Len(s)))
<1>1. PICK d \in Storages(Anything, c), h \in Heads(c), n \in 0 .. c :
        r = DequeOf(d, h, c, n) /\ s = Circle(d, h, c, n) /\ Len(s) = n
  BY DequeOut
<1>2. m \in 0 .. n /\ m \in 0 .. c /\ c > 0 /\ m # n
  BY <1>1
<1>3. PICK g : g = (h + m) % c
  OBVIOUS
<1>4. g \in Heads(c)
  BY <1>2, <1>3, CirclePartHead
<1>5. PICK k \in 0 .. n - m : k = n - m /\ m + k = n /\ k \in 0 .. c
  BY <1>2
<1>6. Circle(d, g, c, k) = SubSeq(s, m + 1, n)
  <2>1. Circle(d, g, c, k) = SubSeq(Circle(d, h, c, n), m + 1, m + k)
    BY <1>2, <1>3, <1>5, CirclePart
  <2> QED BY <1>1, <1>5, <2>1
<1>7. q = DequeOf(d, g, c, k)
  <2>1. r.head = h /\ r.capacity = c /\ r.length = n
    BY <1>1, DequeFields
  <2>2. DequeSlot(r, m) = g
    BY <1>3, <2>1 DEF DequeSlot
  <2>3. q = [r EXCEPT !.head = g, !.length = k]
    BY <1>5, <2>1, <2>2
  <2> QED BY <1>1, <2>3 DEF DequeOf
<1>8. q \in DequeWith(c, Circle(d, g, c, k))
  BY <1>4, <1>5, <1>7, DequeIn
<1> QED BY <1>1, <1>6, <1>8

(* deque_swap puts two items in each other's places. *)
LEMMA DequeSwapIs ==
  ASSUME NEW c \in Nat, NEW s, NEW r \in DequeWith(c, s), NEW i \in 0 .. Len(s) - 1, NEW j \in 0 .. Len(s) - 1
  PROVE  DequeSwapped(r, i, j) \in DequeWith(c, Put(Put(s, i + 1, s[j + 1]), j + 1, s[i + 1]))
<1>1. s \in Seq(Anything) /\ Len(s) \in Nat
  BY DequeOut
<1>2. PICK a \in Anything, b \in Anything : a = s[j + 1] /\ b = s[i + 1] /\ DequeRef(r, j) = a /\ DequeRef(r, i) = b
  BY DequeRefIs
<1>3. PICK q : q = [r EXCEPT !.data = Put(r.data, DequeSlot(r, i), a)]
  OBVIOUS
<1>4. PICK t : t = Put(s, i + 1, a)
  OBVIOUS
<1>5. q \in DequeWith(c, t)
  BY <1>2, <1>3, <1>4, DequeSetIs
<1>6. Len(t) = Len(s)
  <2>1. PICK h \in 1 .. Len(s) : h = i + 1
    BY <1>1
  <2>2. IsPut(Anything, t, s, h, a, Len(s))
    BY <1>1, <1>2, <1>4, <2>1, PutIs
  <2> QED BY <2>2 DEF IsPut
<1>7. PICK d, h, n : r = DequeOf(d, h, c, n)
  BY DequeOut
<1>8. r.data = d /\ r.head = h /\ r.capacity = c
  BY <1>7, DequeFields
<1>9. q = DequeOf(Put(d, DequeSlot(r, i), a), h, c, n)
  BY <1>3, <1>7, <1>8 DEF DequeOf
<1>10. q.data = Put(d, DequeSlot(r, i), a) /\ q.head = h /\ q.capacity = c
  BY <1>9, DequeFields
<1>11. DequeSlot(q, j) = DequeSlot(r, j)
  BY <1>8, <1>10 DEF DequeSlot
<1>12. PICK u : u = [q EXCEPT !.data = Put(q.data, DequeSlot(q, j), b)]
  OBVIOUS
<1>13. u \in DequeWith(c, Put(t, j + 1, b))
  BY <1>2, <1>5, <1>6, <1>12, DequeSetIs
<1>14. u = DequeOf(Put(Put(d, DequeSlot(r, i), a), DequeSlot(r, j), b), h, c, n)
  BY <1>9, <1>10, <1>11, <1>12 DEF DequeOf
<1>15. DequeSwapped(r, i, j) = DequeOf(Put(Put(d, DequeSlot(r, i), a), DequeSlot(r, j), b), h, c, n)
  <2>1. DequeSwapped(r, i, j) = [r EXCEPT !.data[DequeSlot(r, i)] = a, !.data[DequeSlot(r, j)] = b]
    BY <1>2 DEF DequeSwapped
  <2> QED BY <1>7, <1>8, <2>1 DEF DequeOf, Put
<1> QED BY <1>2, <1>4, <1>13, <1>14, <1>15

(* A round of deque_remove_at copies one item over another. *)
LEMMA DequeMoveIs ==
  ASSUME NEW c \in Nat, NEW s, NEW r \in DequeWith(c, s), NEW i \in 0 .. Len(s) - 1, NEW j \in 0 .. Len(s) - 1
  PROVE  DequeMoved(r, i, j) \in DequeWith(c, Put(s, j + 1, s[i + 1]))
<1>1. PICK a \in Anything : a = s[i + 1] /\ DequeRef(r, i) = a
  BY DequeRefIs
<1>2. DequeMoved(r, i, j) = [r EXCEPT !.data = Put(r.data, DequeSlot(r, j), a)]
  BY <1>1 DEF DequeMoved, Put
<1>3. DequeMoved(r, i, j) \in DequeWith(c, Put(s, j + 1, a))
  BY <1>2, DequeSetIs
<1> QED BY <1>1, <1>3

(* A round of deque_rotate_left moves the first item behind the last, also *)
(* where both are the only one.                                            *)
LEMMA DequeTurnLeftIs ==
  ASSUME NEW c \in Nat, NEW s, NEW r \in DequeWith(c, s), Len(s) > 0
  PROVE  DequeTurnedLeft(r) \in DequeWith(c, Sequence!Turned(s, 1))
<1>1. PICK d \in Storages(Anything, c), h \in Heads(c), n \in 0 .. c :
        r = DequeOf(d, h, c, n) /\ s = Circle(d, h, c, n) /\ s \in Seq(Anything) /\ Len(s) = n
  BY DequeOut
<1>2. r.data = d /\ r.capacity = c /\ r.length = n /\ r.head = h
  BY <1>1, DequeFields
<1>3. PICK m \in 0 .. n : m = 1 /\ m \in 0 .. c /\ c > 0
  BY <1>1
<1>4. PICK k \in 0 .. n - m : k = n - 1 /\ k \in 0 .. c /\ k < c /\ k + 1 = n /\ m + k = n
  BY <1>1, <1>3
<1>5. PICK g : g = (h + m) % c
  OBVIOUS
<1>6. g \in Heads(c)
  BY <1>3, <1>5, CirclePartHead
<1>7. Circle(d, g, c, k) = SubSeq(s, 2, n)
  <2>1. Circle(d, g, c, k) = SubSeq(Circle(d, h, c, n), m + 1, m + k)
    <3>1. c > 0 /\ m \in 0 .. n /\ k \in 0 .. n - m
      BY <1>3, <1>4
    <3> QED BY <1>5, <3>1, CirclePart, ZenonT(60)
  <2>2. m + 1 = 2 /\ m + k = n
    BY <1>3, <1>4
  <2>3. s = Circle(d, h, c, n)
    BY <1>1
  <2> QED BY <2>1, <2>2, <2>3
<1>8. PICK v \in Anything : v = s[1] /\ v = d[h]
  <2>1. PICK zero \in 0 .. Len(s) - 1 : zero = 0 /\ zero + 1 = 1
    BY <1>1
  <2>2. DequeRef(r, zero) = s[1] /\ s[1] \in Anything
    BY <2>1, DequeRefIs
  <2>3. DequeSlot(r, zero) = h
    <3>1. zero \in 0 .. c /\ h \in 0 .. c - 1
      BY <1>3, <2>1 DEF Heads, Slots
    <3>2. (h + zero) % c = Place(h, zero, c)
      BY <3>1, Wrap
    <3>3. Place(h, zero, c) = h
      BY <2>1, <3>1 DEF Place
    <3> QED BY <1>2, <3>2, <3>3 DEF DequeSlot
  <2> QED BY <1>2, <2>2, <2>3 DEF DequeRef
<1>9. PICK f : f = (g + k) % c
  OBVIOUS
<1>10. f \in Slots(c) /\ Circle(Put(d, f, v), g, c, k + 1) = Append(Circle(d, g, c, k), v)
  BY <1>4, <1>6, <1>9, CircleAppended
<1>11. PICK e \in Storages(Anything, c) : e = Put(d, f, v)
  <2>1. Put(d, f, v) \in Storages(Anything, c)
    BY <1>10 DEF Storages, Put
  <2> QED BY <2>1
<1>12. DequeTurnedLeft(r) = DequeOf(e, g, c, n)
  <2>1. DequeSlot(r, 1) = g
    BY <1>2, <1>3, <1>5 DEF DequeSlot
  <2>2. PICK q : q = [r EXCEPT !.head = g]
    OBVIOUS
  <2>3. q = DequeOf(d, g, c, n)
    BY <1>1, <2>2 DEF DequeOf
  <2>4. q.data = d /\ q.head = g /\ q.capacity = c
    BY <2>3, DequeFields
  <2>5. DequeSlot(q, n - 1) = f
    BY <1>4, <1>9, <2>4 DEF DequeSlot
  <2>6. DequeTurnedLeft(r) = [q EXCEPT !.data = Put(q.data, DequeSlot(q, r.length - 1), r.data[r.head])]
    BY <2>1, <2>2 DEF DequeTurnedLeft, Put
  <2>7. DequeTurnedLeft(r) = [q EXCEPT !.data = e]
    BY <1>2, <1>8, <1>11, <2>4, <2>5, <2>6
  <2> QED BY <2>3, <2>7 DEF DequeOf
<1>13. Circle(e, g, c, n) = Sequence!Turned(s, 1)
  <2>1. Append(SubSeq(s, 2, Len(s)), s[1]) = Sequence!Turned(s, 1)
    BY <1>1, TurnedLeftOnce
  <2> QED BY <1>1, <1>4, <1>7, <1>8, <1>10, <1>11, <2>1
<1>14. DequeOf(e, g, c, n) \in DequeWith(c, Circle(e, g, c, n))
  BY <1>6, DequeIn
<1> QED BY <1>12, <1>13, <1>14

(* A round of deque_rotate_right moves the last item before the first. *)
LEMMA DequeTurnRightIs ==
  ASSUME NEW c \in Nat, NEW s, NEW r \in DequeWith(c, s), Len(s) > 0
  PROVE  DequeTurnedRight(r) \in DequeWith(c, Sequence!Turned(s, Len(s) - 1))
<1>1. PICK d \in Storages(Anything, c), h \in Heads(c), n \in 0 .. c :
        r = DequeOf(d, h, c, n) /\ s = Circle(d, h, c, n) /\ s \in Seq(Anything) /\ Len(s) = n
  BY DequeOut
<1>2. r.data = d /\ r.capacity = c /\ r.length = n /\ r.head = h
  BY <1>1, DequeFields
<1>3. PICK k \in 0 .. n : k = n - 1 /\ k \in 0 .. c /\ k < c /\ k + 1 = n /\ k \in 0 .. Len(s) - 1
  BY <1>1
<1>4. Circle(d, h, c, k) = SubSeq(s, 1, k)
  BY <1>1, CircleFirsts
<1>5. PICK v \in Anything : v = s[n] /\ v = DequeRef(r, k)
  BY <1>3, DequeRefIs
<1>6. PICK g : g = SlotBefore(h, c)
  OBVIOUS
<1>7. g \in Heads(c) /\ Circle(Put(d, g, v), g, c, k + 1) = <<v>> \o Circle(d, h, c, k)
  BY <1>3, <1>6, CirclePrepended
<1>8. PICK e \in Storages(Anything, c) : e = Put(d, g, v)
  <2>1. g \in Slots(c)
    BY <1>3, <1>7 DEF Heads
  <2>2. Put(d, g, v) \in Storages(Anything, c)
    BY <2>1 DEF Storages, Put
  <2> QED BY <2>2
<1>9. DequeTurnedRight(r) = DequeOf(e, g, c, n)
  <2>1. Before(r, r.head) = g
    BY <1>2, <1>6 DEF Before, SlotBefore
  <2>2. DequeRef(r, r.length - 1) = v
    BY <1>2, <1>3, <1>5
  <2>3. DequeTurnedRight(r) = [r EXCEPT !.head = g, !.data = Put(r.data, g, v)]
    BY <2>1, <2>2 DEF DequeTurnedRight, Put
  <2>4. DequeTurnedRight(r) = [r EXCEPT !.head = g, !.data = e]
    BY <1>2, <1>8, <2>3
  <2> QED BY <1>1, <2>4 DEF DequeOf
<1>10. Circle(e, g, c, n) = Sequence!Turned(s, Len(s) - 1)
  <2>1. <<s[Len(s)]>> \o SubSeq(s, 1, Len(s) - 1) = Sequence!Turned(s, Len(s) - 1)
    BY <1>1, TurnedRightOnce
  <2>2. <<s[n]>> \o SubSeq(s, 1, k) = Sequence!Turned(s, Len(s) - 1)
    BY <1>1, <1>3, <2>1
  <2> QED BY <1>3, <1>4, <1>5, <1>7, <1>8, <2>2
<1>11. DequeOf(e, g, c, n) \in DequeWith(c, Circle(e, g, c, n))
  BY <1>7, DequeIn
<1> QED BY <1>9, <1>10, <1>11

-----------------------------------------------------------------------------
(* The deque: its loops. *)

(* Round i of the loop of each call. *)
DequeRound(o, a, d, i) ==
  CASE o = "appendAll" -> DequePushedBack(d, a[i])
    [] o = "prependAll" -> DequePushedFront(d, a[i])
    [] o = "rotateLeft" -> DequeTurnedLeft(d)
    [] o = "rotateRight" -> DequeTurnedRight(d)
    [] o = "reverse" -> DequeSwapped(d, i - 1, d.length - i)
    [] o = "moveUp" -> DequeMoved(d, a - i, a - i + 1)
    [] o = "moveDown" -> DequeMoved(d, a + i, a + i - 1)

(* The loop as a recursive function of the number of rounds that are done. *)
DequeLoop(o, a, d, n, f) == f = [i \in 0 .. n |-> IF i = 0 THEN d ELSE DequeRound(o, a, f[i - 1], i)]
(* The deque after the loop of the call, n rounds long. *)
DequeAfter(o, a, d, n) == (CHOOSE f : DequeLoop(o, a, d, n, f))[n]

(* Each round leads from a deque of D[k - 1] to one of D[k]. *)
DequeRounds(o, a, n, D) == \A k \in 1 .. n : \A d \in D[k - 1] : DequeRound(o, a, d, k) \in D[k]

(* A loop whose rounds lead along D ends in D[n]. *)
LEMMA DequeLoopLands ==
  ASSUME NEW n \in Nat, NEW D, NEW r \in D[0], NEW o, NEW a, DequeRounds(o, a, n, D)
  PROVE  DequeAfter(o, a, r, n) \in D[n]
<1>3. ASSUME NEW k \in 1 .. n, NEW d \in D[k - 1]
      PROVE  DequeRound(o, a, d, k) \in D[k]
  BY DEF DequeRounds
<1> DEFINE Step == [p \in (UNION {D[k] : k \in 0 .. n}) \X (1 .. n) |-> DequeRound(o, a, p[1], p[2])]
<1>4. \A k \in 1 .. n : \A q \in D[k - 1] : Step[<<q, k>>] = DequeRound(o, a, q, k)
  <2> SUFFICES ASSUME NEW k \in 1 .. n, NEW q \in D[k - 1] PROVE Step[<<q, k>>] = DequeRound(o, a, q, k)
    OBVIOUS
  <2>1. k - 1 \in 0 .. n
    OBVIOUS
  <2>2. <<q, k>> \in (UNION {D[j] : j \in 0 .. n}) \X (1 .. n)
    BY <2>1
  <2> QED BY <2>2
<1> HIDE DEF Step
<1>5. PICK f : Runs(D, r, Step, n, f)
  <2>1. Leads(D, Step, n)
    BY <1>3, <1>4 DEF Leads
  <2> QED BY <2>1, LoopRuns
<1>6. DequeLoop(o, a, r, n, f)
  <2>1. f = [k \in 0 .. n |-> f[k]] /\ f[0] = r
    BY <1>5 DEF Runs
  <2>2. ASSUME NEW k \in 1 .. n
        PROVE  f[k] = DequeRound(o, a, f[k - 1], k)
    BY <1>4, <1>5 DEF Runs
  <2>3. \A k \in 0 .. n : f[k] = IF k = 0 THEN r ELSE DequeRound(o, a, f[k - 1], k)
    <3>1. \A k \in 0 .. n : k = 0 \/ k \in 1 .. n
      OBVIOUS
    <3> QED BY <2>1, <2>2, <3>1
  <2> QED BY <2>1, <2>3 DEF DequeLoop
<1>7. PICK g : g = CHOOSE h : DequeLoop(o, a, r, n, h)
  OBVIOUS
<1>8. DequeLoop(o, a, r, n, g)
  BY <1>6, <1>7
<1>9. DequeAfter(o, a, r, n) = g[n]
  BY <1>7 DEF DequeAfter
<1>10. g[0] = r /\ \A k \in 1 .. n : g[k] = DequeRound(o, a, g[k - 1], k)
  BY <1>8 DEF DequeLoop
<1>11. \A k \in 0 .. n : g[k] \in D[k]
  <2> DEFINE S == {k \in 0 .. n : g[k] \in D[k]}
  <2>1. 0 \in S
    BY <1>10
  <2>2. \A k \in 1 .. n : k - 1 \in S => k \in S
    <3> SUFFICES ASSUME NEW k \in 1 .. n, k - 1 \in S PROVE k \in S
      OBVIOUS
    <3>1. PICK q \in D[k - 1] : q = g[k - 1]
      OBVIOUS
    <3>2. g[k] = DequeRound(o, a, q, k)
      BY <1>10, <3>1
    <3>3. k \in 0 .. n
      OBVIOUS
    <3> QED BY <1>3, <3>2, <3>3
  <2> HIDE DEF S
  <2>4. \A k \in 0 .. n : k \in S
    BY <2>1, <2>2, UpTo
  <2> QED BY <2>4 DEF S
<1>12. n \in 0 .. n
  OBVIOUS
<1> QED BY <1>9, <1>11, <1>12

(* The loops of the module are these. *)
LEMMA DequeLoopIs ==
  ASSUME NEW r, NEW a, NEW n
  PROVE  /\ DequePushedBackAll(r, a, n) = DequeAfter("appendAll", a, r, n)
         /\ DequePushedFrontAll(r, a, n) = DequeAfter("prependAll", a, r, n)
         /\ Iterate(DequeTurnedLeft, r, n) = DequeAfter("rotateLeft", a, r, n)
         /\ Iterate(DequeTurnedRight, r, n) = DequeAfter("rotateRight", a, r, n)
         /\ DequeEndsSwapped(r, n) = DequeAfter("reverse", a, r, n)
         /\ DequeMovedUp(r, a, n) = DequeAfter("moveUp", a, r, n)
         /\ DequeMovedDown(r, a, n) = DequeAfter("moveDown", a, r, n)
<1>1. DequePushedBackAll(r, a, n) = DequeAfter("appendAll", a, r, n)
  BY DEF DequePushedBackAll, Loop, DequeAfter, DequeLoop, DequeRound
<1>2. DequePushedFrontAll(r, a, n) = DequeAfter("prependAll", a, r, n)
  BY DEF DequePushedFrontAll, Loop, DequeAfter, DequeLoop, DequeRound
<1>3. Iterate(DequeTurnedLeft, r, n) = DequeAfter("rotateLeft", a, r, n)
  BY DEF Iterate, DequeAfter, DequeLoop, DequeRound
<1>4. Iterate(DequeTurnedRight, r, n) = DequeAfter("rotateRight", a, r, n)
  BY DEF Iterate, DequeAfter, DequeLoop, DequeRound
<1>5. DequeEndsSwapped(r, n) = DequeAfter("reverse", a, r, n)
  BY DEF DequeEndsSwapped, Loop, DequeAfter, DequeLoop, DequeRound
<1>6. DequeMovedUp(r, a, n) = DequeAfter("moveUp", a, r, n)
  BY DEF DequeMovedUp, Loop, DequeAfter, DequeLoop, DequeRound
<1>7. DequeMovedDown(r, a, n) = DequeAfter("moveDown", a, r, n)
  BY DEF DequeMovedDown, Loop, DequeAfter, DequeLoop, DequeRound
<1> QED BY <1>1, <1>2, <1>3, <1>4, <1>5, <1>6, <1>7

(* The loop of deque_push_back_many appends the values. *)
LEMMA DequePushManyIs ==
  ASSUME NEW c \in Nat, NEW s, NEW r \in DequeWith(c, s), NEW vs \in Seq(Anything),
         NEW n \in 0 .. Len(vs), Len(s) + n <= c
  PROVE  DequePushedBackAll(r, vs, n) \in DequeWith(c, s \o SubSeq(vs, 1, n))
<1>1. s \in Seq(Anything) /\ Len(s) \in Nat /\ Len(vs) \in Nat /\ n \in Nat
  <2>1. s \in Seq(Anything)
    BY DequeOut
  <2> QED BY <2>1, LenProperties
<1>2. PICK D : D = [k \in 0 .. n |-> DequeWith(c, s \o SubSeq(vs, 1, k))]
  OBVIOUS
<1>3. ASSUME NEW k \in 1 .. n, NEW d \in D[k - 1]
      PROVE  DequeRound("appendAll", vs, d, k) \in D[k]
  <2>1. k \in 1 .. Len(vs)
    BY <1>1
  <2>2. PICK t : t = s \o SubSeq(vs, 1, k - 1)
    OBVIOUS
  <2>3. Len(t) = Len(s) + (k - 1) /\ Append(t, vs[k]) = s \o SubSeq(vs, 1, k)
    BY <1>1, <2>1, <2>2, OneMore
  <2>4. d \in DequeWith(c, t) /\ D[k] = DequeWith(c, s \o SubSeq(vs, 1, k))
    BY <1>2, <2>2
  <2>5. PICK v \in Anything : v = vs[k]
    BY <2>1, ElementOfSeq
  <2>6. Len(t) < c
    BY <1>1, <2>3
  <2>7. DequePushedBack(d, v) \in DequeWith(c, Append(t, v))
    BY <2>4, <2>6, DequePushBackIs
  <2>8. DequeRound("appendAll", vs, d, k) = DequePushedBack(d, v)
    BY <2>5 DEF DequeRound
  <2> QED BY <2>3, <2>4, <2>5, <2>7, <2>8
<1>4. r \in D[0] /\ D[n] = DequeWith(c, s \o SubSeq(vs, 1, n))
  <2>1. D[0] = DequeWith(c, s \o SubSeq(vs, 1, 0)) /\ D[n] = DequeWith(c, s \o SubSeq(vs, 1, n))
    BY <1>1, <1>2
  <2>2. s \o SubSeq(vs, 1, 0) = s
    BY <1>1, NoMore
  <2> QED BY <2>1, <2>2
<1>5. DequeRounds("appendAll", vs, n, D)
  BY <1>3 DEF DequeRounds
<1> QED BY <1>1, <1>4, <1>5, DequeLoopLands, DequeLoopIs

(* The loop of deque_push_front_many prepends the values, the last of them *)
(* first.                                                                  *)
LEMMA DequePushManyFrontIs ==
  ASSUME NEW c \in Nat, NEW s, NEW r \in DequeWith(c, s), NEW vs \in Seq(Anything),
         NEW n \in 0 .. Len(vs), Len(s) + n <= c
  PROVE  DequePushedFrontAll(r, vs, n) \in DequeWith(c, Prepended(vs, n, s))
<1>1. s \in Seq(Anything) /\ Len(s) \in Nat /\ Len(vs) \in Nat /\ n \in Nat
  <2>1. s \in Seq(Anything)
    BY DequeOut
  <2> QED BY <2>1, LenProperties
<1>2. PICK D : D = [k \in 0 .. n |-> DequeWith(c, Prepended(vs, k, s))]
  OBVIOUS
<1>3. ASSUME NEW k \in 1 .. n, NEW d \in D[k - 1]
      PROVE  DequeRound("prependAll", vs, d, k) \in D[k]
  <2>1. PICK l \in 0 .. Len(vs) : l = k - 1 /\ k \in 1 .. Len(vs)
    BY <1>1
  <2>2. PICK t : t = Prepended(vs, l, s)
    OBVIOUS
  <2>3. Len(t) = l + Len(s)
    <3>1. IsPrepended(Anything, t, vs, l, s)
      BY <1>1, <2>2, PrependedIs
    <3> QED BY <3>1 DEF IsPrepended
  <2>4. d \in DequeWith(c, t) /\ D[k] = DequeWith(c, Prepended(vs, k, s))
    BY <1>2, <2>1, <2>2
  <2>5. PICK v \in Anything : v = vs[k]
    BY <2>1, ElementOfSeq
  <2>6. Len(t) < c
    BY <1>1, <2>1, <2>3
  <2>7. DequePushedFront(d, v) \in DequeWith(c, <<v>> \o t)
    BY <2>4, <2>6, DequePushFrontIs
  <2>8. DequeRound("prependAll", vs, d, k) = DequePushedFront(d, v)
    BY <2>5 DEF DequeRound
  <2>9. <<v>> \o t = Prepended(vs, k, s)
    BY <1>1, <2>1, <2>2, <2>5, OneMoreBefore
  <2> QED BY <2>4, <2>7, <2>8, <2>9
<1>4. r \in D[0] /\ D[n] = DequeWith(c, Prepended(vs, n, s))
  <2>1. PICK zero \in 0 .. Len(vs) : zero = 0 /\ zero \in 0 .. n
    BY <1>1
  <2>2. D[zero] = DequeWith(c, Prepended(vs, zero, s)) /\ D[n] = DequeWith(c, Prepended(vs, n, s))
    BY <1>1, <1>2, <2>1
  <2>3. PICK t : t = Prepended(vs, zero, s)
    OBVIOUS
  <2>4. t \in Seq(Anything) /\ Len(t) = zero + Len(s) /\ \A i \in zero + 1 .. zero + Len(s) : t[i] = s[i - zero]
    <3>1. IsPrepended(Anything, t, vs, zero, s)
      BY <1>1, <2>3, PrependedIs
    <3> QED BY <3>1 DEF IsPrepended
  <2>5. PICK m \in Nat : m = Len(s)
    BY <1>1
  <2>6. Len(t) = m /\ \A i \in 1 .. m : t[i] = s[i]
    BY <2>1, <2>4, <2>5
  <2>7. t = s
    BY <1>1, <2>4, <2>5, <2>6, SeqEqual
  <2> QED BY <2>1, <2>2, <2>3, <2>7
<1>5. DequeRounds("prependAll", vs, n, D)
  BY <1>3 DEF DequeRounds
<1> QED BY <1>1, <1>4, <1>5, DequeLoopLands, DequeLoopIs

(* A sequence turned by nothing. *)
LEMMA TurnedByNone ==
  ASSUME NEW V, NEW s \in Seq(V), Len(s) > 0
  PROVE  Sequence!Turned(s, 0) = s
<1>1. PICK n \in Nat : n = Len(s) /\ n > 0
  BY LenProperties
<1>2. PICK zero \in Nat : zero = 0
  OBVIOUS
<1>3. PICK t : t = Sequence!Turned(s, zero)
  OBVIOUS
<1>4. t \in Seq(V) /\ Len(t) = n /\ \A i \in 1 .. n : t[i] = s[((i - 1 + zero) % n) + 1]
  <2>1. IsTurned(V, t, s, zero, n)
    BY <1>1, <1>3, TurnedIs
  <2> QED BY <2>1 DEF IsTurned
<1>5. ASSUME NEW i \in 1 .. n
      PROVE  t[i] = s[i]
  <2>1. PICK x \in Nat : x = i - 1 + zero /\ x < n /\ x + 1 = i
    BY <1>2
  <2>2. x % n = x
    <3>1. x < 2 * n /\ x < n
      BY <1>1, <2>1
    <3>2. x % n = IF x < n THEN x ELSE x - n
      BY <3>1, WrapOf
    <3> QED BY <3>1, <3>2
  <2>3. t[i] = s[((i - 1 + zero) % n) + 1]
    BY <1>4
  <2>4. (i - 1 + zero) % n = x
    BY <2>1, <2>2
  <2>5. t[i] = s[x + 1]
    BY <2>3, <2>4
  <2> QED BY <2>1, <2>5
<1>6. Len(t) = n /\ Len(s) = n /\ \A i \in 1 .. n : t[i] = s[i]
  BY <1>1, <1>4, <1>5
<1>7. t = s
  BY <1>4, <1>6, SeqEqual
<1> QED BY <1>2, <1>3, <1>7

(* The loop of deque_rotate_left turns the sequence by its rounds. *)
LEMMA DequeTurnLeftManyIs ==
  ASSUME NEW c \in Nat, NEW s, NEW r \in DequeWith(c, s), Len(s) > 0, NEW n \in Nat
  PROVE  Iterate(DequeTurnedLeft, r, n) \in DequeWith(c, Sequence!Turned(s, n))
<1>1. s \in Seq(Anything) /\ Len(s) \in Nat
  <2>1. s \in Seq(Anything)
    BY DequeOut
  <2> QED BY <2>1, LenProperties
<1>2. PICK D : D = [k \in 0 .. n |-> DequeWith(c, Sequence!Turned(s, k))]
  OBVIOUS
<1>3. ASSUME NEW k \in 1 .. n, NEW d \in D[k - 1]
      PROVE  DequeRound("rotateLeft", 0, d, k) \in D[k]
  <2>1. PICK l \in Nat : l = k - 1 /\ l \in 0 .. n /\ l + 1 = k
    OBVIOUS
  <2>2. PICK t : t = Sequence!Turned(s, l)
    OBVIOUS
  <2>3. Len(t) > 0
    <3>1. IsTurned(Anything, t, s, l, Len(s))
      BY <1>1, <2>1, <2>2, TurnedIs
    <3> QED BY <3>1 DEF IsTurned
  <2>4. d \in DequeWith(c, t) /\ D[k] = DequeWith(c, Sequence!Turned(s, k))
    BY <1>2, <2>1, <2>2
  <2>5. DequeTurnedLeft(d) \in DequeWith(c, Sequence!Turned(t, 1))
    BY <2>3, <2>4, DequeTurnLeftIs
  <2>6. Sequence!Turned(t, 1) = Sequence!Turned(s, k)
    <3>1. PICK one \in Nat : one = 1
      OBVIOUS
    <3>2. Sequence!Turned(t, one) = Sequence!Turned(s, l + one)
      BY <1>1, <2>1, <2>2, TurnedTwice
    <3> QED BY <2>1, <3>1, <3>2
  <2>7. DequeRound("rotateLeft", 0, d, k) = DequeTurnedLeft(d)
    BY DEF DequeRound
  <2> QED BY <2>4, <2>5, <2>6, <2>7
<1>4. r \in D[0] /\ D[n] = DequeWith(c, Sequence!Turned(s, n))
  <2>1. D[0] = DequeWith(c, Sequence!Turned(s, 0)) /\ D[n] = DequeWith(c, Sequence!Turned(s, n))
    BY <1>2
  <2> QED BY <1>1, <2>1, TurnedByNone
<1>5. DequeRounds("rotateLeft", 0, n, D)
  BY <1>3 DEF DequeRounds
<1> QED BY <1>4, <1>5, DequeLoopLands, DequeLoopIs

(* The loop of deque_rotate_right turns it by all items but one, round     *)
(* after round.                                                            *)
LEMMA DequeTurnRightManyIs ==
  ASSUME NEW c \in Nat, NEW s, NEW r \in DequeWith(c, s), Len(s) > 0, NEW n \in Nat
  PROVE  Iterate(DequeTurnedRight, r, n) \in DequeWith(c, Sequence!Turned(s, n * (Len(s) - 1)))
<1>1. s \in Seq(Anything) /\ Len(s) \in Nat
  <2>1. s \in Seq(Anything)
    BY DequeOut
  <2> QED BY <2>1, LenProperties
<1>2. PICK b \in Nat : b = Len(s) - 1
  BY <1>1
<1>3. PICK D : D = [k \in 0 .. n |-> DequeWith(c, Sequence!Turned(s, k * b))]
  OBVIOUS
<1>4. ASSUME NEW k \in 1 .. n, NEW d \in D[k - 1]
      PROVE  DequeRound("rotateRight", 0, d, k) \in D[k]
  <2>1. PICK l \in Nat : l = k - 1 /\ l \in 0 .. n
    OBVIOUS
  <2>0. PICK a \in Nat : a = l * b
    <3>1. l * b \in Nat
      OBVIOUS
    <3> QED BY <3>1
  <2>2. PICK t : t = Sequence!Turned(s, a)
    OBVIOUS
  <2>3. Len(t) = Len(s)
    <3>1. IsTurned(Anything, t, s, a, Len(s))
      BY <1>1, <2>2, TurnedIs
    <3> QED BY <3>1 DEF IsTurned
  <2>4. d \in DequeWith(c, t) /\ D[k] = DequeWith(c, Sequence!Turned(s, k * b))
    <3>1. D[l] = DequeWith(c, Sequence!Turned(s, l * b))
      BY <1>3, <2>1
    <3>2. D[k] = DequeWith(c, Sequence!Turned(s, k * b))
      BY <1>3
    <3> QED BY <2>0, <2>1, <2>2, <3>1, <3>2
  <2>5. DequeTurnedRight(d) \in DequeWith(c, Sequence!Turned(t, b))
    <3>1. DequeTurnedRight(d) \in DequeWith(c, Sequence!Turned(t, Len(t) - 1))
      BY <2>3, <2>4, DequeTurnRightIs
    <3> QED BY <1>2, <2>3, <3>1
  <2>6. Sequence!Turned(t, b) = Sequence!Turned(s, k * b)
    <3>1. Sequence!Turned(t, b) = Sequence!Turned(s, a + b)
      BY <1>1, <2>2, TurnedTwice
    <3>2. a + b = k * b
      <4>1. k = l + 1
        BY <2>1
      <4>2. (l + 1) * b = l * b + b
        OBVIOUS
      <4> QED BY <2>0, <4>1, <4>2
    <3> QED BY <3>1, <3>2
  <2>7. DequeRound("rotateRight", 0, d, k) = DequeTurnedRight(d)
    BY DEF DequeRound
  <2> QED BY <2>4, <2>5, <2>6, <2>7
<1>5. r \in D[0] /\ D[n] = DequeWith(c, Sequence!Turned(s, n * (Len(s) - 1)))
  <2>1. D[0] = DequeWith(c, Sequence!Turned(s, 0 * b)) /\ D[n] = DequeWith(c, Sequence!Turned(s, n * b))
    BY <1>3
  <2>2. 0 * b = 0
    OBVIOUS
  <2> QED BY <1>1, <1>2, <2>1, <2>2, TurnedByNone
<1>6. DequeRounds("rotateRight", 0, n, D)
  BY <1>4 DEF DequeRounds
<1> QED BY <1>5, <1>6, DequeLoopLands, DequeLoopIs

(* A record holds the sequence that is read from it. *)
LEMMA DequeHolds ==
  ASSUME NEW c \in Nat, NEW d \in DequeRecords(c), NEW t, t = DequeItems(d), NEW n, Len(t) = n
  PROVE  d \in DequeWith(c, t) /\ d.length = n /\ t \in Seq(Anything) /\ n \in Nat
<1>1. d \in DequeWith(c, t)
  BY DEF DequeWith
<1>2. t \in Seq(Anything) /\ d.length = Len(t)
  BY <1>1, DequeOut, DequeFields
<1> QED BY <1>1, <1>2, LenProperties

(* The deques after k rounds of deque_reverse on one that held s. *)
DequeReversing(c, s, k, n) == {d \in DequeRecords(c) : IsHalfReversed(Anything, DequeItems(d), s, k, n)}

(* The loop of deque_reverse reverses the sequence. *)
LEMMA DequeReverseIs ==
  ASSUME NEW c \in Nat, NEW s, NEW r \in DequeWith(c, s), NEW n, n = Len(s), NEW m, m = n \div 2
  PROVE  DequeEndsSwapped(r, m) \in DequeWith(c, Sequence!Reverse(s))
<1>1. s \in Seq(Anything) /\ n \in Nat
  <2>1. s \in Seq(Anything)
    BY DequeOut
  <2> QED BY <2>1, LenProperties
<1>2. m \in Nat /\ 2 * m <= n
  BY <1>1
<1>3. PICK D : D = [k \in 0 .. m |-> DequeReversing(c, s, k, n)]
  OBVIOUS
<1>4. ASSUME NEW k \in 1 .. m, NEW d \in D[k - 1]
      PROVE  DequeRound("reverse", 0, d, k) \in D[k]
  <2>1. PICK l \in 0 .. m : l = k - 1
    BY <1>2
  <2>2. PICK t : t = DequeItems(d)
    OBVIOUS
  <2>3. d \in DequeRecords(c) /\ IsHalfReversed(Anything, t, s, l, n)
    BY <1>3, <2>1, <2>2 DEF DequeReversing
  <2>4. Len(t) = n
    BY <2>3 DEF IsHalfReversed
  <2>5. d \in DequeWith(c, t) /\ d.length = n
    BY <2>2, <2>3, <2>4, DequeHolds
  <2>0. k \in 1 .. n /\ n + 1 - k \in Nat
    <3>1. k <= m /\ m \in Nat /\ n \in Nat /\ 2 * m <= n
      BY <1>1, <1>2
    <3>2. k <= n
      BY <3>1
    <3> QED BY <1>1, <3>2
  <2>6. PICK j \in Nat : j = n + 1 - k
    BY <2>0
  <2>7. PICK x \in 0 .. Len(t) - 1, y \in 0 .. Len(t) - 1 : x = k - 1 /\ y = n - k /\ x + 1 = k /\ y + 1 = j
    <3>1. k - 1 \in 0 .. Len(t) - 1 /\ n - k \in 0 .. Len(t) - 1 /\ k - 1 + 1 = k /\ n - k + 1 = j
      BY <1>1, <2>0, <2>4, <2>6
    <3> QED BY <3>1
  <2>8. PICK u : u = Put(Put(t, k, t[j]), j, t[k])
    OBVIOUS
  <2>9. DequeSwapped(d, x, y) \in DequeWith(c, u)
    BY <2>5, <2>7, <2>8, DequeSwapIs
  <2>10. IsHalfReversed(Anything, u, s, k, n)
    <3>1. k \in Nat /\ k > 0 /\ 2 * k <= n
      BY <1>2
    <3> QED BY <1>1, <2>1, <2>3, <2>6, <2>8, <3>1, HalfReversedMore
  <2>11. DequeRound("reverse", 0, d, k) = DequeSwapped(d, x, y)
    BY <2>5, <2>7 DEF DequeRound
  <2>12. DequeSwapped(d, x, y) \in DequeReversing(c, s, k, n)
    BY <2>9, <2>10 DEF DequeWith, DequeReversing
  <2>13. D[k] = DequeReversing(c, s, k, n)
    BY <1>2, <1>3
  <2> QED BY <2>11, <2>12, <2>13
<1>5. r \in D[0]
  <2>1. D[0] = DequeReversing(c, s, 0, n)
    BY <1>2, <1>3
  <2>2. IsHalfReversed(Anything, s, s, 0, n)
    BY <1>1, HalfReversedNone
  <2> QED BY <2>1, <2>2 DEF DequeWith, DequeReversing
<1>6. DequeRounds("reverse", 0, m, D)
  BY <1>4 DEF DequeRounds
<1>7. DequeEndsSwapped(r, m) \in D[m]
  BY <1>2, <1>5, <1>6, DequeLoopLands, DequeLoopIs
<1>8. PICK q : q = DequeEndsSwapped(r, m)
  OBVIOUS
<1>9. q \in DequeRecords(c) /\ IsHalfReversed(Anything, DequeItems(q), s, m, n)
  <2>1. D[m] = DequeReversing(c, s, m, n)
    BY <1>2, <1>3
  <2> QED BY <1>7, <1>8, <2>1 DEF DequeReversing
<1>10. DequeItems(q) = Sequence!Reverse(s)
  BY <1>1, <1>9, HalfReversedAll
<1> QED BY <1>8, <1>9, <1>10 DEF DequeWith

(* The deques after k rounds of the first loop of deque_remove_at. *)
DequeMovingUp(c, s, x, k, n) == {d \in DequeRecords(c) : IsMovedUp(Anything, DequeItems(d), s, x, k, n)}

(* The first loop of deque_remove_at closes the gap from the front. *)
LEMMA DequeMoveUpIs ==
  ASSUME NEW c \in Nat, NEW s, NEW r \in DequeWith(c, s), NEW n, n = Len(s), NEW x \in 0 .. n - 1
  PROVE  DequeMovedUp(r, x, x) \in DequeMovingUp(c, s, x, x, n)
<1>1. s \in Seq(Anything) /\ n \in Nat
  <2>1. s \in Seq(Anything)
    BY DequeOut
  <2> QED BY <2>1, LenProperties
<1>2. x \in Nat
  BY <1>1
<1>3. PICK D : D = [k \in 0 .. x |-> DequeMovingUp(c, s, x, k, n)]
  OBVIOUS
<1>4. ASSUME NEW k \in 1 .. x, NEW d \in D[k - 1]
      PROVE  DequeRound("moveUp", x, d, k) \in D[k]
  <2>1. PICK l \in 0 .. x : l = k - 1
    BY <1>2
  <2>2. PICK t : t = DequeItems(d)
    OBVIOUS
  <2>3. d \in DequeRecords(c) /\ IsMovedUp(Anything, t, s, x, l, n)
    BY <1>3, <2>1, <2>2 DEF DequeMovingUp
  <2>4. Len(t) = n
    BY <2>3 DEF IsMovedUp
  <2>5. d \in DequeWith(c, t) /\ d.length = n
    BY <2>2, <2>3, <2>4, DequeHolds
  <2>6. PICK j : j = x + 1 - k
    OBVIOUS
  <2>7. PICK f \in 0 .. Len(t) - 1, g \in 0 .. Len(t) - 1 : f = x - k /\ g = x - k + 1 /\ f + 1 = j /\ g + 1 = j + 1
    BY <1>1, <1>2, <2>4, <2>6
  <2>8. PICK u : u = Put(t, j + 1, t[j])
    OBVIOUS
  <2>9. DequeMoved(d, f, g) \in DequeWith(c, u)
    BY <2>5, <2>7, <2>8, DequeMoveIs
  <2>10. IsMovedUp(Anything, u, s, x, k, n)
    BY <1>1, <2>1, <2>3, <2>6, <2>8, MovedUpMore
  <2>11. DequeRound("moveUp", x, d, k) = DequeMoved(d, f, g)
    BY <2>7 DEF DequeRound
  <2>12. DequeMoved(d, f, g) \in DequeMovingUp(c, s, x, k, n)
    BY <2>9, <2>10 DEF DequeWith, DequeMovingUp
  <2>13. D[k] = DequeMovingUp(c, s, x, k, n)
    BY <1>2, <1>3
  <2> QED BY <2>11, <2>12, <2>13
<1>5. r \in D[0]
  <2>1. D[0] = DequeMovingUp(c, s, x, 0, n)
    BY <1>2, <1>3
  <2>2. IsMovedUp(Anything, s, s, x, 0, n)
    BY <1>1, <1>2, MovedUpNone
  <2> QED BY <2>1, <2>2 DEF DequeWith, DequeMovingUp
<1>6. DequeRounds("moveUp", x, x, D)
  BY <1>4 DEF DequeRounds
<1>7. DequeMovedUp(r, x, x) \in D[x]
  BY <1>2, <1>5, <1>6, DequeLoopLands, DequeLoopIs
<1>8. D[x] = DequeMovingUp(c, s, x, x, n)
  BY <1>2, <1>3
<1> QED BY <1>7, <1>8

(* The deques after k rounds of the second loop of deque_remove_at. *)
DequeMovingDown(c, s, x, k, n) == {d \in DequeRecords(c) : IsMovedDown(Anything, DequeItems(d), s, x, k, n)}

(* The second loop of deque_remove_at closes the gap from the back. *)
LEMMA DequeMoveDownIs ==
  ASSUME NEW c \in Nat, NEW s, NEW r \in DequeWith(c, s), NEW n, n = Len(s), NEW x \in 0 .. n - 1,
         NEW m, m = n - 1 - x
  PROVE  DequeMovedDown(r, x, m) \in DequeMovingDown(c, s, x, m, n)
<1>1. s \in Seq(Anything) /\ n \in Nat
  <2>1. s \in Seq(Anything)
    BY DequeOut
  <2> QED BY <2>1, LenProperties
<1>2. x \in Nat /\ m \in Nat
  BY <1>1
<1>3. PICK D : D = [k \in 0 .. m |-> DequeMovingDown(c, s, x, k, n)]
  OBVIOUS
<1>4. ASSUME NEW k \in 1 .. m, NEW d \in D[k - 1]
      PROVE  DequeRound("moveDown", x, d, k) \in D[k]
  <2>1. PICK l \in 0 .. m : l = k - 1
    BY <1>2
  <2>2. PICK t : t = DequeItems(d)
    OBVIOUS
  <2>3. d \in DequeRecords(c) /\ IsMovedDown(Anything, t, s, x, l, n)
    BY <1>3, <2>1, <2>2 DEF DequeMovingDown
  <2>4. Len(t) = n
    BY <2>3 DEF IsMovedDown
  <2>5. d \in DequeWith(c, t) /\ d.length = n
    BY <2>2, <2>3, <2>4, DequeHolds
  <2>6. PICK j : j = x + k
    OBVIOUS
  <2>7. PICK f \in 0 .. Len(t) - 1, g \in 0 .. Len(t) - 1 : f = x + k /\ g = x + k - 1 /\ f + 1 = j + 1 /\ g + 1 = j
    BY <1>1, <1>2, <2>4, <2>6
  <2>8. PICK u : u = Put(t, j, t[j + 1])
    OBVIOUS
  <2>9. DequeMoved(d, f, g) \in DequeWith(c, u)
    BY <2>5, <2>7, <2>8, DequeMoveIs
  <2>10. IsMovedDown(Anything, u, s, x, k, n)
    BY <1>1, <2>1, <2>3, <2>6, <2>8, MovedDownMore
  <2>11. DequeRound("moveDown", x, d, k) = DequeMoved(d, f, g)
    BY <2>7 DEF DequeRound
  <2>12. DequeMoved(d, f, g) \in DequeMovingDown(c, s, x, k, n)
    BY <2>9, <2>10 DEF DequeWith, DequeMovingDown
  <2>13. D[k] = DequeMovingDown(c, s, x, k, n)
    BY <1>2, <1>3
  <2> QED BY <2>11, <2>12, <2>13
<1>5. r \in D[0]
  <2>1. D[0] = DequeMovingDown(c, s, x, 0, n)
    BY <1>2, <1>3
  <2>2. IsMovedDown(Anything, s, s, x, 0, n)
    BY <1>1, <1>2, MovedDownNone
  <2> QED BY <2>1, <2>2 DEF DequeWith, DequeMovingDown
<1>6. DequeRounds("moveDown", x, m, D)
  BY <1>4 DEF DequeRounds
<1>7. DequeMovedDown(r, x, m) \in D[m]
  BY <1>2, <1>5, <1>6, DequeLoopLands, DequeLoopIs
<1>8. D[m] = DequeMovingDown(c, s, x, m, n)
  BY <1>2, <1>3
<1> QED BY <1>7, <1>8

(* deque_remove_at takes out the item at x, whichever side closes the gap. *)
LEMMA DequeRemoveIs ==
  ASSUME NEW c \in Nat, NEW s, NEW r \in DequeWith(c, s), NEW x \in 0 .. Len(s) - 1
  PROVE  DequeRemoved(r, x) \in DequeWith(c, Sequence!RemoveAt(s, x + 1))
<1>1. s \in Seq(Anything) /\ r.length = Len(s)
  BY DequeOut, DequeFields
<1>2. PICK n \in Nat : n = Len(s) /\ n > 0 /\ x \in 0 .. n - 1
  BY <1>1, LenProperties
<1>3. CASE x < r.length \div 2
  <2>1. PICK q : q = DequeMovedUp(r, x, x)
    OBVIOUS
  <2>2. PICK t : t = DequeItems(q)
    OBVIOUS
  <2>3. q \in DequeRecords(c) /\ IsMovedUp(Anything, t, s, x, x, n)
    BY <1>2, <2>1, <2>2, DequeMoveUpIs DEF DequeMovingUp
  <2>4. Len(t) = n
    BY <2>3 DEF IsMovedUp
  <2>5. q \in DequeWith(c, t) /\ q.length = n
    BY <2>2, <2>3, <2>4, DequeHolds
  <2>6. DequeRemoved(r, x) = [q EXCEPT !.head = DequeSlot(q, 1), !.length = q.length - 1]
    BY <1>3, <2>1 DEF DequeRemoved
  <2>7. PICK m \in 0 .. Len(t) - 1 : m = 1
    <3>1. n > 1
      BY <1>1, <1>2, <1>3
    <3> QED BY <2>4, <3>1
  <2>8. DequeRemoved(r, x) \in DequeWith(c, SubSeq(t, m + 1, Len(t)))
    BY <2>5, <2>6, <2>7, DequeDropIs
  <2>9. SubSeq(t, 2, n) = Sequence!RemoveAt(s, x + 1)
    BY <1>1, <1>2, <2>3, MovedUpAll
  <2>10. m + 1 = 2
    BY <2>7
  <2> QED BY <2>4, <2>8, <2>9, <2>10
<1>4. CASE ~(x < r.length \div 2)
  <2>1. PICK k : k = n - 1 - x
    OBVIOUS
  <2>2. PICK q : q = DequeMovedDown(r, x, k)
    OBVIOUS
  <2>3. PICK t : t = DequeItems(q)
    OBVIOUS
  <2>4. q \in DequeRecords(c) /\ IsMovedDown(Anything, t, s, x, k, n)
    BY <1>2, <2>1, <2>2, <2>3, DequeMoveDownIs DEF DequeMovingDown
  <2>5. Len(t) = n
    BY <2>4 DEF IsMovedDown
  <2>6. q \in DequeWith(c, t)
    BY <2>3, <2>4, <2>5, DequeHolds
  <2>7. DequeRemoved(r, x) = DequeCut(q, n - 1)
    BY <1>1, <1>2, <1>4, <2>1, <2>2 DEF DequeRemoved
  <2>8. PICK m \in 0 .. Len(t) : m = n - 1
    BY <1>2, <2>5
  <2>9. DequeCut(q, m) \in DequeWith(c, SubSeq(t, 1, m))
    BY <2>6, DequeCutIs
  <2>10. SubSeq(t, 1, n - 1) = Sequence!RemoveAt(s, x + 1)
    <3>1. s \in Seq(Anything) /\ n \in Nat /\ n = Len(s) /\ x \in 0 .. n - 1 /\ k = n - 1 - x
      BY <1>1, <1>2, <2>1
    <3>2. IsMovedDown(Anything, t, s, x, k, n)
      BY <2>4
    <3> QED BY <3>1, <3>2, MovedDownAll
  <2>11. DequeRemoved(r, x) = DequeCut(q, m) /\ SubSeq(t, 1, m) = Sequence!RemoveAt(s, x + 1)
    BY <2>7, <2>8, <2>10
  <2> QED BY <2>9, <2>11
<1> QED BY <1>3, <1>4

-----------------------------------------------------------------------------
(* The deque: each call is the same call of a bounded sequence. *)

(* The deque of this state, its capacity and the sequence it holds. *)
DequeAt(c, s) == object = "deque" /\ c \in Capacities /\ s \in Seq(Values) /\ store \in DequeWith(c, s)

(* What the step of a deque shows of its sequence. *)
LEMMA DequeView ==
  ASSUME NEW c, NEW s, DequeAt(c, s)
  PROVE  /\ c \in Nat /\ s \in Seq(Values) /\ s \in Seq(Anything) /\ Len(s) \in 0 .. c /\ store \in DequeWith(c, s)
         /\ store.length = Len(s) /\ store.capacity = c /\ Items = s /\ ~(object = "channel" /\ store.closed)
<1>1. c \in Nat /\ s \in Seq(Values) /\ store \in DequeWith(c, s) /\ object = "deque"
  BY ContainerAssumption DEF DequeAt
<1>2. s \in Seq(Anything) /\ Len(s) \in 0 .. c /\ store.length = Len(s) /\ store.capacity = c
  BY <1>1, DequeOut, DequeFields
<1>3. DequeItems(store) = s
  BY <1>1 DEF DequeWith
<1>4. Items = s
  BY <1>1, <1>3 DEF Items
<1> QED BY <1>1, <1>2, <1>4

(* A call after which the deque holds t. *)
LEMMA DequeDoes ==
  ASSUME NEW c, NEW s, NEW t \in Seq(Values), DequeAt(c, s), store' \in DequeWith(c, t),
         NEW o, NEW a, NEW answer, Answer(o, a, answer)
  PROVE  /\ DequeAt(c, t)' /\ Sequence!op = o /\ Sequence!arg = a /\ Sequence!Does(answer, t)
         /\ UNCHANGED store.capacity /\ Sequence!Room = c - Len(s)
<1>1. /\ object = "deque" /\ c \in Capacities /\ c \in Nat /\ store.capacity = c /\ Items = s
      /\ ~(object = "channel" /\ store.closed)
  BY DequeView DEF DequeAt
<1>2. object' = "deque" /\ call' = <<o, a, answer>>
  BY <1>1 DEF Answer
<1>3. DequeAt(c, t)'
  BY <1>1, <1>2 DEF DequeAt
<1>4. store'.capacity = c
  BY <1>1, DequeOut, DequeFields
<1>5. Items' = t
  <2>1. DequeItems(store') = t
    BY DEF DequeWith
  <2>2. DequeItems(store)' = DequeItems(store')
    BY DEF DequeItems, DequeRef, DequeSlot
  <2> QED BY <1>2, <2>1, <2>2 DEF Items
<1>6. UNCHANGED (object = "channel" /\ store.closed)
  BY <1>1, <1>2
<1>7. Sequence!Does(answer, t)
  BY <1>2, <1>5, <1>6 DEF Sequence!Does
<1>8. Sequence!Room = c - Len(s)
  BY <1>1 DEF Sequence!Room
<1>9. Sequence!op = o /\ Sequence!arg = a
  BY <1>2 DEF Sequence!op, Sequence!arg
<1> QED BY <1>1, <1>3, <1>4, <1>7, <1>8, <1>9

(* A call that changes nothing. *)
LEMMA DequeLooks ==
  ASSUME NEW c, NEW s, DequeAt(c, s), NEW o, NEW a, NEW answer, Stay(o, a, answer)
  PROVE  /\ DequeAt(c, s)' /\ Sequence!op = o /\ Sequence!arg = a /\ Sequence!Looks(answer) /\ Sequence!Does(answer, s)
         /\ UNCHANGED store.capacity /\ Sequence!Room = c - Len(s)
<1>1. s \in Seq(Values) /\ store' \in DequeWith(c, s) /\ Answer(o, a, answer) /\ Items = s
  BY DequeView DEF Stay
<1>2. /\ DequeAt(c, s)' /\ Sequence!op = o /\ Sequence!arg = a /\ Sequence!Does(answer, s)
      /\ UNCHANGED store.capacity /\ Sequence!Room = c - Len(s)
  BY <1>1, DequeDoes
<1>3. Sequence!Looks(answer)
  BY <1>1, <1>2 DEF Sequence!Looks
<1> QED BY <1>2, <1>3

(* The step is one of a bounded sequence, and leaves a deque that holds    *)
(* one.                                                                    *)
DequeKept(c) == Sequence!Next /\ \E t : DequeAt(c, t)'

(* deque_push_back and deque_push_front add an item at an end, or refuse   *)
(* it where there is no room.                                              *)
LEMMA DequePush ==
  ASSUME NEW c, NEW s, DequeAt(c, s), NEW v \in Values, deque_push_back(v) \/ deque_push_front(v)
  PROVE  DequeKept(c)
<1>1. /\ c \in Nat /\ s \in Seq(Values) /\ Len(s) \in 0 .. c /\ store \in DequeWith(c, s)
      /\ store.length = Len(s) /\ store.capacity = c /\ Items = s /\ v \in Anything
  BY DequeView DEF Anything
<1>2. CASE Len(s) < c
  <2>1. store.length < store.capacity
    BY <1>1, <1>2
  <2>2. CASE deque_push_back(v)
    <3>1. store' = DequePushedBack(store, v) /\ Answer("append", v, TRUE)
      BY <2>1, <2>2 DEF deque_push_back
    <3>2. store' \in DequeWith(c, Append(s, v)) /\ Append(s, v) \in Seq(Values)
      BY <1>1, <1>2, <3>1, DequePushBackIs, AppendIs
    <3>3. /\ DequeAt(c, Append(s, v))' /\ Sequence!op = "append" /\ Sequence!arg = v
          /\ Sequence!Does(TRUE, Append(s, v)) /\ UNCHANGED store.capacity /\ Sequence!Room = c - Len(s)
      BY <3>1, <3>2, DequeDoes
    <3>4. Sequence!Room > 0 /\ Append(Items, Sequence!arg) = Append(s, v)
      BY <1>1, <1>2, <3>3
    <3>5. Sequence!Does(TRUE, Append(Items, Sequence!arg))
      BY <3>3, <3>4
    <3>6. Sequence!AddItems
      BY <3>3, <3>4, <3>5 DEF Sequence!AddItems
    <3> QED BY <3>3, <3>6 DEF DequeKept, Sequence!Next
  <2>3. CASE deque_push_front(v)
    <3>1. store' = DequePushedFront(store, v) /\ Answer("prepend", v, TRUE)
      BY <2>1, <2>3 DEF deque_push_front
    <3>2. store' \in DequeWith(c, <<v>> \o s) /\ <<v>> \o s \in Seq(Values)
      BY <1>1, <1>2, <3>1, DequePushFrontIs, BeforeIs
    <3>3. /\ DequeAt(c, <<v>> \o s)' /\ Sequence!op = "prepend" /\ Sequence!arg = v
          /\ Sequence!Does(TRUE, <<v>> \o s) /\ UNCHANGED store.capacity /\ Sequence!Room = c - Len(s)
      BY <3>1, <3>2, DequeDoes
    <3>4. Sequence!Room > 0 /\ <<Sequence!arg>> \o Items = <<v>> \o s
      BY <1>1, <1>2, <3>3
    <3>5. Sequence!Does(TRUE, <<Sequence!arg>> \o Items)
      BY <3>3, <3>4
    <3>6. Sequence!AddItems
      BY <3>3, <3>4, <3>5 DEF Sequence!AddItems
    <3> QED BY <3>3, <3>6 DEF DequeKept, Sequence!Next
  <2> QED BY <2>2, <2>3
<1>3. CASE Len(s) = c
  <2>1. ~(store.length < store.capacity)
    BY <1>1, <1>3
  <2>2. Stay("append", v, FALSE) \/ Stay("prepend", v, FALSE)
    BY <2>1 DEF deque_push_back, deque_push_front
  <2>3. /\ DequeAt(c, s)' /\ (Sequence!op = "append" \/ Sequence!op = "prepend") /\ Sequence!Looks(FALSE)
        /\ UNCHANGED store.capacity /\ Sequence!Room = c - Len(s)
    BY <2>2, DequeLooks
  <2>4. ~(Sequence!Room > 0)
    BY <1>1, <1>3, <2>3
  <2>5. Sequence!AddItems
    BY <2>3, <2>4 DEF Sequence!AddItems
  <2> QED BY <2>3, <2>5 DEF DequeKept, Sequence!Next
<1> QED BY <1>1, <1>2, <1>3

(* deque_push_back_many and deque_push_front_many add as many values as    *)
(* there is room for.                                                      *)
LEMMA DequePushMany ==
  ASSUME NEW c, NEW s, DequeAt(c, s), NEW vs \in Seq(Values), deque_push_back_many(vs) \/ deque_push_front_many(vs)
  PROVE  DequeKept(c)
<1>1. /\ c \in Nat /\ s \in Seq(Values) /\ s \in Seq(Anything) /\ Len(s) \in 0 .. c /\ store \in DequeWith(c, s)
      /\ store.length = Len(s) /\ store.capacity = c /\ Items = s
  BY DequeView
<1>2. PICK room \in Nat : room = c - Len(s)
  BY <1>1
<1>3. PICK n : n = Smaller(Len(vs), room)
  OBVIOUS
<1>4. n \in 0 .. Len(vs) /\ n <= room /\ Sequence!Firsts(vs, room) = SubSeq(vs, 1, n) /\ Len(Sequence!Firsts(vs, room)) = n
  BY <1>3, FirstsShort
<1>5. PICK some : some = Sequence!Firsts(vs, room)
  OBVIOUS
<1>6. some \in Seq(Values) /\ vs \in Seq(Anything) /\ Len(s) + n <= c /\ some = SubSeq(vs, 1, n) /\ Len(some) = n
  <2>1. some \in Seq(Values) /\ vs \in Seq(Anything)
    BY <1>5, PartsIn, SeqOfMore DEF Anything
  <2>2. Len(s) + n <= c
    BY <1>1, <1>2, <1>4, LenProperties
  <2> QED BY <1>4, <1>5, <2>1, <2>2
<1>7. CASE deque_push_back_many(vs)
  <2>1. store' = DequePushedBackAll(store, vs, n) /\ Answer("appendAll", vs, n)
    BY <1>1, <1>2, <1>3, <1>7 DEF deque_push_back_many
  <2>2. store' \in DequeWith(c, s \o some)
    <3>1. store' \in DequeWith(c, s \o SubSeq(vs, 1, n))
      BY <1>1, <1>4, <1>6, <2>1, DequePushManyIs
    <3> QED BY <1>6, <3>1
  <2>3. s \o some \in Seq(Values)
    BY <1>1, <1>6, ConcatProperties
  <2>4. /\ DequeAt(c, s \o some)' /\ Sequence!op = "appendAll" /\ Sequence!arg = vs
        /\ Sequence!Does(n, s \o some) /\ UNCHANGED store.capacity /\ Sequence!Room = room
    BY <1>2, <2>1, <2>2, <2>3, DequeDoes
  <2>5. Sequence!Firsts(Sequence!arg, Sequence!Room) = some /\ Items \o some = s \o some
    BY <1>1, <1>5, <2>4
  <2>6. Sequence!AddItems
    <3>1. Sequence!Does(Len(some), Items \o some)
      BY <1>6, <2>4, <2>5
    <3> QED BY <2>4, <2>5, <3>1 DEF Sequence!AddItems
  <2> QED BY <2>4, <2>6 DEF DequeKept, Sequence!Next
<1>8. CASE deque_push_front_many(vs)
  <2>1. store' = DequePushedFrontAll(store, vs, n) /\ Answer("prependAll", vs, n)
    BY <1>1, <1>2, <1>3, <1>8 DEF deque_push_front_many
  <2>2. PICK t : t = Sequence!Reverse(some) \o s
    OBVIOUS
  <2>3. store' \in DequeWith(c, t)
    <3>1. store' \in DequeWith(c, Prepended(vs, n, s))
      BY <1>1, <1>4, <1>6, <2>1, DequePushManyFrontIs
    <3> QED BY <1>6, <2>2, <3>1 DEF Prepended
  <2>4. t \in Seq(Values)
    <3>1. PICK u : u = Sequence!Reverse(some)
      OBVIOUS
    <3>2. u \in Seq(Values)
      BY <1>6, <3>1, ReverseIs
    <3> QED BY <1>1, <2>2, <3>1, <3>2, ConcatProperties
  <2>5. /\ DequeAt(c, t)' /\ Sequence!op = "prependAll" /\ Sequence!arg = vs
        /\ Sequence!Does(n, t) /\ UNCHANGED store.capacity /\ Sequence!Room = room
    BY <1>2, <2>1, <2>3, <2>4, DequeDoes
  <2>6. Sequence!Firsts(Sequence!arg, Sequence!Room) = some /\ Sequence!Reverse(some) \o Items = t
    BY <1>1, <1>5, <2>2, <2>5
  <2>7. Sequence!AddItems
    <3>1. Sequence!Does(Len(some), Sequence!Reverse(some) \o Items)
      BY <1>6, <2>5, <2>6
    <3> QED BY <2>5, <2>6, <3>1 DEF Sequence!AddItems
  <2> QED BY <2>5, <2>7 DEF DequeKept, Sequence!Next
<1> QED BY <1>7, <1>8

(* The first k items of a sequence. *)
LEMMA FirstsPart ==
  ASSUME NEW V, NEW s \in Seq(V), NEW k \in 0 .. Len(s)
  PROVE  Sequence!Firsts(s, k) = SubSeq(s, 1, k) /\ Sequence!Firsts(s, k) \in Seq(V)
<1>1. k \in Nat /\ Len(s) \in Nat
  BY LenProperties
<1>2. CASE k = Len(s)
  <2>1. SubSeq(s, 1, k) = s
    BY <1>2, SubSeqFull
  <2> QED BY <1>1, <1>2, <2>1, FirstsAre
<1>3. CASE ~(k >= Len(s))
  BY <1>1, <1>3, FirstsAre, PartsIn
<1>4. k = Len(s) \/ ~(k >= Len(s))
  BY <1>1
<1> QED BY <1>2, <1>3, <1>4

(* A call that keeps the first k items. *)
LEMMA DequeCuts ==
  ASSUME NEW c, NEW s, DequeAt(c, s), NEW k \in 0 .. Len(s), store' = DequeCut(store, k),
         NEW o, NEW a, NEW answer, Answer(o, a, answer)
  PROVE  /\ \E t : DequeAt(c, t)'
         /\ Sequence!op = o /\ Sequence!arg = a /\ Sequence!Does(answer, Sequence!Firsts(Items, k))
         /\ UNCHANGED store.capacity
<1>1. c \in Nat /\ s \in Seq(Values) /\ store \in DequeWith(c, s) /\ Items = s
  BY DequeView
<1>2. PICK t : t = Sequence!Firsts(s, k)
  OBVIOUS
<1>3. t \in Seq(Values) /\ t = SubSeq(s, 1, k)
  BY <1>1, <1>2, FirstsPart
<1>4. store' \in DequeWith(c, t)
  BY <1>1, <1>3, DequeCutIs
<1>5. DequeAt(c, t)' /\ Sequence!op = o /\ Sequence!arg = a /\ Sequence!Does(answer, t) /\ UNCHANGED store.capacity
  BY <1>3, <1>4, DequeDoes
<1> QED BY <1>1, <1>2, <1>5

(* The first item is in the slot of the head. *)
LEMMA DequeHeadIs ==
  ASSUME NEW c \in Nat, NEW s, NEW r \in DequeWith(c, s), Len(s) > 0
  PROVE  DequeSlot(r, 0) = r.head
<1>1. PICK d \in Storages(Anything, c), h \in Heads(c), n \in 0 .. c : r = DequeOf(d, h, c, n) /\ Len(s) = n
  BY DequeOut
<1>2. r.head = h /\ r.capacity = c
  BY <1>1, DequeFields
<1>3. h \in 0 .. c - 1 /\ 0 \in 0 .. c /\ h + 0 = h
  BY <1>1 DEF Heads, Slots
<1>4. (h + 0) % c = Place(h, 0, c) /\ Place(h, 0, c) = h
  <2>1. PICK zero \in 0 .. c : zero = 0
    BY <1>3
  <2>2. (h + zero) % c = Place(h, zero, c)
    BY <1>3, <2>1, Wrap
  <2>3. Place(h, zero, c) = h
    BY <1>3, <2>1 DEF Place
  <2> QED BY <2>1, <2>2, <2>3
<1> QED BY <1>2, <1>4 DEF DequeSlot

(* deque_pop_front_or takes the first item. *)
LEMMA DequePopFront ==
  ASSUME NEW c, NEW s, DequeAt(c, s), deque_pop_front_or
  PROVE  DequeKept(c)
<1>1. /\ c \in Nat /\ s \in Seq(Values) /\ Len(s) \in 0 .. c /\ store \in DequeWith(c, s)
      /\ store.length = Len(s) /\ Items = s
  BY DequeView
<1>2. CASE Len(s) > 0
  <2>1. store.length # 0
    BY <1>1, <1>2
  <2>2. PICK g : g = IF store.length = 1 THEN 0 ELSE DequeSlot(store, 1)
    OBVIOUS
  <2>3. /\ store' = [store EXCEPT !.length = store.length - 1, !.head = g]
        /\ Answer("takeFirst", 0, <<store.data[store.head]>>)
    BY <2>1, <2>2 DEF deque_pop_front_or
  <2>4. store' = [store EXCEPT !.head = g, !.length = store.length - 1]
    <3>1. PICK d, h, n : store = DequeOf(d, h, c, n)
      BY <1>1, DequeOut
    <3> QED BY <2>3, <3>1 DEF DequeOf
  <2>5. PICK t : t = Sequence!Without(s, 1)
    OBVIOUS
  <2>6. t = SubSeq(s, 2, Len(s)) /\ Sequence!Firsts(s, 1) = <<s[1]>> /\ t \in Seq(Values)
    BY <1>1, <1>2, <2>5, EndsAre, PartsIn
  <2>7. store' \in DequeWith(c, t)
    <3>1. CASE Len(s) = 1
      <4>1. g = 0 /\ store.length - 1 = 0
        BY <1>1, <2>2, <3>1
      <4>2. store' = DequeCut(store, 0)
        <5>1. PICK d, h, n : store = DequeOf(d, h, c, n)
          BY <1>1, DequeOut
        <5> QED BY <2>4, <4>1, <5>1 DEF DequeCut, DequeOf
      <4>3. PICK zero \in 0 .. Len(s) : zero = 0
        BY <3>1
      <4>4. DequeCut(store, zero) \in DequeWith(c, SubSeq(s, 1, zero))
        BY <1>1, DequeCutIs
      <4>5. SubSeq(s, 1, 0) = <<>> /\ t = <<>>
        BY <1>1, <2>6, <3>1, SubSeqEmpty
      <4> QED BY <4>2, <4>3, <4>4, <4>5
    <3>2. CASE Len(s) # 1
      <4>1. PICK m \in 0 .. Len(s) - 1 : m = 1 /\ m + 1 = 2
        <5>0. Len(s) \in Nat /\ Len(s) > 0 /\ Len(s) # 1
          BY <1>1, <1>2, <3>2, LenProperties
        <5>1. PICK l \in Nat : l = Len(s) /\ l > 0 /\ l # 1
          BY <5>0
        <5>2. 1 \in 0 .. l - 1 /\ 1 + 1 = 2
          BY <5>1
        <5> QED BY <5>1, <5>2
      <4>2. store' = [store EXCEPT !.head = DequeSlot(store, m), !.length = store.length - m]
        BY <1>1, <2>2, <2>4, <3>2, <4>1
      <4>3. store' \in DequeWith(c, SubSeq(s, m + 1, Len(s)))
        BY <1>1, <4>2, DequeDropIs
      <4> QED BY <2>6, <4>1, <4>3
    <3> QED BY <3>1, <3>2
  <2>8. store.data[store.head] = s[1]
    <3>1. PICK zero \in 0 .. Len(s) - 1 : zero = 0 /\ zero + 1 = 1
      BY <1>1, <1>2
    <3>2. DequeRef(store, zero) = s[1] /\ DequeSlot(store, zero) = store.head
      BY <1>1, <1>2, <3>1, DequeRefIs, DequeHeadIs
    <3> QED BY <3>2 DEF DequeRef
  <2>9. /\ DequeAt(c, t)' /\ Sequence!op = "takeFirst" /\ Sequence!Does(<<store.data[store.head]>>, t)
        /\ UNCHANGED store.capacity
    BY <2>3, <2>6, <2>7, DequeDoes
  <2>10. Sequence!Firsts(Items, 1) = <<store.data[store.head]>> /\ Sequence!Without(Items, 1) = t
    BY <1>1, <2>5, <2>6, <2>8
  <2>11. Sequence!Does(Sequence!Firsts(Items, 1), Sequence!Without(Items, 1))
    BY <2>9, <2>10
  <2>12. Sequence!RemoveItems
    BY <2>9, <2>11 DEF Sequence!RemoveItems
  <2> QED BY <2>9, <2>12 DEF DequeKept, Sequence!Next
<1>3. CASE Len(s) = 0
  <2>1. Stay("takeFirst", 0, <<>>)
    BY <1>1, <1>3 DEF deque_pop_front_or
  <2>2. DequeAt(c, s)' /\ Sequence!op = "takeFirst" /\ Sequence!Does(<<>>, s) /\ UNCHANGED store.capacity
    BY <2>1, DequeLooks
  <2>3. Sequence!Firsts(Items, 1) = <<>> /\ Sequence!Without(Items, 1) = s
    <3>1. s = <<>> /\ 1 >= Len(s)
      BY <1>1, <1>3, EmptySeq
    <3> QED BY <1>1, <3>1, FirstsAre, WithoutIs
  <2>4. Sequence!Does(Sequence!Firsts(Items, 1), Sequence!Without(Items, 1))
    BY <2>2, <2>3
  <2>5. Sequence!RemoveItems
    BY <2>2, <2>4 DEF Sequence!RemoveItems
  <2> QED BY <2>2, <2>5 DEF DequeKept, Sequence!Next
<1> QED BY <1>1, <1>2, <1>3

(* deque_pop_back_or takes the last item. *)
LEMMA DequePopBack ==
  ASSUME NEW c, NEW s, DequeAt(c, s), deque_pop_back_or
  PROVE  DequeKept(c)
<1>1. /\ c \in Nat /\ s \in Seq(Values) /\ Len(s) \in 0 .. c /\ store \in DequeWith(c, s)
      /\ store.length = Len(s) /\ Items = s
  BY DequeView
<1>2. CASE Len(s) > 0
  <2>0. Len(s) \in Nat
    BY <1>1
  <2>10. PICK k \in 0 .. Len(s) : k = Len(s) - 1 /\ k \in 0 .. Len(s) - 1 /\ k + 1 = Len(s)
    <3>1. Len(s) - 1 \in 0 .. Len(s) /\ Len(s) - 1 \in 0 .. Len(s) - 1 /\ Len(s) - 1 + 1 = Len(s)
      BY <1>2, <2>0
    <3> QED BY <3>1
  <2>1. k = Len(s) - 1 /\ k = store.length - 1 /\ k \in 0 .. Len(s) - 1 /\ k + 1 = Len(s)
    BY <1>1, <2>10
  <2>2. store' = DequeCut(store, k) /\ Answer("takeLast", 0, <<DequeRef(store, k)>>)
    BY <1>1, <1>2, <2>1 DEF deque_pop_back_or
  <2>3. /\ \E t : DequeAt(c, t)'
        /\ Sequence!op = "takeLast" /\ Sequence!Does(<<DequeRef(store, k)>>, Sequence!Firsts(Items, k))
        /\ UNCHANGED store.capacity
    BY <2>2, DequeCuts
  <2>4. DequeRef(store, k) = s[Len(s)]
    BY <1>1, <2>1, DequeRefIs
  <2>5. Sequence!Lasts(s, 1) = <<s[Len(s)]>>
    BY <1>1, <1>2, EndsAre
  <2>6. Sequence!Lasts(Items, 1) = <<DequeRef(store, k)>> /\ Len(Items) - 1 = k
    BY <1>1, <2>1, <2>4, <2>5
  <2>7. Sequence!Does(Sequence!Lasts(Items, 1), Sequence!Firsts(Items, Len(Items) - 1))
    BY <2>3, <2>6
  <2>8. Sequence!RemoveItems
    BY <2>3, <2>7 DEF Sequence!RemoveItems
  <2> QED BY <2>3, <2>8 DEF DequeKept, Sequence!Next
<1>3. CASE Len(s) = 0
  <2>1. Stay("takeLast", 0, <<>>)
    BY <1>1, <1>3 DEF deque_pop_back_or
  <2>2. DequeAt(c, s)' /\ Sequence!op = "takeLast" /\ Sequence!Does(<<>>, s) /\ UNCHANGED store.capacity
    BY <2>1, DequeLooks
  <2>3. Sequence!Lasts(Items, 1) = <<>> /\ Sequence!Firsts(Items, Len(Items) - 1) = s
    <3>1. s = <<>> /\ 1 >= Len(s)
      BY <1>1, <1>3, EmptySeq
    <3>2. Sequence!Lasts(s, 1) = <<>>
      BY <1>1, <3>1, LastsAre
    <3>3. Sequence!Least(Len(s) - 1, Len(s)) = -1
      BY <1>3 DEF Sequence!Least
    <3>4. Sequence!Firsts(s, Len(s) - 1) = SubSeq(s, 1, -1)
      BY <3>3 DEF Sequence!Firsts
    <3>5. SubSeq(s, 1, -1) = <<>>
      BY SubSeqEmpty
    <3> QED BY <1>1, <3>1, <3>2, <3>4, <3>5
  <2>4. Sequence!Does(Sequence!Lasts(Items, 1), Sequence!Firsts(Items, Len(Items) - 1))
    BY <2>2, <2>3
  <2>5. Sequence!RemoveItems
    BY <2>2, <2>4 DEF Sequence!RemoveItems
  <2> QED BY <2>2, <2>5 DEF DequeKept, Sequence!Next
<1> QED BY <1>1, <1>2, <1>3

(* deque_clear leaves no item. *)
LEMMA DequeClear ==
  ASSUME NEW c, NEW s, DequeAt(c, s), deque_clear
  PROVE  DequeKept(c)
<1>1. s \in Seq(Values) /\ Len(s) \in Nat /\ Items = s
  BY DequeView
<1>2. PICK zero \in 0 .. Len(s) : zero = 0
  BY <1>1
<1>3. /\ \E t : DequeAt(c, t)'
      /\ Sequence!op = "clear" /\ Sequence!Does(TRUE, Sequence!Firsts(Items, zero)) /\ UNCHANGED store.capacity
  BY <1>2, DequeCuts DEF deque_clear
<1>4. Sequence!Firsts(Items, zero) = <<>>
  <2>1. Sequence!Firsts(s, zero) = SubSeq(s, 1, zero)
    BY <1>1, FirstsPart
  <2>2. SubSeq(s, 1, 0) = <<>>
    BY SubSeqEmpty
  <2> QED BY <1>1, <1>2, <2>1, <2>2
<1>5. Sequence!RemoveItems
  BY <1>3, <1>4 DEF Sequence!RemoveItems
<1> QED BY <1>3, <1>5 DEF DequeKept, Sequence!Next

(* deque_truncate and deque_drop_back keep the first items, and refuse to  *)
(* drop more items than there are.                                         *)
LEMMA DequeTruncate ==
  ASSUME NEW c, NEW s, DequeAt(c, s), NEW n \in Nat, deque_truncate(n) \/ deque_drop_back(n)
  PROVE  DequeKept(c)
<1>1. s \in Seq(Values) /\ Len(s) \in Nat /\ store.length = Len(s) /\ Items = s
  BY DequeView
<1>2. CASE n <= Len(s)
  <2>0. ~(n > store.length)
    BY <1>1, <1>2
  <2>1. CASE deque_truncate(n)
    <3>0. n \in 0 .. Len(s)
      <4>1. Len(s) \in Nat
        BY <1>1
      <4> QED BY <1>2, <4>1
    <3>1. store' = DequeCut(store, n) /\ Answer("truncate", n, TRUE)
      BY <2>0, <2>1 DEF deque_truncate
    <3>2. /\ \E t : DequeAt(c, t)'
          /\ Sequence!op = "truncate" /\ Sequence!arg = n /\ Sequence!Does(TRUE, Sequence!Firsts(Items, n))
          /\ UNCHANGED store.capacity
      BY <3>0, <3>1, DequeCuts
    <3>3. Sequence!arg <= Len(Items) /\ Sequence!Does(TRUE, Sequence!Firsts(Items, Sequence!arg))
      BY <1>1, <1>2, <3>2
    <3>4. Sequence!RemoveItems
      BY <3>2, <3>3 DEF Sequence!RemoveItems
    <3> QED BY <3>2, <3>4 DEF DequeKept, Sequence!Next
  <2>2. CASE deque_drop_back(n)
    <3>1. PICK k \in 0 .. Len(s) : k = Len(s) - n
      <4>1. Len(s) \in Nat
        BY <1>1
      <4>2. Len(s) - n \in 0 .. Len(s)
        BY <1>2, <4>1
      <4> QED BY <4>2
    <3>2. store' = DequeCut(store, k) /\ Answer("dropLastExactly", n, TRUE)
      BY <1>1, <2>0, <2>2, <3>1 DEF deque_drop_back
    <3>3. /\ \E t : DequeAt(c, t)'
          /\ Sequence!op = "dropLastExactly" /\ Sequence!arg = n /\ Sequence!Does(TRUE, Sequence!Firsts(Items, k))
          /\ UNCHANGED store.capacity
      BY <3>2, DequeCuts
    <3>4. Sequence!arg <= Len(Items) /\ Len(Items) - Sequence!arg = k
      BY <1>1, <1>2, <3>1, <3>3
    <3>5. Sequence!Does(TRUE, Sequence!Firsts(Items, Len(Items) - Sequence!arg))
      BY <3>3, <3>4
    <3>6. Sequence!RemoveItems
      BY <3>3, <3>4, <3>5 DEF Sequence!RemoveItems
    <3> QED BY <3>3, <3>6 DEF DequeKept, Sequence!Next
  <2> QED BY <2>1, <2>2
<1>3. CASE ~(n <= Len(s))
  <2>0. n > store.length
    <3>1. Len(s) \in Nat /\ store.length = Len(s)
      BY <1>1
    <3>2. n > Len(s)
      BY <1>3, <3>1
    <3> QED BY <3>1, <3>2
  <2>1. Stay("truncate", n, FALSE) \/ Stay("dropLastExactly", n, FALSE)
    BY <2>0 DEF deque_truncate, deque_drop_back
  <2>2. /\ DequeAt(c, s)' /\ (Sequence!op = "truncate" \/ Sequence!op = "dropLastExactly") /\ Sequence!arg = n
        /\ Sequence!Looks(FALSE) /\ UNCHANGED store.capacity
    BY <2>1, DequeLooks
  <2>3. ~(Sequence!arg <= Len(Items))
    BY <1>1, <1>3, <2>2
  <2>4. Sequence!RemoveItems
    BY <2>2, <2>3 DEF Sequence!RemoveItems
  <2> QED BY <2>2, <2>4 DEF DequeKept, Sequence!Next
<1> QED BY <1>2, <1>3

(* deque_drop_front drops the first items, and refuses to drop more than   *)
(* there are.                                                              *)
LEMMA DequeDropFront ==
  ASSUME NEW c, NEW s, DequeAt(c, s), NEW n \in Nat, deque_drop_front(n)
  PROVE  DequeKept(c)
<1>1. /\ c \in Nat /\ s \in Seq(Values) /\ Len(s) \in Nat /\ store \in DequeWith(c, s)
      /\ store.length = Len(s) /\ Items = s
  BY DequeView
<1>2. CASE n <= Len(s)
  <2>0. ~(n > store.length)
    BY <1>1, <1>2
  <2>1. /\ store' = IF n = store.length THEN DequeCut(store, 0)
                    ELSE [store EXCEPT !.head = DequeSlot(store, n), !.length = store.length - n]
        /\ Answer("dropFirstExactly", n, TRUE)
    BY <2>0 DEF deque_drop_front
  <2>2. PICK t : t = Sequence!Without(s, n)
    OBVIOUS
  <2>3. t \in Seq(Values) /\ t = IF n >= Len(s) THEN <<>> ELSE SubSeq(s, n + 1, Len(s))
    BY <1>1, <2>2, PartsIn, WithoutIs
  <2>4. store' \in DequeWith(c, t)
    <3>1. CASE n = Len(s)
      <4>1. store' = DequeCut(store, 0) /\ t = <<>>
        BY <1>1, <2>1, <2>3, <3>1
      <4>2. PICK zero \in 0 .. Len(s) : zero = 0
        BY <1>1
      <4>3. DequeCut(store, zero) \in DequeWith(c, SubSeq(s, 1, zero))
        BY <1>1, DequeCutIs
      <4>4. SubSeq(s, 1, 0) = <<>>
        BY SubSeqEmpty
      <4> QED BY <4>1, <4>2, <4>3, <4>4
    <3>2. CASE n # Len(s)
      <4>1. n \in 0 .. Len(s) - 1 /\ t = SubSeq(s, n + 1, Len(s))
        BY <1>1, <1>2, <2>3, <3>2
      <4>2. store' = [store EXCEPT !.head = DequeSlot(store, n), !.length = store.length - n]
        BY <1>1, <2>1, <3>2
      <4> QED BY <1>1, <4>1, <4>2, DequeDropIs
    <3> QED BY <3>1, <3>2
  <2>5. /\ DequeAt(c, t)' /\ Sequence!op = "dropFirstExactly" /\ Sequence!arg = n /\ Sequence!Does(TRUE, t)
        /\ UNCHANGED store.capacity
    BY <2>1, <2>3, <2>4, DequeDoes
  <2>6. Sequence!arg <= Len(Items) /\ Sequence!Does(TRUE, Sequence!Without(Items, Sequence!arg))
    BY <1>1, <1>2, <2>2, <2>5
  <2>7. Sequence!RemoveItems
    BY <2>5, <2>6 DEF Sequence!RemoveItems
  <2> QED BY <2>5, <2>7 DEF DequeKept, Sequence!Next
<1>3. CASE ~(n <= Len(s))
  <2>0. n > store.length
    <3>1. Len(s) \in Nat /\ store.length = Len(s)
      BY <1>1
    <3>2. n > Len(s)
      BY <1>3, <3>1
    <3> QED BY <3>1, <3>2
  <2>1. Stay("dropFirstExactly", n, FALSE)
    BY <2>0 DEF deque_drop_front
  <2>2. /\ DequeAt(c, s)' /\ Sequence!op = "dropFirstExactly" /\ Sequence!arg = n
        /\ Sequence!Looks(FALSE) /\ UNCHANGED store.capacity
    BY <2>1, DequeLooks
  <2>3. ~(Sequence!arg <= Len(Items))
    BY <1>1, <1>3, <2>2
  <2>4. Sequence!RemoveItems
    BY <2>2, <2>3 DEF Sequence!RemoveItems
  <2> QED BY <2>2, <2>4 DEF DequeKept, Sequence!Next
<1> QED BY <1>2, <1>3

(* deque_rotate_left turns the sequence by as many rounds as are left of   *)
(* the whole turns.                                                        *)
LEMMA DequeRotateLeft ==
  ASSUME NEW c, NEW s, DequeAt(c, s), NEW k \in Nat, deque_rotate_left(k)
  PROVE  DequeKept(c)
<1>1. /\ c \in Nat /\ s \in Seq(Values) /\ s \in Seq(Anything) /\ store \in DequeWith(c, s)
      /\ store.length = Len(s) /\ Items = s
  BY DequeView
<1>2. PICK n \in Nat : n = Len(s)
  BY <1>1, LenProperties
<1>3. PICK t : t = Sequence!Turned(s, k)
  OBVIOUS
<1>4. t \in Seq(Values)
  BY <1>1, <1>3, TurnedIn
<1>5. /\ store' = IF store.length <= 1 THEN store ELSE Iterate(DequeTurnedLeft, store, k % store.length)
      /\ Answer("rotateLeft", k, TRUE)
  BY DEF deque_rotate_left
<1>6. store' \in DequeWith(c, t)
  <2>1. CASE n = 0
    <3>1. t = s
      BY <1>1, <1>2, <1>3, <2>1, TurnedNone
    <3>2. store' = store
      BY <1>1, <1>2, <1>5, <2>1
    <3> QED BY <1>1, <3>1, <3>2
  <2>2. CASE n = 1
    <3>1. t = s
      BY <1>1, <1>2, <1>3, <2>2, TurnedOne
    <3>2. store' = store
      BY <1>1, <1>2, <1>5, <2>2
    <3> QED BY <1>1, <3>1, <3>2
  <2>3. CASE n > 1
    <3>1. n > 0 /\ ~(n <= 1)
      BY <2>3
    <3>2. PICK m \in Nat : m = k % n
      <4>1. k % n \in 0 .. n - 1
        BY <3>1, RemainderIn
      <4> QED BY <4>1
    <3>3. store' = Iterate(DequeTurnedLeft, store, m)
      BY <1>1, <1>2, <1>5, <3>1, <3>2
    <3>4. store' \in DequeWith(c, Sequence!Turned(s, m))
      BY <1>1, <1>2, <3>1, <3>3, DequeTurnLeftManyIs
    <3>5. Sequence!Turned(s, m) = t
      BY <1>1, <1>2, <1>3, <3>1, <3>2, TurnedLess
    <3> QED BY <3>4, <3>5
  <2> QED BY <2>1, <2>2, <2>3
<1>7. DequeAt(c, t)' /\ Sequence!op = "rotateLeft" /\ Sequence!arg = k /\ Sequence!Does(TRUE, t) /\ UNCHANGED store.capacity
  BY <1>4, <1>5, <1>6, DequeDoes
<1>8. Sequence!Does(TRUE, Sequence!Turned(Items, Sequence!arg))
  BY <1>1, <1>3, <1>7
<1>9. Sequence!Rearrange
  BY <1>7, <1>8 DEF Sequence!Rearrange
<1> QED BY <1>7, <1>9 DEF DequeKept, Sequence!Next

(* deque_rotate_right turns it the other way. *)
LEMMA DequeRotateRight ==
  ASSUME NEW c, NEW s, DequeAt(c, s), NEW k \in Nat, deque_rotate_right(k)
  PROVE  DequeKept(c)
<1>1. /\ c \in Nat /\ s \in Seq(Values) /\ s \in Seq(Anything) /\ store \in DequeWith(c, s)
      /\ store.length = Len(s) /\ Items = s
  BY DequeView
<1>2. PICK n \in Nat : n = Len(s)
  BY <1>1, LenProperties
<1>3. PICK t : t = Sequence!Turned(s, k * (Len(s) - 1))
  OBVIOUS
<1>4. /\ store' = IF store.length <= 1 THEN store ELSE Iterate(DequeTurnedRight, store, k % store.length)
      /\ Answer("rotateRight", k, TRUE)
  BY DEF deque_rotate_right
<1>5. t \in Seq(Values) /\ store' \in DequeWith(c, t)
  <2>1. CASE n = 0
    <3>1. t = s
      BY <1>1, <1>2, <1>3, <2>1, TurnedNone
    <3>2. store' = store
      BY <1>1, <1>2, <1>4, <2>1
    <3> QED BY <1>1, <3>1, <3>2
  <2>2. CASE n = 1
    <3>0. k * (Len(s) - 1) = 0
      BY <1>2, <2>2
    <3>1. t = s
      BY <1>1, <1>2, <1>3, <2>2, <3>0, TurnedOne
    <3>2. store' = store
      BY <1>1, <1>2, <1>4, <2>2
    <3> QED BY <1>1, <3>1, <3>2
  <2>3. CASE n > 1
    <3>1. n > 0 /\ ~(n <= 1)
      BY <2>3
    <3>2. PICK m \in Nat : m = k % n
      <4>1. k % n \in 0 .. n - 1
        BY <3>1, RemainderIn
      <4> QED BY <4>1
    <3>3. store' = Iterate(DequeTurnedRight, store, m)
      BY <1>1, <1>2, <1>4, <3>1, <3>2
    <3>4. PICK l \in Nat : l = n - 1
      BY <3>1
    <3>5. PICK a \in Nat : a = m * (n - 1)
      <4>1. m * l \in Nat
        OBVIOUS
      <4> QED BY <3>4, <4>1
    <3>6. PICK b \in Nat : b = k * (n - 1)
      <4>1. k * l \in Nat
        OBVIOUS
      <4> QED BY <3>4, <4>1
    <3>7. store' \in DequeWith(c, Sequence!Turned(s, a))
      <4>1. Iterate(DequeTurnedRight, store, m) \in DequeWith(c, Sequence!Turned(s, m * (Len(s) - 1)))
        BY <1>1, <1>2, <3>1, DequeTurnRightManyIs
      <4> QED BY <1>2, <3>3, <3>5, <4>1
    <3>8. Sequence!Turned(s, a) = Sequence!Turned(s, b)
      <4>1. s \in Seq(Values) /\ n = Len(s) /\ n > 0
        BY <1>1, <1>2, <3>1
      <4> QED BY <4>1, <3>2, <3>5, <3>6, TurnedBackLess
    <3>9. t = Sequence!Turned(s, b)
      BY <1>2, <1>3, <3>6
    <3>10. t \in Seq(Values)
      BY <1>1, <3>9, TurnedIn
    <3> QED BY <3>7, <3>8, <3>9, <3>10
  <2> QED BY <2>1, <2>2, <2>3
<1>6. DequeAt(c, t)' /\ Sequence!op = "rotateRight" /\ Sequence!arg = k /\ Sequence!Does(TRUE, t) /\ UNCHANGED store.capacity
  BY <1>4, <1>5, DequeDoes
<1>7. Sequence!Does(TRUE, Sequence!Turned(Items, Sequence!arg * (Len(Items) - 1)))
  BY <1>1, <1>3, <1>6
<1>8. Sequence!Rearrange
  BY <1>6, <1>7 DEF Sequence!Rearrange
<1> QED BY <1>6, <1>8 DEF DequeKept, Sequence!Next

(* deque_reverse reverses the sequence. *)
LEMMA DequeReverse ==
  ASSUME NEW c, NEW s, DequeAt(c, s), deque_reverse
  PROVE  DequeKept(c)
<1>1. c \in Nat /\ s \in Seq(Values) /\ store \in DequeWith(c, s) /\ store.length = Len(s) /\ Items = s
  BY DequeView
<1>2. PICK t : t = Sequence!Reverse(s)
  OBVIOUS
<1>3. t \in Seq(Values)
  BY <1>1, <1>2, ReverseIs
<1>4. PICK m : m = Len(s) \div 2
  OBVIOUS
<1>5. store' = DequeEndsSwapped(store, m) /\ Answer("reverse", 0, TRUE)
  BY <1>1, <1>4 DEF deque_reverse
<1>6. store' \in DequeWith(c, t)
  BY <1>1, <1>2, <1>4, <1>5, DequeReverseIs
<1>7. DequeAt(c, t)' /\ Sequence!op = "reverse" /\ Sequence!Does(TRUE, t) /\ UNCHANGED store.capacity
  BY <1>3, <1>5, <1>6, DequeDoes
<1>8. Sequence!Does(TRUE, Sequence!Reverse(Items))
  BY <1>1, <1>2, <1>7
<1>9. Sequence!Rearrange
  BY <1>7, <1>8 DEF Sequence!Rearrange
<1> QED BY <1>7, <1>9 DEF DequeKept, Sequence!Next

(* deque_swap swaps two items, or refuses an index beyond the last. *)
LEMMA DequeSwap ==
  ASSUME NEW c, NEW s, DequeAt(c, s), NEW i \in Nat, NEW j \in Nat, deque_swap(i, j)
  PROVE  DequeKept(c)
<1>1. c \in Nat /\ s \in Seq(Values) /\ store \in DequeWith(c, s) /\ store.length = Len(s) /\ Items = s
  BY DequeView
<1>2. PICK n \in Nat : n = Len(s)
  BY <1>1, LenProperties
<1>3. CASE i < n /\ j < n
  <2>1. i \in 0 .. n - 1 /\ j \in 0 .. n - 1 /\ i + 1 \in 1 .. n /\ j + 1 \in 1 .. n
    BY <1>3
  <2>2. store' = DequeSwapped(store, i, j) /\ Answer("swap", <<i, j>>, TRUE)
    BY <1>1, <1>2, <1>3 DEF deque_swap
  <2>3. PICK v \in Values, w \in Values : v = s[j + 1] /\ w = s[i + 1]
    BY <1>1, <1>2, <2>1, ElementOfSeq
  <2>4. PICK u : u = Put(s, i + 1, v)
    OBVIOUS
  <2>5. PICK t : t = Put(u, j + 1, w)
    OBVIOUS
  <2>6. t \in Seq(Values)
    <3>1. u \in Seq(Values) /\ Len(u) = n
      BY <1>1, <1>2, <2>1, <2>4, PutIs DEF IsPut
    <3> QED BY <2>1, <2>5, <3>1, PutIs DEF IsPut
  <2>7. store' \in DequeWith(c, t)
    BY <1>1, <1>2, <2>1, <2>2, <2>3, <2>4, <2>5, DequeSwapIs
  <2>8. /\ DequeAt(c, t)' /\ Sequence!op = "swap" /\ Sequence!arg = <<i, j>> /\ Sequence!Does(TRUE, t)
        /\ UNCHANGED store.capacity
    BY <2>2, <2>6, <2>7, DequeDoes
  <2>9. Sequence!arg[1] = i /\ Sequence!arg[2] = j
    BY <2>8
  <2>10. Sequence!arg[1] < Len(Items) /\ Sequence!arg[2] < Len(Items)
    BY <1>1, <1>2, <1>3, <2>9
  <2>11. [Items EXCEPT ![Sequence!arg[1] + 1] = Items[Sequence!arg[2] + 1],
                       ![Sequence!arg[2] + 1] = Items[Sequence!arg[1] + 1]] = t
    BY <1>1, <2>3, <2>4, <2>5, <2>9 DEF Put
  <2>12. Sequence!Does(TRUE, [Items EXCEPT ![Sequence!arg[1] + 1] = Items[Sequence!arg[2] + 1],
                                           ![Sequence!arg[2] + 1] = Items[Sequence!arg[1] + 1]])
    BY <2>8, <2>11
  <2>13. Sequence!Rearrange
    BY <2>8, <2>10, <2>12 DEF Sequence!Rearrange
  <2> QED BY <2>8, <2>13 DEF DequeKept, Sequence!Next
<1>4. CASE ~(i < n /\ j < n)
  <2>1. Stay("swap", <<i, j>>, FALSE)
    BY <1>1, <1>2, <1>4 DEF deque_swap
  <2>2. /\ DequeAt(c, s)' /\ Sequence!op = "swap" /\ Sequence!arg = <<i, j>> /\ Sequence!Looks(FALSE)
        /\ UNCHANGED store.capacity
    BY <2>1, DequeLooks
  <2>3. Sequence!arg[1] = i /\ Sequence!arg[2] = j
    BY <2>2
  <2>4. ~(Sequence!arg[1] < Len(Items) /\ Sequence!arg[2] < Len(Items))
    BY <1>1, <1>2, <1>4, <2>3
  <2>5. Sequence!Rearrange
    BY <2>2, <2>4 DEF Sequence!Rearrange
  <2> QED BY <2>2, <2>5 DEF DequeKept, Sequence!Next
<1> QED BY <1>3, <1>4

(* deque_set replaces one item, or refuses an index beyond the last. *)
LEMMA DequeSet ==
  ASSUME NEW c, NEW s, DequeAt(c, s), NEW i \in Nat, NEW v \in Values, deque_set(i, v)
  PROVE  DequeKept(c)
<1>1. c \in Nat /\ s \in Seq(Values) /\ store \in DequeWith(c, s) /\ store.length = Len(s) /\ Items = s
  BY DequeView
<1>2. PICK n \in Nat : n = Len(s)
  BY <1>1, LenProperties
<1>3. CASE i < n
  <2>1. i \in 0 .. n - 1 /\ i + 1 \in 1 .. n /\ v \in Anything
    BY <1>3 DEF Anything
  <2>2. store' = [store EXCEPT !.data = Put(store.data, DequeSlot(store, i), v)] /\ Answer("set", <<i, v>>, TRUE)
    BY <1>1, <1>2, <1>3 DEF deque_set, Put
  <2>3. PICK t : t = Put(s, i + 1, v)
    OBVIOUS
  <2>4. store' \in DequeWith(c, t)
    BY <1>1, <1>2, <2>1, <2>2, <2>3, DequeSetIs
  <2>5. t \in Seq(Values)
    BY <1>1, <1>2, <2>1, <2>3, PutIs DEF IsPut
  <2>6. /\ DequeAt(c, t)' /\ Sequence!op = "set" /\ Sequence!arg = <<i, v>> /\ Sequence!Does(TRUE, t)
        /\ UNCHANGED store.capacity
    BY <2>2, <2>4, <2>5, DequeDoes
  <2>7. Sequence!arg[1] = i /\ Sequence!arg[2] = v
    BY <2>6
  <2>8. Sequence!arg[1] < Len(Items) /\ [Items EXCEPT ![Sequence!arg[1] + 1] = Sequence!arg[2]] = t
    BY <1>1, <1>2, <1>3, <2>3, <2>7 DEF Put
  <2>9. Sequence!Does(TRUE, [Items EXCEPT ![Sequence!arg[1] + 1] = Sequence!arg[2]])
    BY <2>6, <2>8
  <2>10. Sequence!Rearrange
    BY <2>6, <2>8, <2>9 DEF Sequence!Rearrange
  <2> QED BY <2>6, <2>10 DEF DequeKept, Sequence!Next
<1>4. CASE ~(i < n)
  <2>1. Stay("set", <<i, v>>, FALSE)
    BY <1>1, <1>2, <1>4 DEF deque_set
  <2>2. /\ DequeAt(c, s)' /\ Sequence!op = "set" /\ Sequence!arg = <<i, v>> /\ Sequence!Looks(FALSE)
        /\ UNCHANGED store.capacity
    BY <2>1, DequeLooks
  <2>3. Sequence!arg[1] = i
    BY <2>2
  <2>4. ~(Sequence!arg[1] < Len(Items))
    BY <1>1, <1>2, <1>4, <2>3
  <2>5. Sequence!Rearrange
    BY <2>2, <2>4 DEF Sequence!Rearrange
  <2> QED BY <2>2, <2>5 DEF DequeKept, Sequence!Next
<1> QED BY <1>3, <1>4

(* A call that removes the item at x. *)
LEMMA DequeRemoves ==
  ASSUME NEW c, NEW s, DequeAt(c, s), NEW x \in 0 .. Len(s) - 1, store' = DequeRemoved(store, x),
         NEW o, NEW a, NEW answer, Answer(o, a, answer)
  PROVE  /\ \E t : DequeAt(c, t)'
         /\ Sequence!op = o /\ Sequence!arg = a /\ Sequence!Does(answer, Sequence!RemoveAt(Items, x + 1))
         /\ UNCHANGED store.capacity
<1>1. c \in Nat /\ s \in Seq(Values) /\ store \in DequeWith(c, s) /\ Items = s
  BY DequeView
<1>2. PICK n \in Nat : n = Len(s)
  BY <1>1, LenProperties
<1>3. PICK t : t = Sequence!RemoveAt(s, x + 1)
  OBVIOUS
<1>4. t \in Seq(Values)
  <2>1. IsRemoved(Values, t, s, x, n)
    BY <1>1, <1>2, <1>3, RemoveAtIs
  <2> QED BY <2>1 DEF IsRemoved
<1>5. store' \in DequeWith(c, t)
  BY <1>1, <1>3, DequeRemoveIs
<1>6. DequeAt(c, t)' /\ Sequence!op = o /\ Sequence!arg = a /\ Sequence!Does(answer, t) /\ UNCHANGED store.capacity
  BY <1>4, <1>5, DequeDoes
<1> QED BY <1>1, <1>3, <1>6

(* deque_remove_at removes one item, or refuses an index beyond the last. *)
LEMMA DequeRemoveAt ==
  ASSUME NEW c, NEW s, DequeAt(c, s), NEW i \in Nat, deque_remove_at(i)
  PROVE  DequeKept(c)
<1>1. s \in Seq(Values) /\ store.length = Len(s) /\ Items = s
  BY DequeView
<1>2. PICK n \in Nat : n = Len(s)
  BY <1>1, LenProperties
<1>3. CASE i < n
  <2>1. i \in 0 .. n - 1
    BY <1>3
  <2>2. store' = DequeRemoved(store, i) /\ Answer("removeAt", i, TRUE)
    BY <1>1, <1>2, <1>3 DEF deque_remove_at
  <2>3. /\ \E t : DequeAt(c, t)'
        /\ Sequence!op = "removeAt" /\ Sequence!arg = i /\ Sequence!Does(TRUE, Sequence!RemoveAt(Items, i + 1))
        /\ UNCHANGED store.capacity
    BY <1>2, <2>1, <2>2, DequeRemoves
  <2>4. Sequence!arg < Len(Items) /\ Sequence!Does(TRUE, Sequence!RemoveAt(Items, Sequence!arg + 1))
    BY <1>1, <1>2, <1>3, <2>3
  <2>5. Sequence!RemoveItems
    BY <2>3, <2>4 DEF Sequence!RemoveItems
  <2> QED BY <2>3, <2>5 DEF DequeKept, Sequence!Next
<1>4. CASE ~(i < n)
  <2>1. Stay("removeAt", i, FALSE)
    BY <1>1, <1>2, <1>4 DEF deque_remove_at
  <2>2. /\ DequeAt(c, s)' /\ Sequence!op = "removeAt" /\ Sequence!arg = i /\ Sequence!Looks(FALSE)
        /\ UNCHANGED store.capacity
    BY <2>1, DequeLooks
  <2>3. ~(Sequence!arg < Len(Items))
    BY <1>1, <1>2, <1>4, <2>2
  <2>4. Sequence!RemoveItems
    BY <2>2, <2>3 DEF Sequence!RemoveItems
  <2> QED BY <2>2, <2>4 DEF DequeKept, Sequence!Next
<1> QED BY <1>3, <1>4

(* Where v is in storage, and where it is in the sequence. *)
LEMMA DequeIndicesAre ==
  ASSUME NEW c \in Nat, NEW s, store \in DequeWith(c, s), NEW n \in Nat, n = Len(s), NEW v
  PROVE  DequeIndices(v) = {i \in 0 .. n - 1 : s[i + 1] = v}
<1>1. store.length = n
  BY DequeOut, DequeFields
<1>2. \A i \in 0 .. n - 1 : DequeRef(store, i) = s[i + 1]
  BY DequeRefIs
<1> QED BY <1>1, <1>2 DEF DequeIndices, Slots

(* The least of the indices of v is the first v, ... *)
LEMMA DequeFirstIs ==
  ASSUME NEW s, NEW n \in Nat, NEW v, NEW S, S = {i \in 0 .. n - 1 : s[i + 1] = v}, S # {},
         NEW x, x = CHOOSE i \in S : \A j \in S : i <= j
  PROVE  IsFirst(s, n, v, x)
<1>1. S \in SUBSET Nat
  OBVIOUS
<1>2. \E i \in S : \A j \in S : i <= j
  BY <1>1, LeastOf
<1>3. x \in S /\ \A j \in S : x <= j
  BY <1>2
<1> QED BY <1>3 DEF IsFirst

(* ... the largest the last. *)
LEMMA DequeLastIs ==
  ASSUME NEW s, NEW n \in Nat, NEW v, NEW S, S = {i \in 0 .. n - 1 : s[i + 1] = v}, S # {},
         NEW x, x = CHOOSE i \in S : \A j \in S : i >= j
  PROVE  IsLast(s, n, v, x)
<1>1. PICK T : T = {n - 1 - i : i \in S}
  OBVIOUS
<1>2. T \in SUBSET Nat /\ T # {}
  BY <1>1
<1>3. PICK k \in T : \A j \in T : k <= j
  BY <1>2, LeastOf
<1>4. PICK i \in S : k = n - 1 - i
  BY <1>1, <1>3
<1>5. \A j \in S : i >= j
  <2> SUFFICES ASSUME NEW j \in S PROVE i >= j
    OBVIOUS
  <2>1. n - 1 - j \in T
    BY <1>1
  <2>2. n - 1 - i <= n - 1 - j
    BY <1>3, <1>4, <2>1
  <2>3. i \in Int /\ j \in Int
    OBVIOUS
  <2> QED BY <2>2, <2>3
<1>6. x \in S /\ \A j \in S : x >= j
  BY <1>5
<1> QED BY <1>6 DEF IsLast

(* deque_remove_first and deque_remove_last remove one v, or refuse a      *)
(* value that is not there.                                                *)
LEMMA DequeRemoveValue ==
  ASSUME NEW c, NEW s, DequeAt(c, s), NEW v \in Values, deque_remove_first(v) \/ deque_remove_last(v)
  PROVE  DequeKept(c)
<1>1. c \in Nat /\ s \in Seq(Values) /\ store \in DequeWith(c, s) /\ store.length = Len(s) /\ Items = s
  BY DequeView
<1>2. PICK n \in Nat : n = Len(s)
  BY <1>1, LenProperties
<1>3. PICK S : S = DequeIndices(v)
  OBVIOUS
<1>4. S = {i \in 0 .. n - 1 : s[i + 1] = v}
  BY <1>1, <1>2, <1>3, DequeIndicesAre
<1>5. v \in Sequence!ToSet(s) <=> \E i \in 1 .. n : s[i] = v
  BY <1>1, <1>2, InSequence
<1>6. CASE S # {}
  <2>1. v \in Sequence!ToSet(s)
    <3>1. PICK i \in 0 .. n - 1 : s[i + 1] = v
      BY <1>4, <1>6
    <3>2. i + 1 \in 1 .. n
      OBVIOUS
    <3> QED BY <1>5, <3>1, <3>2
  <2>2. CASE deque_remove_first(v)
    <3>1. PICK x : x = CHOOSE i \in S : \A j \in S : i <= j
      OBVIOUS
    <3>2. store' = DequeRemoved(store, x) /\ Answer("removeFirst", v, TRUE)
      BY <1>3, <1>6, <2>2, <3>1 DEF deque_remove_first
    <3>3. IsFirst(s, n, v, x)
      BY <1>4, <1>6, <3>1, DequeFirstIs
    <3>4. x \in 0 .. n - 1
      BY <3>3 DEF IsFirst
    <3>5. /\ \E t : DequeAt(c, t)'
          /\ Sequence!op = "removeFirst" /\ Sequence!arg = v /\ Sequence!Does(TRUE, Sequence!RemoveAt(Items, x + 1))
          /\ UNCHANGED store.capacity
      BY <1>2, <3>2, <3>4, DequeRemoves
    <3>6. Sequence!RemoveFirst(s, v) = Sequence!RemoveAt(s, x + 1)
      BY <1>1, <1>2, <3>3, RemoveFirstIs
    <3>7. (Sequence!arg \in Sequence!ToSet(Items)) = TRUE
      BY <1>1, <2>1, <3>5
    <3>8. Sequence!Does(Sequence!arg \in Sequence!ToSet(Items), Sequence!RemoveFirst(Items, Sequence!arg))
      BY <1>1, <3>5, <3>6, <3>7
    <3>9. Sequence!RemoveItems
      BY <3>5, <3>8 DEF Sequence!RemoveItems
    <3> QED BY <3>5, <3>9 DEF DequeKept, Sequence!Next
  <2>3. CASE deque_remove_last(v)
    <3>1. PICK x : x = CHOOSE i \in S : \A j \in S : i >= j
      OBVIOUS
    <3>2. store' = DequeRemoved(store, x) /\ Answer("removeLast", v, TRUE)
      BY <1>3, <1>6, <2>3, <3>1 DEF deque_remove_last
    <3>3. IsLast(s, n, v, x)
      BY <1>4, <1>6, <3>1, DequeLastIs
    <3>4. x \in 0 .. n - 1
      BY <3>3 DEF IsLast
    <3>5. /\ \E t : DequeAt(c, t)'
          /\ Sequence!op = "removeLast" /\ Sequence!arg = v /\ Sequence!Does(TRUE, Sequence!RemoveAt(Items, x + 1))
          /\ UNCHANGED store.capacity
      BY <1>2, <3>2, <3>4, DequeRemoves
    <3>6. Sequence!Reverse(Sequence!RemoveFirst(Sequence!Reverse(s), v)) = Sequence!RemoveAt(s, x + 1)
      BY <1>1, <1>2, <3>3, RemoveLastIs
    <3>7. (Sequence!arg \in Sequence!ToSet(Items)) = TRUE
      BY <1>1, <2>1, <3>5
    <3>8. Sequence!Does(Sequence!arg \in Sequence!ToSet(Items),
                        Sequence!Reverse(Sequence!RemoveFirst(Sequence!Reverse(Items), Sequence!arg)))
      BY <1>1, <3>5, <3>6, <3>7
    <3>9. Sequence!RemoveItems
      BY <3>5, <3>8 DEF Sequence!RemoveItems
    <3> QED BY <3>5, <3>9 DEF DequeKept, Sequence!Next
  <2> QED BY <2>2, <2>3
<1>7. CASE S = {}
  <2>1. Stay("removeFirst", v, FALSE) \/ Stay("removeLast", v, FALSE)
    BY <1>3, <1>7 DEF deque_remove_first, deque_remove_last
  <2>2. \A i \in 1 .. n : s[i] # v
    <3> SUFFICES ASSUME NEW i \in 1 .. n, s[i] = v PROVE FALSE
      OBVIOUS
    <3>1. i - 1 \in 0 .. n - 1 /\ (i - 1) + 1 = i
      OBVIOUS
    <3> QED BY <1>4, <1>7, <3>1
  <2>3. /\ DequeAt(c, s)' /\ (Sequence!op = "removeFirst" \/ Sequence!op = "removeLast") /\ Sequence!arg = v
        /\ Sequence!Does(FALSE, s) /\ UNCHANGED store.capacity
    BY <2>1, DequeLooks
  <2>4. Sequence!RemoveFirst(s, v) = s /\ Sequence!Reverse(Sequence!RemoveFirst(Sequence!Reverse(s), v)) = s
    BY <1>1, <1>2, <2>2, RemoveNone
  <2>5. (Sequence!arg \in Sequence!ToSet(Items)) = FALSE
    BY <1>1, <1>5, <2>2, <2>3
  <2>6. /\ Sequence!Does(Sequence!arg \in Sequence!ToSet(Items), Sequence!RemoveFirst(Items, Sequence!arg))
        /\ Sequence!Does(Sequence!arg \in Sequence!ToSet(Items),
                         Sequence!Reverse(Sequence!RemoveFirst(Sequence!Reverse(Items), Sequence!arg)))
    BY <1>1, <2>3, <2>4, <2>5
  <2>7. Sequence!RemoveItems
    BY <2>3, <2>6 DEF Sequence!RemoveItems
  <2> QED BY <2>3, <2>7 DEF DequeKept, Sequence!Next
<1> QED BY <1>6, <1>7

-----------------------------------------------------------------------------
(* The deque, and all three of the sequences. *)

(* A new deque holds no item. *)
LEMMA DequeStarts ==
  ASSUME DequeInit
  PROVE  \E c : DequeAt(c, <<>>)
<1>1. PICK n \in Capacities : store = [data |-> [s \in Slots(n) |-> Junk], capacity |-> n, length |-> 0, head |-> 0]
  BY DEF DequeInit
<1>2. PICK d : d = [s \in Slots(n) |-> Junk]
  OBVIOUS
<1>3. d \in Storages(Anything, n)
  BY <1>2 DEF Storages, Anything
<1>4. n \in Nat /\ 0 \in Heads(n) /\ 0 \in 0 .. n
  BY ContainerAssumption DEF Heads, Slots
<1>5. store = DequeOf(d, 0, n, 0)
  BY <1>1, <1>2 DEF DequeOf
<1>6. store \in DequeWith(n, <<>>)
  BY <1>3, <1>4, <1>5, DequeIn, CircleNone
<1>7. <<>> \in Seq(Values)
  BY EmptySeq
<1> QED BY <1>6, <1>7 DEF DequeAt, DequeInit

(* Every call of a deque is the same call of a bounded sequence. *)
LEMMA DequeStep ==
  ASSUME NEW c, NEW s, DequeAt(c, s), DequeNext
  PROVE  DequeKept(c)
<1>1. ASSUME NEW v \in Values,
             \/ deque_push_back(v) \/ deque_push_front(v) \/ deque_remove_first(v) \/ deque_remove_last(v)
             \/ \E i \in Counts : deque_set(i, v)
      PROVE  DequeKept(c)
  BY <1>1, CountsAreNumbers, DequePush, DequeRemoveValue, DequeSet
<1>2. ASSUME NEW v \in Values, NEW w \in Values, deque_push_back_many(<<v, w>>) \/ deque_push_front_many(<<v, w>>)
      PROVE  DequeKept(c)
  <2>0. <<v, w>> \in Seq(Values)
    OBVIOUS
  <2>1. PICK vs \in Seq(Values) : vs = <<v, w>>
    BY <2>0
  <2>2. deque_push_back_many(vs) \/ deque_push_front_many(vs)
    BY <1>2, <2>1
  <2> QED BY <2>2, DequePushMany
<1>3. ASSUME NEW n \in Counts,
             \/ deque_drop_front(n) \/ deque_drop_back(n) \/ deque_truncate(n) \/ deque_remove_at(n)
             \/ deque_rotate_left(n) \/ deque_rotate_right(n) \/ \E m \in Counts : deque_swap(n, m)
      PROVE  DequeKept(c)
  <2>1. n \in Nat /\ Counts \subseteq Nat
    BY CountsAreNumbers
  <2>2. CASE deque_drop_front(n) \/ deque_drop_back(n) \/ deque_truncate(n) \/ deque_remove_at(n)
    BY <2>1, <2>2, DequeDropFront, DequeTruncate, DequeRemoveAt
  <2>3. CASE deque_rotate_left(n) \/ deque_rotate_right(n)
    BY <2>1, <2>3, DequeRotateLeft, DequeRotateRight
  <2>4. CASE \E m \in Counts : deque_swap(n, m)
    BY <2>1, <2>4, DequeSwap
  <2> QED BY <1>3, <2>2, <2>3, <2>4
<1>4. CASE deque_pop_front_or \/ deque_pop_back_or \/ deque_clear \/ deque_reverse
  BY <1>4, DequePopFront, DequePopBack, DequeClear, DequeReverse
<1> QED BY <1>1, <1>2, <1>3, <1>4 DEF DequeNext

(* A deque holds a sequence of values, no longer than its capacity. *)
DequeInv == object = "deque" => \E c, s : DequeAt(c, s)

(* A new container satisfies it, ... *)
LEMMA DequeInvInit == Init => DequeInv
BY DequeStarts DEF Init, DequeInv, RingInit, DequeInit, ChannelInit, PoolInit, CacheInit, HeapInit, PqInit

(* ... every call keeps it, and is a call of a bounded sequence. *)
LEMMA DequeInvStep ==
  ASSUME DequeInv, [Next]_vars
  PROVE  DequeInv' /\ (object = "deque" => vars' = vars \/ Sequence!Next)
<1>1. CASE UNCHANGED vars
  <2>1. ASSUME object' = "deque"
        PROVE  \E c, s : DequeAt(c, s)'
    <3>1. object = "deque" /\ object' = object /\ store' = store
      BY <1>1, <2>1 DEF vars
    <3>2. PICK c, s : DequeAt(c, s)
      BY <3>1 DEF DequeInv
    <3>3. DequeAt(c, s)'
      BY <3>1, <3>2 DEF DequeAt
    <3> QED BY <3>3
  <2> QED BY <1>1, <2>1 DEF DequeInv
<1>2. CASE Next
  <2>1. CASE object = "deque"
    <3>1. PICK c, s : DequeAt(c, s)
      BY <2>1 DEF DequeInv
    <3>2. DequeNext
      BY <1>2, <2>1 DEF Next, RingNext, ChannelNext, PoolNext, CacheNext, HeapNext, PqNext
    <3>3. Sequence!Next /\ \E t : DequeAt(c, t)'
      BY <3>1, <3>2, DequeStep DEF DequeKept
    <3> QED BY <3>3 DEF DequeInv
  <2>2. CASE object # "deque"
    <3>1. object' # "deque"
      BY <1>2, <2>2, KindsStay
    <3> QED BY <2>2, <3>1 DEF DequeInv
  <2> QED BY <2>1, <2>2
<1> QED BY <1>1, <1>2

(* A deque always holds a sequence of values. *)
LEMMA DequeAlwaysKept == Spec => []DequeInv
<1>1. Init => DequeInv
  BY DequeInvInit
<1>2. DequeInv /\ [Next]_vars => DequeInv'
  BY DequeInvStep
<1> QED BY <1>1, <1>2, PTL DEF Spec

(* Whatever its capacity, a deque behaves as a bounded sequence:           *)
(* deque_push_back, deque_push_front and the other sixteen calls change    *)
(* its items, and answer, as the call of that name on a sequence does,     *)
(* wherever the head stands and the items wrap.                            *)
THEOREM DequeKeepsItsSequence == Spec => [][object = "deque" => Sequence!Next]_vars
<1>1. DequeInv /\ [Next]_vars => [object = "deque" => Sequence!Next]_vars
  BY DequeInvStep
<1> QED BY <1>1, DequeAlwaysKept, PTL DEF Spec

(* The head and the length of a deque stay in range and none of its items  *)
(* is what an earlier owner left in the storage (deque_invariant): the     *)
(* parts of DequeTypeOK, whatever the capacity.                            *)
THEOREM DequeInvariantAlways == Spec => [](object = "deque" => DequeTypeOK)
<1>1. ASSUME NEW c, NEW s, DequeAt(c, s)
      PROVE  DequeTypeOK
  <2>1. /\ c \in Capacities /\ c \in Nat /\ s \in Seq(Values) /\ store \in DequeWith(c, s) /\ store.length = Len(s)
        /\ DequeItems(store) = s
    BY <1>1, DequeView DEF DequeAt, DequeWith
  <2>2. PICK d \in Storages(Anything, c), h \in Heads(c), n \in 0 .. c : store = DequeOf(d, h, c, n)
    BY <2>1, DequeOut
  <2>3. store.data = d /\ store.capacity = c /\ store.length = n /\ store.head = h
    BY <2>2, DequeFields
  <2>4. Junk \notin {DequeItems(store)[i] : i \in 1 .. store.length}
    <3>1. \A i \in 1 .. Len(s) : s[i] \in Values
      BY <2>1, ElementOfSeq
    <3> QED BY <2>1, <3>1, ContainerAssumption
  <2>5. store.data \in [Slots(store.capacity) -> Values \cup {Junk}]
    BY <2>3 DEF Storages, Anything
  <2>6. store.head \in IF store.capacity = 0 THEN {0} ELSE Slots(store.capacity)
    BY <2>3 DEF Heads
  <2> QED BY <2>1, <2>2, <2>3, <2>4, <2>5, <2>6 DEF DequeTypeOK
<1>2. DequeInv => (object = "deque" => DequeTypeOK)
  BY <1>1 DEF DequeInv
<1> QED BY <1>2, DequeAlwaysKept, PTL

(* SequencesKept as it stands: a ring, a deque and a channel answer and    *)
(* change as a bounded sequence does, and the counters of a channel tell   *)
(* what went through it (channel_try_send, channel_try_receive). A ring    *)
(* and a deque count nothing: the counters are those of the channel.       *)
THEOREM SequencesKeptAlways == Spec => SequencesKept
<1>1. /\ RingInv /\ DequeInv /\ ChannelInv /\ [Next]_vars
      => [(object \in {"ring", "deque", "channel"}) => Sequence!Next /\ Delivers]_vars
  <2> SUFFICES ASSUME RingInv, DequeInv, ChannelInv, [Next]_vars, object \in {"ring", "deque", "channel"}, vars' # vars
               PROVE  Sequence!Next /\ Delivers
    OBVIOUS
  <2>1. CASE object = "ring"
    BY <2>1, RingInvStep DEF Delivers
  <2>2. CASE object = "deque"
    BY <2>2, DequeInvStep DEF Delivers
  <2>3. CASE object = "channel"
    BY <2>3, ChannelInvStep
  <2> QED BY <2>1, <2>2, <2>3
<1> QED BY <1>1, RingAlwaysKept, DequeAlwaysKept, ChannelAlwaysKept, PTL DEF Spec, SequencesKept
=============================================================================
