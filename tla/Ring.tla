-------------------------------- MODULE Ring --------------------------------
(***************************************************************************)
(* Lib/std/ring.nqr: a circular buffer that keeps the newest values.       *)
(***************************************************************************)
EXTENDS ContainerSystem

RingInit ==
  /\ object = "ring"
  /\ \E n \in Capacities :
       store = [data |-> [s \in Slots(n) |-> Junk], capacity |-> n, length |-> 0, head |-> 0, overwritten |-> 0]
  /\ call = <<"init", 0, 0>>

(* ring_physical_index; the tail slot is the one after the last item. *)
RingSlot(r, i) == (r.head + i) % r.capacity
RingItems(r) == [i \in 1 .. r.length |-> r.data[RingSlot(r, i - 1)]]

RingAppended(r, v) == [r EXCEPT !.data[RingSlot(r, r.length)] = v, !.length = @ + 1]

RingPushed(r, v) ==
  IF r.length < r.capacity THEN RingAppended(r, v)
  ELSE [r EXCEPT !.data[r.head] = v, !.head = RingSlot(r, 1), !.overwritten = (@ + 1) % Word]

(* The loops of ring_try_push_many and ring_push_many, over n values. *)
RingAppendedAll(r, vs, n) == Loop(LAMBDA q, i : RingAppended(q, vs[i]), r, n)
RingPushedAll(r, vs, n) == Loop(LAMBDA q, i : RingPushed(q, vs[i]), r, n)

ring_try_push(v) ==
  IF store.length < store.capacity
  THEN store' = RingAppended(store, v) /\ Answer("append", v, TRUE)
  ELSE Stay("append", v, FALSE)

ring_push(v) ==
  IF store.capacity > 0
  THEN store' = RingPushed(store, v) /\ Answer("appendDropping", v, TRUE)
  ELSE Stay("appendDropping", v, FALSE)

ring_try_push_many(vs) ==
  LET n == Smaller(Len(vs), store.capacity - store.length)
  IN  store' = RingAppendedAll(store, vs, n) /\ Answer("appendAll", vs, n)

ring_push_many(vs) ==
  IF store.capacity > 0
  THEN store' = RingPushedAll(store, vs, Len(vs)) /\ Answer("appendAllDropping", vs, Len(vs))
  ELSE Stay("appendAllDropping", vs, 0)

(* An empty ring starts again at slot 0. *)
RingDropped(r, n) ==
  [r EXCEPT !.length = @ - n, !.head = IF n = r.length THEN 0 ELSE RingSlot(r, n)]

ring_pop_oldest_or ==
  IF store.length = 0 THEN Stay("takeFirst", 0, <<>>)
  ELSE store' = RingDropped(store, 1) /\ Answer("takeFirst", 0, <<store.data[store.head]>>)

ring_pop_newest_or ==
  IF store.length = 0 THEN Stay("takeLast", 0, <<>>)
  ELSE /\ store' = [store EXCEPT !.length = @ - 1, !.head = IF store.length = 1 THEN 0 ELSE @]
       /\ Answer("takeLast", 0, <<store.data[RingSlot(store, store.length - 1)]>>)

ring_drop_oldest(n) ==
  LET removed == Smaller(n, store.length)
  IN  /\ store' = IF store.length = 0 THEN store ELSE RingDropped(store, removed)
      /\ Answer("dropFirst", n, removed)

ring_keep_newest(n) ==
  IF n >= store.length THEN Stay("keepLast", n, store.length)
  ELSE store' = RingDropped(store, store.length - n) /\ Answer("keepLast", n, n)

ring_clear ==
  store' = [store EXCEPT !.length = 0, !.head = 0] /\ Answer("clear", 0, TRUE)

ring_reset ==
  store' = [store EXCEPT !.length = 0, !.head = 0, !.overwritten = 0] /\ Answer("clear", 0, TRUE)

ring_set(i, v) ==
  IF i < store.length
  THEN store' = [store EXCEPT !.data[RingSlot(store, i)] = v] /\ Answer("set", <<i, v>>, TRUE)
  ELSE Stay("set", <<i, v>>, FALSE)

(* Only a full ring is turned, by moving its head alone. *)
ring_rotate_left(n) ==
  IF store.length = 0 THEN Stay("rotateFullLeft", n, TRUE)
  ELSE IF store.length # store.capacity THEN Stay("rotateFullLeft", n, FALSE)
  ELSE /\ store' = [store EXCEPT !.head = (@ + (n % store.length)) % store.capacity]
       /\ Answer("rotateFullLeft", n, TRUE)

ring_rotate_right(n) ==
  IF store.length = 0 THEN Stay("rotateFullRight", n, TRUE)
  ELSE IF store.length # store.capacity THEN Stay("rotateFullRight", n, FALSE)
  ELSE /\ store' = [store EXCEPT !.head = (@ + store.capacity - (n % store.length)) % store.capacity]
       /\ Answer("rotateFullRight", n, TRUE)

(* ring_rebase copies to scratch storage of n slots and back to slot 0. *)
ring_rebase(n) ==
  IF store.length > n THEN Stay("rebase", n, FALSE)
  ELSE /\ store' = [store EXCEPT !.head = 0, !.data =
                      [s \in DOMAIN @ |-> IF s < store.length THEN RingItems(store)[s + 1] ELSE @[s]]]
       /\ Answer("rebase", n, TRUE)

(* The two runs of slots that ring_contiguous_prefix_length and            *)
(* ring_contiguous_suffix_length report.                                   *)
RingPrefixLength(r) == IF r.length = 0 THEN 0 ELSE Smaller(r.length, r.capacity - r.head)
RingSuffixLength(r) ==
  IF r.length > 0 /\ r.head + r.length > r.capacity THEN r.length - RingPrefixLength(r) ELSE 0

ring_contiguous ==
  Stay("contents", 0, [i \in 1 .. RingPrefixLength(store) |-> store.data[store.head + i - 1]]
                      \o [i \in 1 .. RingSuffixLength(store) |-> store.data[i - 1]])

ring_copy_newest_into(n) ==
  LET start == store.length - Smaller(store.length, n)
  IN  Stay("lasts", n, [i \in 1 .. Smaller(store.length, n) |-> store.data[RingSlot(store, start + i - 1)]])

RingNext ==
  /\ object = "ring"
  /\ \/ \E v \in Values : ring_try_push(v) \/ ring_push(v) \/ \E i \in Counts : ring_set(i, v)
     \/ \E v, w \in Values : ring_try_push_many(<<v, w>>) \/ ring_push_many(<<v, w>>)
     \/ \E n \in Counts :
          \/ ring_drop_oldest(n) \/ ring_keep_newest(n) \/ ring_rotate_left(n) \/ ring_rotate_right(n)
          \/ ring_rebase(n) \/ ring_copy_newest_into(n)
     \/ ring_pop_oldest_or \/ ring_pop_newest_or \/ ring_clear \/ ring_reset \/ ring_contiguous

(* ring_invariant, and no value is read before it was written.             *)
RingTypeOK ==
  /\ store.capacity \in Capacities /\ store.length \in 0 .. store.capacity
  /\ store.head \in IF store.capacity = 0 THEN {0} ELSE Slots(store.capacity)
  /\ store.data \in [Slots(store.capacity) -> Values \cup {Junk}]
  /\ store.overwritten \in Slots(Word)
  /\ Junk \notin {RingItems(store)[i] : i \in 1 .. store.length}
=============================================================================
