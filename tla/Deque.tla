-------------------------------- MODULE Deque --------------------------------
(***************************************************************************)
(* Lib/std/deque.nqr: a sequence that grows and shrinks at both ends of a  *)
(* circular buffer, and can be turned and edited in place.                 *)
(***************************************************************************)
EXTENDS ContainerSystem

DequeInit ==
  /\ object = "deque"
  /\ \E n \in Capacities : store = [data |-> [s \in Slots(n) |-> Junk], capacity |-> n, length |-> 0, head |-> 0]
  /\ call = <<"init", 0, 0>>

DequeSlot(d, i) == (d.head + i) % d.capacity
DequeRef(d, i) == d.data[DequeSlot(d, i)]
DequeItems(d) == [i \in 1 .. d.length |-> DequeRef(d, i - 1)]
Before(d, slot) == IF slot = 0 THEN d.capacity - 1 ELSE slot - 1

DequePushedBack(d, v) == [d EXCEPT !.data[DequeSlot(d, d.length)] = v, !.length = @ + 1]
DequePushedFront(d, v) ==
  [d EXCEPT !.head = Before(d, d.head), !.data[Before(d, d.head)] = v, !.length = @ + 1]

(* The loops of deque_push_back_many and deque_push_front_many.            *)
DequePushedBackAll(d, vs, n) == Loop(LAMBDA e, i : DequePushedBack(e, vs[i]), d, n)
DequePushedFrontAll(d, vs, n) == Loop(LAMBDA e, i : DequePushedFront(e, vs[i]), d, n)

deque_push_back(v) ==
  IF store.length < store.capacity
  THEN store' = DequePushedBack(store, v) /\ Answer("append", v, TRUE)
  ELSE Stay("append", v, FALSE)

deque_push_front(v) ==
  IF store.length < store.capacity
  THEN store' = DequePushedFront(store, v) /\ Answer("prepend", v, TRUE)
  ELSE Stay("prepend", v, FALSE)

deque_push_back_many(vs) ==
  LET n == Smaller(Len(vs), store.capacity - store.length)
  IN  store' = DequePushedBackAll(store, vs, n) /\ Answer("appendAll", vs, n)

deque_push_front_many(vs) ==
  LET n == Smaller(Len(vs), store.capacity - store.length)
  IN  store' = DequePushedFrontAll(store, vs, n) /\ Answer("prependAll", vs, n)

deque_pop_front_or ==
  IF store.length = 0 THEN Stay("takeFirst", 0, <<>>)
  ELSE /\ store' = [store EXCEPT !.length = @ - 1, !.head = IF store.length = 1 THEN 0 ELSE DequeSlot(store, 1)]
       /\ Answer("takeFirst", 0, <<store.data[store.head]>>)

(* What remains is n items long; an empty deque starts again at slot 0. *)
DequeCut(d, n) == [d EXCEPT !.length = n, !.head = IF n = 0 THEN 0 ELSE @]

deque_pop_back_or ==
  IF store.length = 0 THEN Stay("takeLast", 0, <<>>)
  ELSE /\ store' = DequeCut(store, store.length - 1)
       /\ Answer("takeLast", 0, <<DequeRef(store, store.length - 1)>>)

deque_clear == store' = DequeCut(store, 0) /\ Answer("clear", 0, TRUE)

deque_drop_front(n) ==
  IF n > store.length THEN Stay("dropFirstExactly", n, FALSE)
  ELSE /\ store' = IF n = store.length THEN DequeCut(store, 0)
                   ELSE [store EXCEPT !.head = DequeSlot(store, n), !.length = @ - n]
       /\ Answer("dropFirstExactly", n, TRUE)

deque_drop_back(n) ==
  IF n > store.length THEN Stay("dropLastExactly", n, FALSE)
  ELSE store' = DequeCut(store, store.length - n) /\ Answer("dropLastExactly", n, TRUE)

deque_truncate(n) ==
  IF n > store.length THEN Stay("truncate", n, FALSE)
  ELSE store' = DequeCut(store, n) /\ Answer("truncate", n, TRUE)

(* One turn moves the first item behind the last, or the last before the   *)
(* first; in a deque that is not full both slots are free ones.            *)
DequeTurnedLeft(d) ==
  LET moved == [d EXCEPT !.head = DequeSlot(d, 1)]
  IN  [moved EXCEPT !.data[DequeSlot(moved, d.length - 1)] = d.data[d.head]]

DequeTurnedRight(d) ==
  [d EXCEPT !.head = Before(d, d.head), !.data[Before(d, d.head)] = DequeRef(d, d.length - 1)]

deque_rotate_left(n) ==
  /\ store' = IF store.length <= 1 THEN store ELSE Iterate(DequeTurnedLeft, store, n % store.length)
  /\ Answer("rotateLeft", n, TRUE)

deque_rotate_right(n) ==
  /\ store' = IF store.length <= 1 THEN store ELSE Iterate(DequeTurnedRight, store, n % store.length)
  /\ Answer("rotateRight", n, TRUE)

DequeSwapped(d, i, j) ==
  [d EXCEPT !.data[DequeSlot(d, i)] = DequeRef(d, j), !.data[DequeSlot(d, j)] = DequeRef(d, i)]

deque_swap(i, j) ==
  IF i < store.length /\ j < store.length
  THEN store' = DequeSwapped(store, i, j) /\ Answer("swap", <<i, j>>, TRUE)
  ELSE Stay("swap", <<i, j>>, FALSE)

(* The first n items change places with the last n. *)
DequeEndsSwapped(d, n) == Loop(LAMBDA e, i : DequeSwapped(e, i - 1, e.length - i), d, n)

deque_reverse == store' = DequeEndsSwapped(store, store.length \div 2) /\ Answer("reverse", 0, TRUE)

deque_set(i, v) ==
  IF i < store.length
  THEN store' = [store EXCEPT !.data[DequeSlot(store, i)] = v] /\ Answer("set", <<i, v>>, TRUE)
  ELSE Stay("set", <<i, v>>, FALSE)

(* Mutant: the items before the removed one stay where they are. *)
DequeRemovedHead(d, index) ==
  IF index < d.length \div 2
  THEN [d EXCEPT !.head = DequeSlot(d, 1), !.length = @ - 1]
  ELSE DequeCut(d, d.length - 1)

(* The shorter side closes the gap: the items before index move up by one, *)
(* from the last to the first, or those behind it move down.               *)
DequeMoved(d, from, to) == [d EXCEPT !.data[DequeSlot(d, to)] = DequeRef(d, from)]
DequeMovedUp(d, index, n) == Loop(LAMBDA e, i : DequeMoved(e, index - i, index - i + 1), d, n)
DequeMovedDown(d, index, n) == Loop(LAMBDA e, i : DequeMoved(e, index + i, index + i - 1), d, n)

DequeRemoved(d, index) ==
  IF index < d.length \div 2
  THEN LET moved == DequeMovedUp(d, index, index)
       IN  [moved EXCEPT !.head = DequeSlot(moved, 1), !.length = @ - 1]
  ELSE DequeCut(DequeMovedDown(d, index, d.length - 1 - index), d.length - 1)

deque_remove_at(i) ==
  IF i < store.length
  THEN store' = DequeRemoved(store, i) /\ Answer("removeAt", i, TRUE)
  ELSE Stay("removeAt", i, FALSE)

DequeIndices(v) == {i \in Slots(store.length) : DequeRef(store, i) = v}

deque_remove_first(v) ==
  IF DequeIndices(v) = {} THEN Stay("removeFirst", v, FALSE)
  ELSE /\ store' = DequeRemoved(store, CHOOSE i \in DequeIndices(v) : \A j \in DequeIndices(v) : i <= j)
       /\ Answer("removeFirst", v, TRUE)

deque_remove_last(v) ==
  IF DequeIndices(v) = {} THEN Stay("removeLast", v, FALSE)
  ELSE /\ store' = DequeRemoved(store, CHOOSE i \in DequeIndices(v) : \A j \in DequeIndices(v) : i >= j)
       /\ Answer("removeLast", v, TRUE)

DequeNext ==
  /\ object = "deque"
  /\ \/ \E v \in Values :
          \/ deque_push_back(v) \/ deque_push_front(v) \/ deque_remove_first(v) \/ deque_remove_last(v)
          \/ \E i \in Counts : deque_set(i, v)
     \/ \E v, w \in Values : deque_push_back_many(<<v, w>>) \/ deque_push_front_many(<<v, w>>)
     \/ \E n \in Counts :
          \/ deque_drop_front(n) \/ deque_drop_back(n) \/ deque_truncate(n) \/ deque_remove_at(n)
          \/ deque_rotate_left(n) \/ deque_rotate_right(n) \/ \E m \in Counts : deque_swap(n, m)
     \/ deque_pop_front_or \/ deque_pop_back_or \/ deque_clear \/ deque_reverse

(* deque_invariant, and no value is read before it was written.            *)
DequeTypeOK ==
  /\ store.capacity \in Capacities /\ store.length \in 0 .. store.capacity
  /\ store.head \in IF store.capacity = 0 THEN {0} ELSE Slots(store.capacity)
  /\ store.data \in [Slots(store.capacity) -> Values \cup {Junk}]
  /\ Junk \notin {DequeItems(store)[i] : i \in 1 .. store.length}
=============================================================================
