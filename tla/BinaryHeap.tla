------------------------------ MODULE BinaryHeap ------------------------------
(***************************************************************************)
(* Lib/std/heap.nqr: a binary heap of numbers over an array of fixed size; *)
(* what lies behind its length is never read and left out.  Slot i of the  *)
(* code is position i + 1 here.                                            *)
(*                                                                         *)
(* Lib/std/priority_queue.nqr: the same loops over parallel arrays that    *)
(* are always written together, here one record per position; the value    *)
(* of an entry plays no part in its place.                                 *)
(***************************************************************************)
EXTENDS ContainerSystem

CONSTANT HeapCapacity \* how many numbers a heap, and how many entries a priority queue, may hold

ASSUME HeapAssumption == HeapCapacity \in Nat

HeapInit ==
  /\ object = "heap"
  /\ \E least \in BOOLEAN, n \in {0, HeapCapacity} : store = [items |-> <<>>, capacity |-> n, least |-> least]
  /\ call = <<"init", 0, 0>>

heap_precedes(left, right) == IF store.least THEN left < right ELSE left > right

(* Mutant: equal priorities are not told apart by their arrival. *)
PrecedesByPriority(e, f) == IF store.least THEN e.priority < f.priority ELSE e.priority > f.priority

priority_queue_precedes(e, f) ==
  IF e.priority = f.priority THEN e.sequence < f.sequence
  ELSE IF store.least THEN e.priority < f.priority ELSE e.priority > f.priority

(* Heap and priority queue have the same loops, each in its own order. *)
Precedes(e, f) == IF object = "heap" THEN heap_precedes(e, f) ELSE priority_queue_precedes(e, f)

heap_parent(i) == i \div 2
heap_left(i) == 2 * i
Swapped(s, i, j) == [s EXCEPT ![i] = s[j], ![j] = s[i]]

(* One round of heap_sift_up and of heap_sift_down on f, a sequence and    *)
(* the position the loop has come to, under the order Precedes; the loop   *)
(* stays where it ends, so that as many rounds as there are items run it.  *)
RoundUp(f) ==
  LET s == f.items
      i == f.at
  IN  IF i = 1 \/ ~Precedes(s[i], s[heap_parent(i)]) THEN f
      ELSE [items |-> Swapped(s, i, heap_parent(i)), at |-> heap_parent(i)]

BestChild(s, i) ==
  IF heap_left(i) + 1 <= Len(s) /\ Precedes(s[heap_left(i) + 1], s[heap_left(i)]) THEN heap_left(i) + 1
  ELSE heap_left(i)

RoundDown(f) ==
  LET s == f.items
      i == f.at
      best == BestChild(s, i)
  IN  IF heap_left(i) > Len(s) THEN f
      ELSE IF ~Precedes(s[best], s[i]) THEN f
      ELSE [items |-> Swapped(s, i, best), at |-> best]

SiftUp(s, i) == Iterate(RoundUp, [items |-> s, at |-> i], Len(s)).items
SiftDown(s, i) == Iterate(RoundDown, [items |-> s, at |-> i], Len(s)).items

(* How heap_remove_at and heap_update_at put a changed item in its place. *)
Resettled(s, i) ==
  IF i > 1 /\ Precedes(s[i], s[heap_parent(i)]) THEN SiftUp(s, i) ELSE SiftDown(s, i)

(* The last item takes the place of the one at i. *)
Removed(s, i) ==
  IF i = Len(s) THEN Front(s) ELSE Resettled([Front(s) EXCEPT ![i] = Last(s)], i)

heap_push(v) ==
  IF Len(store.items) = store.capacity THEN Stay("push", v, FALSE)
  ELSE /\ store' = [store EXCEPT !.items = SiftUp(Append(@, v), Len(@) + 1)]
       /\ Answer("push", v, TRUE)

(* heap_pop_or moves the last item to the root, heap_replace_root and      *)
(* heap_push_pop a new one.                                                *)
Popped(s) ==
  IF Len(s) = 1 THEN <<>> ELSE SiftDown([Front(s) EXCEPT ![1] = Last(s)], 1)

heap_pop_or ==
  IF store.items = <<>> THEN Stay("pop", 0, <<>>)
  ELSE store' = [store EXCEPT !.items = Popped(@)] /\ Answer("pop", 0, <<store.items[1]>>)

heap_replace_root(v) ==
  IF store.items = <<>> THEN Stay("replaceRoot", v, <<>>)
  ELSE /\ store' = [store EXCEPT !.items = SiftDown([@ EXCEPT ![1] = v], 1)]
       /\ Answer("replaceRoot", v, <<store.items[1]>>)

heap_push_pop(v) ==
  IF store.items = <<>> THEN Stay("pushPop", v, v)
  ELSE IF heap_precedes(v, store.items[1]) THEN Stay("pushPop", v, v)
  ELSE /\ store' = [store EXCEPT !.items = SiftDown([@ EXCEPT ![1] = v], 1)]
       /\ Answer("pushPop", v, store.items[1])

heap_remove_at(i) ==
  /\ i \in DOMAIN store.items
  /\ store' = [store EXCEPT !.items = Removed(@, i)]
  /\ Answer("remove", store.items[i], TRUE)

(* heap_remove_value of a value that is there is heap_remove_at. *)
heap_remove_absent(v) == v \notin ToSet(store.items) /\ Stay("remove", v, FALSE)

heap_update_at(i, v) ==
  /\ i \in DOMAIN store.items
  /\ store' = [store EXCEPT !.items = Resettled([@ EXCEPT ![i] = v], i)]
  /\ Answer("update", <<store.items[i], v>>, TRUE)

(* From the parent of the last item back to the root. *)
heap_build(vs) ==
  IF Len(vs) > store.capacity THEN Stay("build", vs, FALSE)
  ELSE LET last == heap_parent(Len(vs))
           Down(s, i) == SiftDown(s, last + 1 - i)
       IN  /\ store' = [store EXCEPT !.items = Loop(Down, vs, last)]
           /\ Answer("build", vs, TRUE)

Drained(s) ==
  Iterate(LAMBDA d : [out |-> Append(d.out, d.items[1]), items |-> Popped(d.items)],
          [out |-> <<>>, items |-> s], Len(s)).out

heap_drain_sorted_to ==
  store' = [store EXCEPT !.items = <<>>] /\ Answer("drain", 0, Drained(store.items))

heap_clear == store' = [store EXCEPT !.items = <<>>] /\ Answer("clear", 0, TRUE)

HeapNext ==
  /\ object = "heap"
  /\ \/ \E v \in Values : heap_push(v) \/ heap_replace_root(v) \/ heap_push_pop(v) \/ heap_remove_absent(v)
     \/ \E i \in 1 .. HeapCapacity : heap_remove_at(i) \/ \E v \in Values : heap_update_at(i, v)
     \/ \E u, v, w \in Values : heap_build(<<u, v, w, u, v>>)
     \/ heap_pop_or \/ heap_drain_sorted_to \/ heap_clear

(* heap_is_valid: no item precedes its parent.                             *)
IsHeap(s) == \A i \in 2 .. Len(s) : ~Precedes(s[i], s[heap_parent(i)])

HeapTypeOK ==
  /\ store.capacity \in {0, HeapCapacity} /\ store.least \in BOOLEAN
  /\ Len(store.items) <= store.capacity /\ ToSet(store.items) \subseteq Values
  /\ IsHeap(store.items)

-----------------------------------------------------------------------------
(* The priority queue: a heap of entries that remember when they came.     *)
PqInit ==
  /\ object = "priorityQueue"
  /\ \E least \in BOOLEAN, n \in {0, HeapCapacity} :
       store = [items |-> <<>>, capacity |-> n, least |-> least, next |-> 0]
  /\ call = <<"init", 0, 0>>

priority_queue_push(priority) ==
  IF Len(store.items) = store.capacity THEN Stay("push", priority, FALSE)
  ELSE /\ store.next < MaxSequence
       /\ store' = [store EXCEPT !.next = @ + 1,
                      !.items = SiftUp(Append(@, [priority |-> priority, sequence |-> store.next]), Len(@) + 1)]
       /\ Answer("push", priority, TRUE)

priority_queue_pop_or ==
  IF store.items = <<>> THEN Stay("pop", 0, <<>>)
  ELSE store' = [store EXCEPT !.items = Popped(@)] /\ Answer("pop", 0, <<store.items[1]>>)

priority_queue_front_priority ==
  Stay("front", 0, IF store.items = <<>> THEN <<>> ELSE <<store.items[1].priority>>)

(* Sequences start again at 0. *)
priority_queue_clear == store' = [store EXCEPT !.items = <<>>, !.next = 0] /\ Answer("clear", 0, TRUE)

priority_queue_remove_at(i) ==
  /\ i \in DOMAIN store.items
  /\ store' = [store EXCEPT !.items = Removed(@, i)]
  /\ Answer("remove", store.items[i], TRUE)

(* The entry keeps the sequence it came with. *)
priority_queue_update_priority_at(i, priority) ==
  /\ i \in DOMAIN store.items
  /\ store' = [store EXCEPT !.items =
                 Resettled([@ EXCEPT ![i].priority = priority], i)]
  /\ Answer("update", <<store.items[i], priority>>, TRUE)

priority_queue_drain_to ==
  store' = [store EXCEPT !.items = <<>>] /\ Answer("drain", 0, Drained(store.items))

PqNext ==
  /\ object = "priorityQueue"
  /\ \/ \E priority \in Stored :
          \/ priority_queue_push(priority)
          \/ \E i \in 1 .. HeapCapacity : priority_queue_update_priority_at(i, priority)
     \/ \E i \in 1 .. HeapCapacity : priority_queue_remove_at(i)
     \/ priority_queue_pop_or \/ priority_queue_front_priority \/ priority_queue_clear \/ priority_queue_drain_to

(* The entries in the order of their arrival. *)
Arrivals(q) == SortSeq(q.items, LAMBDA e, f : e.sequence < f.sequence)

PqTypeOK ==
  /\ store.capacity \in {0, HeapCapacity} /\ store.least \in BOOLEAN
  /\ store.next \in 0 .. MaxSequence /\ Len(store.items) <= store.capacity
  /\ ToSet(store.items) \subseteq [priority : Stored, sequence : Slots(store.next)]
  /\ IsHeap(store.items)
=============================================================================
