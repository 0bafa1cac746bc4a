------------------------------ MODULE Containers ------------------------------
(***************************************************************************)
(* The containers of Lib/std side by side, and what each of them promises. *)
(***************************************************************************)
EXTENDS Ring, Deque, Channel, Pool, LruCache, BinaryHeap

Init == RingInit \/ DequeInit \/ ChannelInit \/ PoolInit \/ CacheInit \/ HeapInit \/ PqInit

Next == RingNext \/ DequeNext \/ ChannelNext \/ PoolNext \/ CacheNext \/ HeapNext \/ PqNext

Spec == Init /\ [][Next]_vars

(* The last call is told to the caller and read by no function: two states *)
(* that differ in it alone behave alike.                                   *)
WithoutCall == <<object, store>>

(* Each container satisfies its own invariant function, reads nothing it   *)
(* did not write, and stays within its storage.                            *)
TypeOK ==
  CASE object = "ring" -> RingTypeOK
    [] object = "deque" -> DequeTypeOK
    [] object = "channel" -> ChannelTypeOK
    [] object = "pool" -> PoolTypeOK
    [] object = "cache" -> CacheTypeOK
    [] object = "heap" -> HeapTypeOK
    [] object = "priorityQueue" -> PqTypeOK

Items ==
  CASE object = "ring" -> RingItems(store)
    [] object = "deque" -> DequeItems(store)
    [] object = "channel" -> ChannelItems(store)

Sequence == INSTANCE BoundedSequence WITH
  items <- Items, capacity <- store.capacity, closed <- object = "channel" /\ store.closed

(* A channel counts every value that is sent or received, and loses none   *)
(* except in the calls that drop values.                                   *)
Delivers ==
  object = "channel" /\ call'[1] \notin {"clear", "dropFirst", "keepLast", "reset"}
    => ChannelDropCount(store') = ChannelDropCount(store)

(* Whatever a ring, a deque or a channel went through, with its head       *)
(* anywhere in its storage, each call answers and changes it as the same   *)
(* call does a plain bounded sequence: none loses, duplicates or reorders  *)
(* an item, and the channel's counters account for all of its values.      *)
SequencesKept ==
  [][(object \in {"ring", "deque", "channel"}) => Sequence!Next /\ Delivers]_vars

(* A pool's handle opens a slot as long as the object it was given out for *)
(* is there, and never one that was given out again, in pool_acquire,      *)
(* pool_release, pool_release_index and pool_release_all.                  *)
HandlesStayTrue == object = "pool" => PoolHandlesTrue

Lru == INSTANCE LruMap WITH entries <- CacheEntries(store), capacity <- store.capacity

(* The cache answers as a map does that drops the entry used longest ago,  *)
(* over every rebase of its ages by cache_rebase_ages.                     *)
EvictsLeastRecent == [][object = "cache" => Lru!LruNext]_vars

(* How often each number is in the heap. *)
HeapBag(s) == [n \in Range(s) |-> Cardinality({i \in DOMAIN s : s[i] = n})]

Waiting ==
  CASE object = "heap" -> HeapBag(store.items)
    [] object = "priorityQueue" -> Arrivals(store)

Service == INSTANCE OrderedWaiting WITH
  waiting <- Waiting, capacity <- store.capacity, least <- store.least

(* The heap gives its numbers out in order and the priority queue its      *)
(* entries by priority and, among equals, by arrival; neither loses or     *)
(* duplicates one, wherever in the tree one is removed or changed.         *)
ServedInOrder ==
  [][(object = "heap" => Service!BagNext) /\ (object = "priorityQueue" => Service!QueueNext)]_vars
=============================================================================
