------------------------------ MODULE LruCache ------------------------------
(***************************************************************************)
(* Lib/std/cache.nqr: a cache over parallel arrays, in which every use of  *)
(* a slot gives it a new age from a clock; ages are rebased when the clock *)
(* reaches its limit.                                                      *)
(***************************************************************************)
EXTENDS ContainerSystem

CacheInit ==
  /\ object = "cache"
  /\ \E n \in Capacities :
       store = [keys |-> [s \in Slots(n) |-> Junk], values |-> [s \in Slots(n) |-> Junk],
                ages |-> [s \in Slots(n) |-> 0], occupied |-> {}, capacity |-> n, length |-> 0, clock |-> 1]
  /\ call = <<"init", 0, 0>>

Least(S) == CHOOSE s \in S : \A t \in S : s <= t

CacheHolds(c, key) == {s \in c.occupied : c.keys[s] = key}
CacheFree(c) == Slots(c.capacity) \ c.occupied
cache_oldest_index(c) == Least({s \in c.occupied : \A t \in c.occupied : c.ages[s] <= c.ages[t]})

NewestAge(ages, occupied) == CHOOSE a \in {ages[s] : s \in occupied} : \A s \in occupied : ages[s] <= a

(* The ages of the occupied slots, so much less. *)
Aged(c, less) == [s \in DOMAIN c.ages |-> IF s \in c.occupied THEN c.ages[s] - less ELSE c.ages[s]]

(* Mutant: the oldest age becomes 0. *)
RebasedToZero(c) ==
  IF c.length = 0 THEN [c EXCEPT !.clock = 1]
  ELSE LET base == c.ages[cache_oldest_index(c)]
       IN  [c EXCEPT !.ages = Aged(c, base), !.clock = NewestAge(Aged(c, base), c.occupied) + 1]

cache_rebase_ages(c) ==
  IF c.length = 0 THEN [c EXCEPT !.clock = 1]
  ELSE LET base == c.ages[cache_oldest_index(c)]
       IN  [c EXCEPT !.ages = Aged(c, base - 1), !.clock = NewestAge(Aged(c, base - 1), c.occupied) + 1]

(* cache_touch_index with cache_next_age. *)
CacheTouched(c, s) ==
  LET ready == IF c.clock >= ClockLimit THEN cache_rebase_ages(c) ELSE c
  IN  [ready EXCEPT !.ages[s] = ready.clock, !.clock = @ + 1]

Ticking == store.clock < ClockEnd

cache_touch(key) ==
  IF CacheHolds(store, key) = {} THEN Stay("touch", key, FALSE)
  ELSE /\ Ticking
       /\ store' = CacheTouched(store, Least(CacheHolds(store, key))) /\ Answer("touch", key, TRUE)

cache_get_ref(key) ==
  IF CacheHolds(store, key) = {} THEN Stay("get", key, <<>>)
  ELSE LET index == Least(CacheHolds(store, key))
       IN  /\ Ticking
           /\ store' = CacheTouched(store, index) /\ Answer("get", key, <<store.values[index]>>)

cache_peek_ref(key) ==
  Stay("peek", key, IF CacheHolds(store, key) = {} THEN <<>> ELSE <<store.values[Least(CacheHolds(store, key))]>>)

(* Where cache_put stores a key it does not hold; the slot is occupied,    *)
(* under the age it had, before its new age is drawn.                      *)
CachePutAt(c, s, key, value) ==
  CacheTouched([c EXCEPT !.keys[s] = key, !.values[s] = value, !.occupied = @ \cup {s},
                         !.length = IF s \in c.occupied THEN @ ELSE @ + 1], s)

(* Mutant: a new value for a key is no use of it. *)
StoredUntouched(c, key, value) ==
  IF CacheHolds(c, key) # {} THEN [c EXCEPT !.values[Least(CacheHolds(c, key))] = value]
  ELSE CachePutAt(c, IF CacheFree(c) = {} THEN cache_oldest_index(c) ELSE Least(CacheFree(c)), key, value)

CacheStored(c, key, value) ==
  IF CacheHolds(c, key) # {}
  THEN LET s == Least(CacheHolds(c, key)) IN CacheTouched([c EXCEPT !.values[s] = value], s)
  ELSE CachePutAt(c, IF CacheFree(c) = {} THEN cache_oldest_index(c) ELSE Least(CacheFree(c)), key, value)

(* cache_put is the same without the answer about what was evicted. *)
cache_put_with_evicted(key, value) ==
  IF store.capacity = 0 THEN Stay("put", <<key, value>>, <<FALSE, <<>>>>)
  ELSE LET s == cache_oldest_index(store)
           evicts == CacheHolds(store, key) = {} /\ store.length >= store.capacity
       IN  /\ Ticking
           /\ store' = CacheStored(store, key, value)
           /\ Answer("put", <<key, value>>,
                     <<TRUE, IF evicts THEN <<<<store.keys[s], store.values[s]>>>> ELSE <<>>>>)

(* What a free slot still stores is never read, and forgotten here. *)
CacheRemoved(c, s) ==
  [c EXCEPT !.occupied = @ \ {s}, !.ages[s] = 0, !.length = @ - 1, !.keys[s] = Junk, !.values[s] = Junk]

cache_remove(key) ==
  IF CacheHolds(store, key) = {} THEN Stay("remove", key, FALSE)
  ELSE store' = CacheRemoved(store, Least(CacheHolds(store, key))) /\ Answer("remove", key, TRUE)

cache_remove_oldest ==
  IF store.length = 0 THEN Stay("removeOldest", 0, FALSE)
  ELSE store' = CacheRemoved(store, cache_oldest_index(store)) /\ Answer("removeOldest", 0, TRUE)

(* cache_rebase_ages is exported too. *)
CacheRebased == store' = cache_rebase_ages(store) /\ Answer("rebase", 0, TRUE)

cache_clear ==
  /\ store' = [store EXCEPT !.occupied = {}, !.ages = [s \in DOMAIN @ |-> 0], !.length = 0, !.clock = 1,
                            !.keys = [s \in DOMAIN @ |-> Junk], !.values = [s \in DOMAIN @ |-> Junk]]
  /\ Answer("clear", 0, TRUE)

(* The occupied slots, the least recently used first; cache_copy_lru_keys  *)
(* looks for the next larger age each time.                                *)
UsedBefore(c, s) == {t \in c.occupied : c.ages[t] < c.ages[s]}
CacheOrder(c) == [i \in 1 .. c.length |-> CHOOSE s \in c.occupied : Cardinality(UsedBefore(c, s)) = i - 1]

cache_copy_lru_keys ==
  LET order == CacheOrder(store) IN Stay("keys", 0, [i \in DOMAIN order |-> store.keys[order[i]]])

CacheEntries(c) ==
  LET order == CacheOrder(c) IN [i \in DOMAIN order |-> <<c.keys[order[i]], c.values[order[i]]>>]

CacheNext ==
  /\ object = "cache"
  /\ \/ \E key \in Keys :
          \/ cache_touch(key) \/ cache_get_ref(key) \/ cache_peek_ref(key) \/ cache_remove(key)
          \/ \E value \in Stored : cache_put_with_evicted(key, value)
     \/ cache_remove_oldest \/ CacheRebased \/ cache_clear \/ cache_copy_lru_keys

(* cache_invariant, and no two live slots with one key or one age.         *)
CacheTypeOK ==
  /\ store.capacity \in Capacities /\ store.occupied \subseteq Slots(store.capacity)
  /\ store.length = Cardinality(store.occupied)
  /\ store.clock \in 1 .. ClockEnd + 1
  /\ \A s \in Slots(store.capacity) :
       IF s \in store.occupied THEN store.ages[s] \in 1 .. store.clock - 1 ELSE store.ages[s] = 0
  /\ \A s, t \in store.occupied : s # t => store.keys[s] # store.keys[t] /\ store.ages[s] # store.ages[t]
  /\ \A s \in store.occupied : store.keys[s] \in Keys /\ store.values[s] \in Stored
=============================================================================
