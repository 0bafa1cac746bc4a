-------------------------------- MODULE Pool --------------------------------
(***************************************************************************)
(* Lib/std/pool.nqr: a fixed pool of slots, given out under handles that   *)
(* carry the slot's generation.  What a slot stores plays no part.  The    *)
(* caller's handles are part of the state; `past` is no field of the code: *)
(* it counts how often the slot was released since the handle was given    *)
(* out, and an unset handle has none.                                      *)
(***************************************************************************)
EXTENDS ContainerSystem

PoolCapacity == CHOOSE n \in Capacities : \A m \in Capacities : m <= n
InvalidGeneration == 0
NoHandle == [index |-> 0, generation |-> InvalidGeneration, past |-> -1]

(* pool_init keeps the generations it finds in the caller's storage, and   *)
(* starts those that are 0.                                                *)
PoolInit ==
  /\ object = "pool"
  /\ \E found \in [Slots(PoolCapacity) -> 0 .. MaxGeneration] :
       store = [used |-> [s \in Slots(PoolCapacity) |-> FALSE],
                generations |-> [s \in Slots(PoolCapacity) |-> IF found[s] = InvalidGeneration THEN 1 ELSE found[s]],
                inUse |-> 0, hint |-> 0, handles |-> [h \in Handles |-> NoHandle]]
  /\ call = <<"init", 0, 0>>

pool_next_generation(g) == IF g >= MaxGeneration THEN 1 ELSE g + 1

(* The first free slot from the hint on, going round. *)
PoolFree(p) == {offset \in Slots(PoolCapacity) : ~p.used[(p.hint + offset) % PoolCapacity]}
pool_find_free_from(p) ==
  (p.hint + CHOOSE offset \in PoolFree(p) : \A other \in PoolFree(p) : offset <= other) % PoolCapacity

pool_acquire(h) ==
  IF store.inUse >= PoolCapacity \/ PoolFree(store) = {} THEN Stay("acquire", h, FALSE)
  ELSE LET index == pool_find_free_from(store)
       IN  /\ store' = [store EXCEPT !.used[index] = TRUE, !.inUse = @ + 1, !.hint = (index + 1) % PoolCapacity,
                          !.handles[h] = [index |-> index, generation |-> store.generations[index], past |-> 0]]
           /\ Answer("acquire", h, TRUE)

pool_handle_valid(p, h) ==
  /\ p.used[p.handles[h].index]
  /\ p.handles[h].generation # InvalidGeneration
  /\ p.handles[h].generation = p.generations[p.handles[h].index]

(* Handles on a slot of `released` fall one release behind; what is more   *)
(* than MaxGeneration releases ago is not told apart.                      *)
PoolHandlesPast(p, released) ==
  [h \in Handles |->
     LET handle == p.handles[h]
     IN  IF handle.past >= 0 /\ handle.index \in released
         THEN [handle EXCEPT !.past = Smaller(@ + 1, MaxGeneration)] ELSE handle]

(* Mutant: a released slot keeps its generation. *)
PoolReleasedOnly(p, released) ==
  [p EXCEPT !.used = [s \in DOMAIN @ |-> @[s] /\ s \notin released], !.handles = PoolHandlesPast(p, released)]

PoolReleased(p, released) ==
  [p EXCEPT !.used = [s \in DOMAIN @ |-> @[s] /\ s \notin released],
            !.generations = [s \in DOMAIN @ |-> IF s \in released THEN pool_next_generation(@[s]) ELSE @[s]],
            !.handles = PoolHandlesPast(p, released)]

pool_release(h) ==
  IF ~pool_handle_valid(store, h) THEN Stay("release", h, FALSE)
  ELSE LET index == store.handles[h].index
       IN  /\ store' = [PoolReleased(store, {index}) EXCEPT !.inUse = @ - 1, !.hint = index,
                          !.handles[h].generation = InvalidGeneration, !.handles[h].past = -1]
           /\ Answer("release", h, TRUE)

pool_release_index(index) ==
  IF ~store.used[index] THEN Stay("release_index", index, FALSE)
  ELSE /\ store' = [PoolReleased(store, {index}) EXCEPT !.inUse = @ - 1, !.hint = index]
       /\ Answer("release_index", index, TRUE)

pool_release_all ==
  LET released == {s \in Slots(PoolCapacity) : store.used[s]}
  IN  /\ store' = [PoolReleased(store, released) EXCEPT !.inUse = 0, !.hint = 0]
      /\ Answer("release_all", 0, Cardinality(released))

pool_handle_copy(h, source) ==
  store' = [store EXCEPT !.handles[h] = store.handles[source]] /\ Answer("copy", h, TRUE)

pool_handle_invalidate(h) == store' = [store EXCEPT !.handles[h] = NoHandle] /\ Answer("invalidate", h, TRUE)

PoolNext ==
  /\ object = "pool"
  /\ \/ \E h \in Handles :
          \/ pool_acquire(h) \/ pool_release(h) \/ pool_handle_invalidate(h)
          \/ \E source \in Handles : pool_handle_copy(h, source)
     \/ \E index \in Slots(PoolCapacity) : pool_release_index(index)
     \/ pool_release_all

(* pool_invariant. *)
PoolTypeOK ==
  /\ store.used \in [Slots(PoolCapacity) -> BOOLEAN]
  /\ store.generations \in [Slots(PoolCapacity) -> 1 .. MaxGeneration]
  /\ store.inUse = Cardinality({s \in Slots(PoolCapacity) : store.used[s]})
  /\ store.hint \in Slots(PoolCapacity)
  /\ store.handles \in [Handles -> [index : Slots(PoolCapacity), generation : 0 .. MaxGeneration,
                                    past : -1 .. MaxGeneration]]

(* The handles that open their slot are those whose object is still there; *)
(* after MaxGeneration releases the generations start again and nothing is *)
(* promised any more.                                                      *)
PoolHandlesTrue ==
  \A h \in Handles :
    store.handles[h].past < MaxGeneration => (pool_handle_valid(store, h) <=> store.handles[h].past = 0)
=============================================================================
