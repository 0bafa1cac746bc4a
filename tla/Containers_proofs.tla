-------------------------- MODULE Containers_proofs --------------------------
(***************************************************************************)
(* What is proved of the containers of Lib/std for every capacity: a       *)
(* handle of the pool opens its slot exactly as long as the object it was  *)
(* given out for is there, for every number of handles and generations;    *)
(* and every call of a ring or a channel does to the items in its circular *)
(* storage what the same call does to a plain bounded sequence.  The       *)
(* second argument has three layers: lemmas about circular buffers, then   *)
(* what each function does to the sequence a record holds, then each call  *)
(* as a step of BoundedSequence.                                           *)
(***************************************************************************)
EXTENDS Containers, FiniteSetTheorems, SequenceTheorems, TLAPS

(* The shape of a pool. *)
PoolRecord ==
  [used : [Slots(PoolCapacity) -> BOOLEAN], generations : [Slots(PoolCapacity) -> 1 .. MaxGeneration],
   inUse : Int, hint : Slots(PoolCapacity),
   handles : [Handles -> [index : Slots(PoolCapacity), generation : 0 .. MaxGeneration,
                          past : -1 .. MaxGeneration]]]

InUse(p) == {s \in Slots(PoolCapacity) : p.used[s]}

(* The generation a slot has n releases after it had generation g. *)
Later(g, n) == IF g + n <= MaxGeneration THEN g + n ELSE g + n - MaxGeneration

(* A handle that was released or never set opens nothing; one that was     *)
(* given out less than MaxGeneration releases ago tells how many releases  *)
(* its slot has seen since; and a slot not released since is still in use. *)
HandleKept(p, h) ==
  LET handle == p.handles[h]
  IN  /\ handle.past = -1 => handle.generation = InvalidGeneration
      /\ handle.past \in 0 .. MaxGeneration - 1 =>
           /\ handle.generation \in 1 .. MaxGeneration
           /\ p.generations[handle.index] = Later(handle.generation, handle.past)
      /\ handle.past = 0 => p.used[handle.index]

HandlesKept(p) == \A h \in Handles : HandleKept(p, h)

(* The inductive invariant: handles open the right slot because the        *)
(* generation in a handle and the one in its slot differ by the releases   *)
(* between them, and that many releases less than a full turn never bring  *)
(* the same generation back.                                               *)
PoolKept(p) == p \in PoolRecord /\ p.inUse = Cardinality(InUse(p)) /\ HandlesKept(p)
PoolInv == PoolKept(store)

-----------------------------------------------------------------------------

LEMMA PoolHasSlots == PoolCapacity \in Nat /\ PoolCapacity > 0
<1>1. PICK n \in Capacities : n > 0 /\ \A m \in Capacities : m <= n
  BY ContainerAssumption
<1>2. PoolCapacity \in Capacities /\ \A m \in Capacities : m <= PoolCapacity
  BY <1>1 DEF PoolCapacity
<1> QED BY <1>1, <1>2, ContainerAssumption

LEMMA SlotsInUse ==
  ASSUME NEW p
  PROVE  IsFiniteSet(InUse(p)) /\ Cardinality(InUse(p)) \in Nat
<1>1. InUse(p) \in SUBSET Slots(PoolCapacity)
  BY DEF InUse
<1>2. IsFiniteSet(Slots(PoolCapacity))
  BY PoolHasSlots, FS_Interval DEF Slots
<1>3. IsFiniteSet(InUse(p))
  BY <1>1, <1>2, FS_Subset
<1> QED BY <1>3, FS_CardinalityType

LEMMA PoolTypes ==
  ASSUME NEW p \in PoolRecord
  PROVE  /\ p.hint \in Nat /\ p.hint \in Slots(PoolCapacity)
         /\ p.used \in [Slots(PoolCapacity) -> BOOLEAN]
BY PoolHasSlots DEF PoolRecord, Slots

\* The order of the natural numbers.
Below == {pair \in Nat \X Nat : pair[1] < pair[2]}

LEMMA LeastOf ==
  ASSUME NEW S \in SUBSET Nat, S # {}
  PROVE  \E first \in S : \A other \in S : first <= other
<1>1. IsWellFoundedOn(Below, Nat)
  BY NatLessThanWellFounded DEF OpToRel, Below
<1>2. PICK first \in S : \A other \in S : <<other, first>> \notin Below
  BY <1>1, WFMin
<1>3. ASSUME NEW other \in S
      PROVE  first <= other
  <2>1. <<other, first>> \in Below <=> other < first
    BY DEF Below
  <2> QED BY <1>2, <2>1
<1> QED BY <1>3

(* The first free slot from the hint on is a slot, and free. *)
LEMMA FoundSlotIsFree ==
  ASSUME NEW p \in PoolRecord, PoolFree(p) # {}
  PROVE  pool_find_free_from(p) \in Slots(PoolCapacity) /\ ~p.used[pool_find_free_from(p)]
<1>1. PoolFree(p) \subseteq Nat
  BY PoolHasSlots DEF PoolFree, Slots
<1>2. PICK first \in PoolFree(p) : \A other \in PoolFree(p) : first <= other
  BY <1>1, LeastOf
<1>3. PICK offset \in PoolFree(p) : pool_find_free_from(p) = (p.hint + offset) % PoolCapacity
  BY <1>2 DEF pool_find_free_from
<1>4. ~p.used[(p.hint + offset) % PoolCapacity]
  BY <1>3 DEF PoolFree
<1>5. p.hint + offset \in Nat
  BY <1>1, <1>3, PoolTypes
<1>6. (p.hint + offset) % PoolCapacity \in Slots(PoolCapacity)
  BY <1>5, PoolHasSlots DEF Slots
<1> QED BY <1>3, <1>4, <1>6

-----------------------------------------------------------------------------

(* One release more is one generation later, round the corner as well.     *)
LEMMA NextIsLater ==
  ASSUME NEW g \in 1 .. MaxGeneration, NEW n \in 0 .. MaxGeneration - 1, n + 1 < MaxGeneration
  PROVE  pool_next_generation(Later(g, n)) = Later(g, n + 1)
BY ContainerAssumption DEF pool_next_generation, Later

(* Fewer releases than a full turn do not bring a generation back.         *)
LEMMA LaterIsOther ==
  ASSUME NEW g \in 1 .. MaxGeneration, NEW n \in 0 .. MaxGeneration - 1
  PROVE  Later(g, n) = g <=> n = 0
BY ContainerAssumption DEF Later

(* What pool_handle_valid sees of a handle.                                *)
LEMMA KeptHandleIsTrue ==
  ASSUME NEW p \in PoolRecord, NEW h \in Handles, HandleKept(p, h), p.handles[h].past < MaxGeneration
  PROVE  pool_handle_valid(p, h) <=> p.handles[h].past = 0
<1> DEFINE handle == p.handles[h]
<1>1. handle.past \in -1 .. MaxGeneration /\ MaxGeneration \in Nat /\ MaxGeneration > 0
  BY ContainerAssumption DEF PoolRecord
<1>2. CASE handle.past = -1
  BY <1>2 DEF HandleKept, pool_handle_valid
<1>3. CASE handle.past \in 0 .. MaxGeneration - 1
  <2>1. /\ handle.generation \in 1 .. MaxGeneration
        /\ p.generations[handle.index] = Later(handle.generation, handle.past)
        /\ handle.past = 0 => p.used[handle.index]
    BY <1>3 DEF HandleKept
  <2>2. p.generations[handle.index] = handle.generation <=> handle.past = 0
    BY <1>3, <2>1, LaterIsOther
  <2> QED BY <2>1, <2>2 DEF pool_handle_valid, InvalidGeneration
<1> QED BY <1>1, <1>2, <1>3

(* Releasing slots leaves a pool whose handles know of it.                 *)
LEMMA ReleaseKeepsHandles ==
  ASSUME NEW p \in PoolRecord, HandlesKept(p), NEW released \in SUBSET Slots(PoolCapacity)
  PROVE  /\ PoolReleased(p, released) \in PoolRecord
         /\ HandlesKept(PoolReleased(p, released))
         /\ InUse(PoolReleased(p, released)) = InUse(p) \ released
         /\ PoolReleased(p, released).inUse = p.inUse
<1> DEFINE used == [s \in Slots(PoolCapacity) |-> p.used[s] /\ s \notin released]
           gens == [s \in Slots(PoolCapacity) |->
                      IF s \in released THEN pool_next_generation(p.generations[s]) ELSE p.generations[s]]
           handles == PoolHandlesPast(p, released)
           q == PoolReleased(p, released)
<1>1. /\ p.used \in [Slots(PoolCapacity) -> BOOLEAN]
      /\ p.generations \in [Slots(PoolCapacity) -> 1 .. MaxGeneration]
      /\ p.handles \in [Handles -> [index : Slots(PoolCapacity), generation : 0 .. MaxGeneration,
                                    past : -1 .. MaxGeneration]]
      /\ MaxGeneration \in Nat /\ MaxGeneration > 0
  BY ContainerAssumption DEF PoolRecord
<1>2. q = [p EXCEPT !.used = used, !.generations = gens, !.handles = handles]
  BY <1>1 DEF PoolReleased
<1>3. /\ q.used = used /\ q.generations = gens /\ q.handles = handles
      /\ q.inUse = p.inUse /\ q.hint = p.hint
  BY <1>2 DEF PoolRecord
<1>4. used \in [Slots(PoolCapacity) -> BOOLEAN]
  OBVIOUS
<1>5. gens \in [Slots(PoolCapacity) -> 1 .. MaxGeneration]
  <2>1. \A g \in 1 .. MaxGeneration : pool_next_generation(g) \in 1 .. MaxGeneration
    BY <1>1 DEF pool_next_generation
  <2> QED BY <1>1, <2>1
<1>6. ASSUME NEW h \in Handles
      PROVE  /\ handles[h].index = p.handles[h].index /\ handles[h].generation = p.handles[h].generation
             /\ handles[h].past = IF p.handles[h].past >= 0 /\ p.handles[h].index \in released
                                  THEN Smaller(p.handles[h].past + 1, MaxGeneration) ELSE p.handles[h].past
             /\ handles[h] \in [index : Slots(PoolCapacity), generation : 0 .. MaxGeneration,
                                past : -1 .. MaxGeneration]
  <2>1. p.handles[h] \in [index : Slots(PoolCapacity), generation : 0 .. MaxGeneration,
                          past : -1 .. MaxGeneration]
    BY <1>1
  <2>2. handles[h] = IF p.handles[h].past >= 0 /\ p.handles[h].index \in released
                     THEN [p.handles[h] EXCEPT !.past = Smaller(p.handles[h].past + 1, MaxGeneration)]
                     ELSE p.handles[h]
    BY DEF PoolHandlesPast
  <2> QED BY <1>1, <2>1, <2>2 DEF Smaller
<1>7. handles \in [Handles -> [index : Slots(PoolCapacity), generation : 0 .. MaxGeneration,
                               past : -1 .. MaxGeneration]]
  <2>1. handles = [h \in Handles |-> handles[h]]
    BY DEF PoolHandlesPast
  <2> HIDE DEF handles
  <2> QED BY <1>6, <2>1
<1>8. q \in PoolRecord
  <2> HIDE DEF used, gens, handles, q
  <2> QED BY <1>2, <1>4, <1>5, <1>7 DEF PoolRecord
<1>9. ASSUME NEW h \in Handles
      PROVE  HandleKept(q, h)
  <2>1. HandleKept(p, h)
    BY DEF HandlesKept
  <2>2. q.handles[h] = handles[h]
    BY <1>3
  <2>3. p.handles[h].index \in Slots(PoolCapacity) /\ p.handles[h].past \in -1 .. MaxGeneration
    BY <1>1
  <2>4. CASE p.handles[h].past >= 0 /\ p.handles[h].index \in released
    <3>1. handles[h].past = Smaller(p.handles[h].past + 1, MaxGeneration)
      BY <1>6, <2>4
    <3>2. handles[h].past # -1 /\ handles[h].past # 0
      BY <1>1, <2>3, <2>4, <3>1 DEF Smaller
    <3>3. ASSUME handles[h].past \in 0 .. MaxGeneration - 1
          PROVE  /\ p.handles[h].past \in 0 .. MaxGeneration - 1 /\ p.handles[h].past + 1 < MaxGeneration
                 /\ handles[h].past = p.handles[h].past + 1
      BY <1>1, <2>3, <2>4, <3>1, <3>3 DEF Smaller
    <3>4. ASSUME handles[h].past \in 0 .. MaxGeneration - 1
          PROVE  /\ p.handles[h].generation \in 1 .. MaxGeneration
                 /\ p.generations[p.handles[h].index] = Later(p.handles[h].generation, p.handles[h].past)
      BY <2>1, <3>3, <3>4 DEF HandleKept
    <3>5. gens[p.handles[h].index] = pool_next_generation(p.generations[p.handles[h].index])
      BY <2>3, <2>4
    <3>6. ASSUME handles[h].past \in 0 .. MaxGeneration - 1
          PROVE  gens[p.handles[h].index] = Later(p.handles[h].generation, handles[h].past)
      BY <3>3, <3>4, <3>5, <3>6, NextIsLater
    <3> HIDE DEF handles, gens, q
    <3> QED BY <1>3, <1>6, <2>2, <3>2, <3>4, <3>6 DEF HandleKept
  <2>5. CASE ~(p.handles[h].past >= 0 /\ p.handles[h].index \in released)
    <3>1. /\ handles[h].past = p.handles[h].past /\ handles[h].index = p.handles[h].index
          /\ handles[h].generation = p.handles[h].generation
      BY <1>6, <2>5
    <3>2. CASE p.handles[h].past = -1
      <4> HIDE DEF handles, gens, q
      <4> QED BY <2>1, <2>2, <3>1, <3>2 DEF HandleKept
    <3>3. CASE p.handles[h].past >= 0
      <4>1. gens[p.handles[h].index] = p.generations[p.handles[h].index]
            /\ used[p.handles[h].index] = p.used[p.handles[h].index]
        BY <2>3, <2>5, <3>3, <1>1
      <4> HIDE DEF handles, gens, used, q
      <4> QED BY <1>3, <2>1, <2>2, <3>1, <4>1 DEF HandleKept
    <3> QED BY <2>3, <3>2, <3>3
  <2> QED BY <2>4, <2>5
<1>10. InUse(q) = InUse(p) \ released
  BY <1>3 DEF InUse
<1> QED BY <1>3, <1>8, <1>9, <1>10 DEF HandlesKept

-----------------------------------------------------------------------------

LEMMA InitKeepsHandles ==
  ASSUME PoolInit
  PROVE  PoolKept(store)
<1>1. PICK found \in [Slots(PoolCapacity) -> 0 .. MaxGeneration] :
        store = [used |-> [s \in Slots(PoolCapacity) |-> FALSE],
                 generations |-> [s \in Slots(PoolCapacity) |-> IF found[s] = InvalidGeneration THEN 1 ELSE found[s]],
                 inUse |-> 0, hint |-> 0, handles |-> [h \in Handles |-> NoHandle]]
  BY DEF PoolInit
<1>2. store \in PoolRecord
  BY <1>1, PoolHasSlots, ContainerAssumption DEF PoolRecord, Slots, NoHandle, InvalidGeneration
<1>3. InUse(store) = {}
  BY <1>1 DEF InUse
<1>4. HandlesKept(store)
  BY <1>1, ContainerAssumption DEF HandlesKept, HandleKept, NoHandle, InvalidGeneration
<1> QED BY <1>1, <1>2, <1>3, <1>4, FS_EmptySet DEF PoolKept

LEMMA AcquireKeepsHandles ==
  ASSUME PoolKept(store), NEW h \in Handles, pool_acquire(h)
  PROVE  PoolKept(store')
<1>1. CASE UNCHANGED store
  BY <1>1
<1>2. CASE ~(store.inUse >= PoolCapacity \/ PoolFree(store) = {})
  <2>1. PICK index : index = pool_find_free_from(store)
    OBVIOUS
  <2>2. index \in Slots(PoolCapacity) /\ ~store.used[index]
    BY <1>2, <2>1, FoundSlotIsFree DEF PoolKept
  <2> DEFINE given == [index |-> index, generation |-> store.generations[index], past |-> 0]
  <2>3. store' = [store EXCEPT !.used[index] = TRUE, !.inUse = @ + 1, !.hint = (index + 1) % PoolCapacity,
                               !.handles[h] = given]
    BY <1>2, <2>1 DEF pool_acquire
  <2>4. store \in PoolRecord /\ store.inUse = Cardinality(InUse(store)) /\ HandlesKept(store)
    BY DEF PoolKept
  <2>5. (index + 1) % PoolCapacity \in Slots(PoolCapacity)
    BY <2>2, PoolHasSlots DEF Slots
  <2>6. given \in [index : Slots(PoolCapacity), generation : 0 .. MaxGeneration, past : -1 .. MaxGeneration]
        /\ given.generation \in 1 .. MaxGeneration
    BY <2>2, <2>4, ContainerAssumption DEF PoolRecord
  <2>7. /\ store'.used = [store.used EXCEPT ![index] = TRUE] /\ store'.generations = store.generations
        /\ store'.inUse = store.inUse + 1 /\ store'.handles = [store.handles EXCEPT ![h] = given]
    BY <2>3, <2>4 DEF PoolRecord
  <2>8. store' \in PoolRecord
    <3>1. PICK inUse, hint : inUse = store.inUse + 1 /\ hint = (index + 1) % PoolCapacity
      OBVIOUS
    <3>2. inUse \in Int /\ hint \in Slots(PoolCapacity)
      BY <2>4, <2>5, <3>1 DEF PoolRecord
    <3>3. store' = [store EXCEPT !.used[index] = TRUE, !.inUse = inUse, !.hint = hint, !.handles[h] = given]
      BY <2>3, <3>1
    <3> HIDE DEF given
    <3> QED BY <2>2, <2>4, <2>6, <3>2, <3>3 DEF PoolRecord
  <2>9. InUse(store') = InUse(store) \cup {index}
    BY <2>2, <2>4, <2>7 DEF InUse, PoolRecord
  <2>10. index \notin InUse(store)
    BY <2>2 DEF InUse
  <2>11. store'.inUse = Cardinality(InUse(store'))
    BY <2>4, <2>7, <2>9, <2>10, SlotsInUse, FS_AddElement
  <2>12. ASSUME NEW k \in Handles
         PROVE  HandleKept(store', k)
    <3>1. CASE k = h
      <4>1. store'.handles[k] = given
        BY <2>4, <2>7, <3>1 DEF PoolRecord
      <4>2. store'.used[index] /\ Later(given.generation, 0) = given.generation
        BY <2>2, <2>4, <2>6, <2>7, ContainerAssumption DEF PoolRecord, Later
      <4> QED BY <2>6, <2>7, <4>1, <4>2 DEF HandleKept
    <3>2. CASE k # h
      <4>1. store'.handles[k] = store.handles[k] /\ HandleKept(store, k)
            /\ store.handles[k].index \in Slots(PoolCapacity)
        BY <2>4, <2>7, <3>2 DEF PoolRecord, HandlesKept
      <4>2. store.used[store.handles[k].index] => store'.used[store.handles[k].index]
        BY <2>4, <2>7, <4>1 DEF PoolRecord
      <4> QED BY <2>7, <4>1, <4>2 DEF HandleKept
    <3> QED BY <3>1, <3>2
  <2> QED BY <2>8, <2>11, <2>12 DEF PoolKept, HandlesKept
<1> QED BY <1>1, <1>2 DEF pool_acquire, Stay

(* What the two releases of one slot have in common.                       *)
LEMMA OneReleaseKeepsHandles ==
  ASSUME NEW p, PoolKept(p), NEW index \in Slots(PoolCapacity), p.used[index],
         NEW q, q = [PoolReleased(p, {index}) EXCEPT !.inUse = @ - 1, !.hint = index]
  PROVE  PoolKept(q)
<1>1. p \in PoolRecord /\ p.inUse = Cardinality(InUse(p)) /\ HandlesKept(p)
  BY DEF PoolKept
<1>2. PICK r : r = PoolReleased(p, {index})
  OBVIOUS
<1>3. /\ r \in PoolRecord /\ HandlesKept(r)
      /\ InUse(r) = InUse(p) \ {index} /\ r.inUse = p.inUse
  BY <1>1, <1>2, ReleaseKeepsHandles
<1>4. q = [r EXCEPT !.inUse = @ - 1, !.hint = index]
  BY <1>2
<1>5. q \in PoolRecord /\ q.used = r.used /\ q.generations = r.generations /\ q.handles = r.handles
      /\ q.inUse = r.inUse - 1
  <2>1. PICK inUse : inUse = r.inUse - 1
    OBVIOUS
  <2>2. inUse \in Int
    BY <1>3, <2>1 DEF PoolRecord
  <2>3. q = [r EXCEPT !.inUse = inUse, !.hint = index]
    BY <1>4, <2>1
  <2> QED BY <1>3, <2>1, <2>2, <2>3 DEF PoolRecord
<1>6. HandlesKept(q)
  BY <1>3, <1>5 DEF HandlesKept, HandleKept
<1>7. InUse(q) = InUse(p) \ {index} /\ index \in InUse(p)
  BY <1>3, <1>5 DEF InUse
<1>8. q.inUse = Cardinality(InUse(q))
  BY <1>1, <1>3, <1>5, <1>7, SlotsInUse, FS_RemoveElement
<1> QED BY <1>5, <1>6, <1>8 DEF PoolKept

(* A handle may be forgotten at any time.                                  *)
LEMMA ForgettingKeepsHandles ==
  ASSUME NEW p, PoolKept(p), NEW h \in Handles,
         NEW handle \in [index : Slots(PoolCapacity), generation : {InvalidGeneration}, past : {-1}],
         NEW q, q = [p EXCEPT !.handles[h] = handle]
  PROVE  PoolKept(q)
<1>1. p \in PoolRecord /\ p.inUse = Cardinality(InUse(p)) /\ HandlesKept(p)
  BY DEF PoolKept
<1>2. q \in PoolRecord /\ q.used = p.used /\ q.generations = p.generations
      /\ q.handles = [p.handles EXCEPT ![h] = handle] /\ q.inUse = p.inUse
  BY <1>1, ContainerAssumption DEF PoolRecord, InvalidGeneration
<1>3. ASSUME NEW k \in Handles
      PROVE  HandleKept(q, k)
  <2>1. q.handles[k] = IF k = h THEN handle ELSE p.handles[k]
    BY <1>1, <1>2 DEF PoolRecord
  <2>2. HandleKept(p, k)
    BY <1>1 DEF HandlesKept
  <2> QED BY <1>2, <2>1, <2>2, ContainerAssumption DEF HandleKept
<1>4. InUse(q) = InUse(p)
  BY <1>2 DEF InUse
<1> QED BY <1>1, <1>2, <1>3, <1>4 DEF PoolKept, HandlesKept

LEMMA ReleaseOfHandleKeepsHandles ==
  ASSUME PoolKept(store), NEW h \in Handles, pool_release(h)
  PROVE  PoolKept(store')
<1>1. CASE UNCHANGED store
  BY <1>1
<1>2. CASE pool_handle_valid(store, h)
  <2>1. PICK index : index = store.handles[h].index
    OBVIOUS
  <2>2. index \in Slots(PoolCapacity) /\ store.used[index]
    BY <1>2, <2>1 DEF PoolKept, PoolRecord, pool_handle_valid
  <2>3. PICK r : r = PoolReleased(store, {index})
    OBVIOUS
  <2>4. PICK q : q = [r EXCEPT !.inUse = @ - 1, !.hint = index]
    OBVIOUS
  <2>5. PoolKept(q)
    BY <2>2, <2>3, <2>4, OneReleaseKeepsHandles
  <2>6. r \in PoolRecord
    BY <2>2, <2>3, ReleaseKeepsHandles DEF PoolKept
  <2>7. store' = [r EXCEPT !.inUse = @ - 1, !.hint = index,
                           !.handles[h].generation = InvalidGeneration, !.handles[h].past = -1]
    BY <1>2, <2>1, <2>3 DEF pool_release
  <2>8. PICK handle : handle = [q.handles[h] EXCEPT !.generation = InvalidGeneration, !.past = -1]
    OBVIOUS
  <2>9. store' = [q EXCEPT !.handles[h] = handle]
    BY <2>4, <2>6, <2>7, <2>8 DEF PoolRecord
  <2>10. handle \in [index : Slots(PoolCapacity), generation : {InvalidGeneration}, past : {-1}]
    BY <2>5, <2>8 DEF PoolKept, PoolRecord
  <2> QED BY <2>5, <2>9, <2>10, ForgettingKeepsHandles
<1> QED BY <1>1, <1>2 DEF pool_release, Stay

LEMMA ReleaseOfIndexKeepsHandles ==
  ASSUME PoolKept(store), NEW index \in Slots(PoolCapacity), pool_release_index(index)
  PROVE  PoolKept(store')
BY OneReleaseKeepsHandles DEF pool_release_index, Stay

LEMMA ReleaseOfAllKeepsHandles ==
  ASSUME PoolKept(store), pool_release_all
  PROVE  PoolKept(store')
<1>1. PICK r : r = PoolReleased(store, InUse(store))
  OBVIOUS
<1>2. store' = [r EXCEPT !.inUse = 0, !.hint = 0]
  BY <1>1 DEF pool_release_all, InUse
<1>3. InUse(store) \in SUBSET Slots(PoolCapacity)
  BY DEF InUse
<1>4. r \in PoolRecord /\ HandlesKept(r) /\ InUse(r) = {}
  BY <1>1, <1>3, ReleaseKeepsHandles DEF PoolKept
<1>5. store' \in PoolRecord /\ store'.used = r.used /\ store'.generations = r.generations
      /\ store'.handles = r.handles /\ store'.inUse = 0
  <2>1. 0 \in Slots(PoolCapacity)
    BY PoolHasSlots DEF Slots
  <2>2. PICK nothing, first : nothing = 0 /\ first = 0
    OBVIOUS
  <2>3. store' = [r EXCEPT !.inUse = nothing, !.hint = first]
    BY <1>2, <2>2
  <2>4. nothing \in Int /\ first \in Slots(PoolCapacity)
    BY <2>1, <2>2
  <2>5. store' \in PoolRecord /\ store'.used = r.used /\ store'.generations = r.generations
        /\ store'.handles = r.handles /\ store'.inUse = nothing
    BY <1>4, <2>3, <2>4 DEF PoolRecord
  <2> QED BY <2>2, <2>5
<1>6. HandlesKept(store')
  BY <1>4, <1>5 DEF HandlesKept, HandleKept
<1>7. InUse(store') = {}
  BY <1>4, <1>5 DEF InUse
<1> QED BY <1>5, <1>6, <1>7, FS_EmptySet DEF PoolKept

LEMMA CopyKeepsHandles ==
  ASSUME PoolKept(store), NEW h \in Handles, NEW source \in Handles, pool_handle_copy(h, source)
  PROVE  PoolKept(store')
<1>1. store \in PoolRecord /\ store.inUse = Cardinality(InUse(store)) /\ HandlesKept(store)
  BY DEF PoolKept
<1>2. store' = [store EXCEPT !.handles[h] = store.handles[source]]
  BY DEF pool_handle_copy
<1>3. store' \in PoolRecord /\ store'.used = store.used /\ store'.generations = store.generations
      /\ store'.handles = [store.handles EXCEPT ![h] = store.handles[source]] /\ store'.inUse = store.inUse
  BY <1>1, <1>2 DEF PoolRecord
<1>4. ASSUME NEW k \in Handles
      PROVE  HandleKept(store', k)
  <2>1. store'.handles[k] = IF k = h THEN store.handles[source] ELSE store.handles[k]
    BY <1>1, <1>3 DEF PoolRecord
  <2>2. HandleKept(store, k) /\ HandleKept(store, source)
    BY <1>1 DEF HandlesKept
  <2> QED BY <1>3, <2>1, <2>2 DEF HandleKept
<1>5. InUse(store') = InUse(store)
  BY <1>3 DEF InUse
<1> QED BY <1>1, <1>3, <1>4, <1>5 DEF PoolKept, HandlesKept

LEMMA InvalidateKeepsHandles ==
  ASSUME PoolKept(store), NEW h \in Handles, pool_handle_invalidate(h)
  PROVE  PoolKept(store')
<1>1. NoHandle \in [index : Slots(PoolCapacity), generation : {InvalidGeneration}, past : {-1}]
  BY PoolHasSlots DEF NoHandle, Slots
<1> QED BY <1>1, ForgettingKeepsHandles DEF pool_handle_invalidate

LEMMA PoolStepKeepsHandles ==
  ASSUME PoolKept(store), PoolNext
  PROVE  PoolKept(store')
BY AcquireKeepsHandles, ReleaseOfHandleKeepsHandles, ReleaseOfIndexKeepsHandles, ReleaseOfAllKeepsHandles,
   CopyKeepsHandles, InvalidateKeepsHandles DEF PoolNext

-----------------------------------------------------------------------------

(* A behaviour is about one container from its beginning to its end.       *)
LEMMA KindsStay ==
  ASSUME Next
  PROVE  UNCHANGED object
<1>1. CASE RingNext
  BY <1>1 DEF RingNext, Answer, Stay, ring_try_push, ring_push, ring_set, ring_try_push_many, ring_push_many, ring_drop_oldest,
    ring_keep_newest, ring_rotate_left, ring_rotate_right, ring_rebase, ring_copy_newest_into,
    ring_pop_oldest_or, ring_pop_newest_or, ring_clear, ring_reset, ring_contiguous
<1>2. CASE DequeNext
  BY <1>2 DEF DequeNext, Answer, Stay, deque_push_back, deque_push_front, deque_remove_first, deque_remove_last, deque_set, deque_push_back_many,
    deque_push_front_many, deque_drop_front, deque_drop_back, deque_truncate, deque_remove_at,
    deque_rotate_left, deque_rotate_right, deque_swap, deque_pop_front_or, deque_pop_back_or, deque_clear,
    deque_reverse
<1>3. CASE ChannelNext
  BY <1>3 DEF ChannelNext, Answer, Stay, channel_try_send, channel_try_send_many, channel_receive_many, channel_drop_oldest, channel_keep_newest,
    channel_try_receive, channel_close, channel_reopen_if_empty, channel_clear, channel_reset
<1>4. CASE PoolNext
  BY <1>4 DEF PoolNext, Answer, Stay, pool_acquire, pool_release, pool_handle_invalidate, pool_handle_copy, pool_release_index, pool_release_all
<1>5. CASE CacheNext
  BY <1>5 DEF CacheNext, Answer, Stay, cache_touch, cache_get_ref, cache_peek_ref, cache_remove, cache_put_with_evicted, cache_remove_oldest,
    CacheRebased, cache_clear, cache_copy_lru_keys
<1>6. CASE HeapNext
  BY <1>6 DEF HeapNext, Answer, Stay, heap_push, heap_replace_root, heap_push_pop, heap_remove_absent, heap_remove_at, heap_update_at,
    heap_build, heap_pop_or, heap_drain_sorted_to, heap_clear
<1>7. CASE PqNext
  BY <1>7 DEF PqNext, Answer, Stay, priority_queue_push, priority_queue_update_priority_at, priority_queue_remove_at, priority_queue_pop_or,
    priority_queue_front_priority, priority_queue_clear, priority_queue_drain_to
<1> QED BY <1>1, <1>2, <1>3, <1>4, <1>5, <1>6, <1>7 DEF Next

LEMMA PoolAlwaysKept == Spec => [](object = "pool" => PoolInv)
<1>1. Init => (object = "pool" => PoolInv)
  BY InitKeepsHandles DEF Init, PoolInv, RingInit, DequeInit, ChannelInit, CacheInit, HeapInit, PqInit
<1>2. (object = "pool" => PoolInv) /\ [Next]_vars => (object = "pool" => PoolInv)'
  <2> SUFFICES ASSUME object = "pool" => PoolInv, [Next]_vars, object' = "pool"
               PROVE  PoolKept(store')
    BY DEF PoolInv
  <2>1. CASE UNCHANGED vars
    BY <2>1 DEF PoolInv, vars
  <2>2. CASE Next
    <3>1. object = "pool"
      BY <2>2, KindsStay
    <3>2. PoolNext
      BY <2>2, <3>1 DEF Next, RingNext, DequeNext, ChannelNext, CacheNext, HeapNext, PqNext
    <3> QED BY <3>1, <3>2, PoolStepKeepsHandles DEF PoolInv
  <2> QED BY <2>1, <2>2
<1> QED BY <1>1, <1>2, PTL DEF Spec

(* HandlesStayTrue: a handle opens its slot as long as the object it was   *)
(* given out for is there, and never once the slot was released and given  *)
(* out again, however pool_acquire, the releases and copies of handles     *)
(* follow each other, until a slot's generations have gone all the way     *)
(* round (pool_handle_valid, pool_next_generation).                        *)
THEOREM HandlesStayTrueAlways == Spec => []HandlesStayTrue
<1>1. (object = "pool" => PoolInv) => HandlesStayTrue
  BY KeptHandleIsTrue DEF PoolInv, PoolKept, HandlesKept, HandlesStayTrue, PoolHandlesTrue
<1> QED BY <1>1, PoolAlwaysKept, PTL

(* A pool satisfies pool_invariant after every call: it counts its used    *)
(* slots, starts every search at a slot it has, and no slot ever has the   *)
(* generation that says a handle is invalid.                               *)
THEOREM PoolInvariantAlways == Spec => [](object = "pool" => PoolTypeOK)
<1>1. PoolInv => PoolTypeOK
  BY DEF PoolInv, PoolKept, PoolRecord, PoolTypeOK, InUse
<1> QED BY <1>1, PoolAlwaysKept, PTL

-----------------------------------------------------------------------------
(* Numbers and the rounds of loops. *)

(* What holds at 0 and from each number to the next holds up to n. *)
LEMMA UpTo ==
  ASSUME NEW n \in Nat, NEW S, 0 \in S, \A k \in 1 .. n : k - 1 \in S => k \in S
  PROVE  \A k \in 0 .. n : k \in S
<1> DEFINE Bad == {k \in 0 .. n : k \notin S}
<1> SUFFICES ASSUME Bad # {} PROVE FALSE
  OBVIOUS
<1>1. PICK k \in Bad : \A m \in Bad : k <= m
  <2>1. Bad \in SUBSET Nat
    OBVIOUS
  <2> QED BY <2>1, LeastOf
<1>2. k \in 1 .. n /\ k - 1 \in 0 .. n
  BY <1>1
<1>3. k - 1 \in S
  <2>1. k - 1 \notin Bad
    BY <1>1, <1>2
  <2> QED BY <2>1, <1>2
<1> QED BY <1>1, <1>2, <1>3

(* A remainder below twice the divisor. *)
LEMMA WrapOf ==
  ASSUME NEW c \in Nat, NEW x \in Nat, x < 2 * c
  PROVE  x % c = IF x < c THEN x ELSE x - c
<1>1. c > 0
  OBVIOUS
<1>2. x \div c \in Int /\ x % c \in 0 .. c - 1 /\ x = c * (x \div c) + (x % c)
  BY <1>1
<1>3. PICK q \in Int, r \in 0 .. c - 1 : x = c * q + r /\ r = x % c
  BY <1>2
<1>4. q < 2
  <2> SUFFICES ASSUME q >= 2 PROVE FALSE
    OBVIOUS
  <2>1. c * q = c * (q - 2) + c * 2
    BY <1>1
  <2>2. c * (q - 2) >= 0
    BY <1>1
  <2> QED BY <2>1, <2>2, <1>3
<1>5. q > -1
  <2> SUFFICES ASSUME q <= -1 PROVE FALSE
    OBVIOUS
  <2>1. c * q = c * (q + 1) - c
    BY <1>1
  <2>2. c * (q + 1) <= 0
    BY <1>1
  <2> QED BY <2>1, <2>2, <1>3
<1>6. CASE q = 0
  BY <1>3, <1>6
<1>7. CASE q = 1
  BY <1>3, <1>7
<1> QED BY <1>4, <1>5, <1>6, <1>7

(* A remainder is the only one. *)
LEMMA RemainderIs ==
  ASSUME NEW c \in Nat, c > 0, NEW x \in Int, NEW q \in Int, NEW r \in 0 .. c - 1, x = c * q + r
  PROVE  x % c = r
<1>1. x \div c \in Int /\ x % c \in 0 .. c - 1 /\ x = c * (x \div c) + (x % c)
  OBVIOUS
<1>2. PICK p \in Int, m \in 0 .. c - 1 : x = c * p + m /\ m = x % c
  BY <1>1
<1>3. PICK d \in Int : d = p - q
  OBVIOUS
<1>4. c * d = r - m
  <2>1. c * d = c * p - c * q
    BY <1>3
  <2> QED BY <2>1, <1>2
<1>5. d < 1
  <2> SUFFICES ASSUME d >= 1 PROVE FALSE
    OBVIOUS
  <2>1. c * d = c * (d - 1) + c /\ c * (d - 1) >= 0
    OBVIOUS
  <2> QED BY <2>1, <1>4
<1>6. d > -1
  <2> SUFFICES ASSUME d <= -1 PROVE FALSE
    OBVIOUS
  <2>1. c * d = c * (d + 1) - c /\ c * (d + 1) <= 0
    OBVIOUS
  <2> QED BY <2>1, <1>4
<1>7. d = 0
  BY <1>5, <1>6
<1> QED BY <1>2, <1>4, <1>7

(* A number is made of its quotient and its remainder. *)
LEMMA Divided ==
  ASSUME NEW c \in Nat, c > 0, NEW x \in Int
  PROVE  \E q \in Int, r \in 0 .. c - 1 : x = c * q + r /\ x % c = r
<1>1. x \div c \in Int /\ x % c \in 0 .. c - 1 /\ x = c * (x \div c) + (x % c)
  OBVIOUS
<1> QED BY <1>1

LEMMA RemainderIn ==
  ASSUME NEW c \in Nat, c > 0, NEW a \in Int
  PROVE  a % c \in 0 .. c - 1
BY Divided

(* Remainders may be taken at once or one after the other. *)
LEMMA RemainderOfSum ==
  ASSUME NEW c \in Nat, c > 0, NEW a \in Int, NEW b \in Int
  PROVE  (a + (b % c)) % c = (a + b) % c
<1>1. PICK q \in Int, r \in 0 .. c - 1 : b = c * q + r /\ b % c = r
  BY Divided
<1>2. PICK y \in Int : y = a + r
  OBVIOUS
<1>3. PICK p \in Int, m \in 0 .. c - 1 : y = c * p + m /\ y % c = m
  BY Divided
<1>4. PICK z \in Int : z = a + b
  OBVIOUS
<1>5. PICK t \in Int : t = p + q
  OBVIOUS
<1>6. c * t = c * p + c * q
  BY <1>5
<1>7. z = c * t + m
  BY <1>1, <1>2, <1>3, <1>4, <1>6
<1>8. z % c = m
  BY <1>7, RemainderIs
<1> QED BY <1>1, <1>2, <1>3, <1>4, <1>8

(* A remainder may be taken before it is subtracted. *)
LEMMA RemainderOfDifference ==
  ASSUME NEW c \in Nat, c > 0, NEW a \in Int, NEW b \in Int
  PROVE  (a - (b % c)) % c = (a - b) % c
<1>1. PICK q \in Int, r \in 0 .. c - 1 : b = c * q + r /\ b % c = r
  BY Divided
<1>2. PICK y \in Int : y = a - r
  OBVIOUS
<1>3. PICK p \in Int, m \in 0 .. c - 1 : y = c * p + m /\ y % c = m
  BY Divided
<1>4. PICK z \in Int : z = a - b
  OBVIOUS
<1>5. PICK t \in Int : t = p - q
  OBVIOUS
<1>6. c * t = c * p - c * q
  BY <1>5
<1>7. z = c * t + m
  BY <1>1, <1>2, <1>3, <1>4, <1>6
<1>8. z % c = m
  BY <1>7, RemainderIs
<1> QED BY <1>1, <1>2, <1>3, <1>4, <1>8

(* Back by k is forward by k times one less than a whole turn. *)
LEMMA RemainderBack ==
  ASSUME NEW c \in Nat, c > 0, NEW a \in Int, NEW k \in Nat
  PROVE  (a + c - (k % c)) % c = (a + k * (c - 1)) % c
<1>1. PICK q \in Int, r \in 0 .. c - 1 : k = c * q + r /\ k % c = r
  BY Divided
<1>2. PICK y \in Int : y = a + c - r
  OBVIOUS
<1>3. PICK p \in Int, m \in 0 .. c - 1 : y = c * p + m /\ y % c = m
  BY Divided
<1>4. PICK t \in Int : t = p + (k - q) - 1
  OBVIOUS
<1>5. c * t = c * p + c * k - c * q - c
  BY <1>4
<1>6. k * (c - 1) = c * k - k /\ k * (c - 1) \in Int
  OBVIOUS
<1>7. PICK z \in Int : z = a + k * (c - 1)
  BY <1>6
<1>8. z = c * t + m
  BY <1>1, <1>2, <1>3, <1>5, <1>6, <1>7
<1>9. z % c = m
  BY <1>8, RemainderIs
<1> QED BY <1>1, <1>2, <1>3, <1>7, <1>9

LEMMA LeastIsSmaller ==
  ASSUME NEW m \in Nat, NEW n \in Nat
  PROVE  Smaller(m, n) = Sequence!Least(m, n) /\ Smaller(m, n) \in 0 .. n /\ Sequence!Least(m, n) \in 0 .. n
BY DEF Smaller, Sequence!Least

(* What callers give as counts and indices. *)
LEMMA CountsAreNumbers == Counts \subseteq Nat
<1>1. PICK top \in Capacities : \A m \in Capacities : m <= top
  BY ContainerAssumption
<1>2. PICK most : most = CHOOSE n \in Capacities : \A m \in Capacities : m <= n
  OBVIOUS
<1>3. most \in Nat
  BY <1>1, <1>2, ContainerAssumption
<1>4. Counts = Slots(most) \cup Capacities
  BY <1>2 DEF Counts
<1> QED BY <1>3, <1>4, ContainerAssumption DEF Slots

(* The rounds of a loop: f[k] is what round k made of f[k - 1].  The values *)
(* are taken from the sets D[0] to D[n].                                   *)
Leads(D, step, n) == \A k \in 1 .. n : \A y \in D[k - 1] : step[<<y, k>>] \in D[k]
Runs(D, x, step, n, f) ==
  /\ f = [k \in 0 .. n |-> f[k]] /\ f[0] = x
  /\ \A k \in 1 .. n : f[k - 1] \in D[k - 1] /\ f[k] = step[<<f[k - 1], k>>]

(* A loop each of whose rounds leads from D[k - 1] to D[k] can be run: the *)
(* recursive function that stands for it exists.                           *)
LEMMA LoopRuns ==
  ASSUME NEW n \in Nat, NEW D, NEW x \in D[0], NEW step, Leads(D, step, n)
  PROVE  \E f : Runs(D, x, step, n, f)
<1>0. \A k \in 1 .. n : \A y \in D[k - 1] : step[<<y, k>>] \in D[k]
  BY DEF Leads
<1> DEFINE Good == {m \in 0 .. n : \E f : /\ f = [k \in 0 .. m |-> f[k]] /\ f[0] = x /\ f[m] \in D[m]
                                        /\ \A k \in 1 .. m : f[k - 1] \in D[k - 1] /\ f[k] = step[<<f[k - 1], k>>]}
<1>1. 0 \in Good
  <2>1. PICK f : f = [k \in 0 .. 0 |-> x]
    OBVIOUS
  <2>2. f = [k \in 0 .. 0 |-> f[k]] /\ f[0] = x
    BY <2>1
  <2>3. \A k \in 1 .. 0 : FALSE
    OBVIOUS
  <2>4. 0 \in 0 .. n
    OBVIOUS
  <2> QED BY <2>2, <2>3, <2>4
<1>2. ASSUME NEW m \in 1 .. n, m - 1 \in Good
      PROVE  m \in Good
  <2>1. PICK f : /\ f[0] = x /\ f[m - 1] \in D[m - 1]
                 /\ \A k \in 1 .. m - 1 : f[k - 1] \in D[k - 1] /\ f[k] = step[<<f[k - 1], k>>]
    BY <1>2
  <2>2. PICK g : g = [k \in 0 .. m |-> IF k < m THEN f[k] ELSE step[<<f[m - 1], m>>]]
    OBVIOUS
  <2>3. g = [k \in 0 .. m |-> g[k]] /\ g[0] = x /\ g[m] = step[<<f[m - 1], m>>] /\ g[m - 1] = f[m - 1]
    BY <2>1, <2>2
  <2>4. g[m] \in D[m]
    BY <1>0, <2>1, <2>3
  <2>5. ASSUME NEW k \in 1 .. m
        PROVE  g[k - 1] \in D[k - 1] /\ g[k] = step[<<g[k - 1], k>>]
    <3>1. g[k - 1] = f[k - 1]
      BY <2>2
    <3>2. CASE k \in 1 .. m - 1
      BY <2>1, <2>2, <3>1, <3>2
    <3>3. CASE k = m
      BY <2>1, <2>3, <3>3
    <3>4. k \in 1 .. m - 1 \/ k = m
      OBVIOUS
    <3> QED BY <3>2, <3>3, <3>4
  <2>6. m \in 0 .. n
    OBVIOUS
  <2> QED BY <2>3, <2>4, <2>5, <2>6
<1>3. n \in Good
  <2> HIDE DEF Good
  <2> QED BY <1>1, <1>2, UpTo
<1> QED BY <1>3 DEF Runs

-----------------------------------------------------------------------------
(* Parts of sequences. *)

(* A function on 1 .. n is a sequence. *)
LEMMA FunctionIsSeq ==
  ASSUME NEW V, NEW n \in Nat, NEW f \in [1 .. n -> V]
  PROVE  f \in Seq(V) /\ Len(f) = n /\ DOMAIN f = 1 .. n
<1>1. f \in Seq(V)
  BY SeqDef
<1>2. Len(f) \in Nat /\ DOMAIN f = 1 .. Len(f)
  BY <1>1, LenProperties
<1>3. DOMAIN f = 1 .. n
  OBVIOUS
<1>4. Len(f) = n
  BY <1>2, <1>3
<1> QED BY <1>1, <1>3, <1>4

LEMMA SeqOfMore ==
  ASSUME NEW V, NEW s \in Seq(V), NEW W, V \subseteq W
  PROVE  s \in Seq(W)
<1>1. PICK n \in Nat : s \in [1 .. n -> V]
  BY SeqDef
<1>2. s \in [1 .. n -> W]
  BY <1>1
<1> QED BY <1>2, SeqDef

(* The items m + 1 to n of a sequence. *)
LEMMA PartOf ==
  ASSUME NEW V, NEW s \in Seq(V), NEW m \in 0 .. Len(s), NEW n \in m .. Len(s)
  PROVE  SubSeq(s, m + 1, n) \in Seq(V) /\ Len(SubSeq(s, m + 1, n)) = n - m
<1>1. Len(s) \in Nat
  BY LenProperties
<1>2. \A i \in m + 1 .. n : s[i] \in V
  BY <1>1, ElementOfSeq
<1>3. m + 1 \in Int /\ n \in Int /\ (IF m + 1 <= n THEN n - (m + 1) + 1 ELSE 0) = n - m
  BY <1>1
<1> QED BY <1>2, <1>3, SubSeqProperties

LEMMA PartItem ==
  ASSUME NEW V, NEW s \in Seq(V), NEW m \in 0 .. Len(s), NEW n \in m .. Len(s), NEW i \in 1 .. n - m
  PROVE  SubSeq(s, m + 1, n)[i] = s[m + i]
<1>1. Len(s) \in Nat
  BY LenProperties
<1>2. \A j \in m + 1 .. n : s[j] \in V
  BY <1>1, ElementOfSeq
<1>3. \A j \in 1 .. n - (m + 1) + 1 : SubSeq(s, m + 1, n)[j] = s[(m + 1) + j - 1]
  <2>1. m + 1 \in Int /\ n \in Int
    BY <1>1
  <2> QED BY <1>2, <2>1, SubSeqProperties
<1>4. i \in 1 .. n - (m + 1) + 1 /\ (m + 1) + i - 1 = m + i
  BY <1>1
<1> QED BY <1>3, <1>4

LEMMA AppendIs ==
  ASSUME NEW V, NEW s \in Seq(V), NEW v \in V
  PROVE  Append(s, v) \in Seq(V) /\ Len(Append(s, v)) = Len(s) + 1
BY LenProperties, AppendProperties

LEMMA AppendItem ==
  ASSUME NEW V, NEW s \in Seq(V), NEW v \in V, NEW i \in 1 .. Len(s) + 1
  PROVE  Append(s, v)[i] = IF i = Len(s) + 1 THEN v ELSE s[i]
<1>1. Len(s) \in Nat
  BY LenProperties
<1>2. Append(s, v)[Len(s) + 1] = v /\ \A j \in 1 .. Len(s) : Append(s, v)[j] = s[j]
  BY AppendProperties
<1>3. i = Len(s) + 1 \/ i \in 1 .. Len(s)
  BY <1>1
<1> QED BY <1>1, <1>2, <1>3

(* Everything but the first item. *)
LEMMA RestIs ==
  ASSUME NEW V, NEW s \in Seq(V), Len(s) > 0, NEW p, p = SubSeq(s, 2, Len(s))
  PROVE  p \in Seq(V) /\ Len(p) = Len(s) - 1 /\ \A i \in 1 .. Len(s) - 1 : p[i] = s[i + 1]
<1>1. PICK one \in 0 .. Len(s) : one = 1
  BY LenProperties
<1>2. Len(s) \in one .. Len(s) /\ p = SubSeq(s, one + 1, Len(s))
  BY <1>1, LenProperties
<1>3. p \in Seq(V) /\ Len(p) = Len(s) - one
  BY <1>2, PartOf
<1>4. \A i \in 1 .. Len(s) - one : p[i] = s[one + i]
  BY <1>2, PartItem
<1> QED BY <1>1, <1>3, <1>4

LEMMA FirstsAre ==
  ASSUME NEW V, NEW s \in Seq(V), NEW n \in Nat
  PROVE  Sequence!Firsts(s, n) = IF n >= Len(s) THEN s ELSE SubSeq(s, 1, n)
<1>1. Len(s) \in Nat
  BY LenProperties
<1>2. CASE n >= Len(s)
  <2>1. Sequence!Least(n, Len(s)) = Len(s)
    BY <1>1, <1>2 DEF Sequence!Least
  <2>2. Sequence!Firsts(s, n) = SubSeq(s, 1, Len(s))
    BY <2>1 DEF Sequence!Firsts
  <2> QED BY <1>2, <2>2, SubSeqFull
<1>3. CASE ~(n >= Len(s))
  <2>1. Sequence!Least(n, Len(s)) = n
    BY <1>1, <1>3 DEF Sequence!Least
  <2> QED BY <1>3, <2>1 DEF Sequence!Firsts
<1> QED BY <1>2, <1>3

(* As many of the items of vs as there is room for. *)
LEMMA FirstsShort ==
  ASSUME NEW V, NEW vs \in Seq(V), NEW k \in Nat
  PROVE  /\ Smaller(Len(vs), k) \in 0 .. Len(vs) /\ Smaller(Len(vs), k) <= k
         /\ Sequence!Firsts(vs, k) = SubSeq(vs, 1, Smaller(Len(vs), k))
         /\ Len(Sequence!Firsts(vs, k)) = Smaller(Len(vs), k)
<1>1. Len(vs) \in Nat
  BY LenProperties
<1>2. PICK m : m = Smaller(Len(vs), k)
  OBVIOUS
<1>3. m \in 0 .. Len(vs) /\ m <= k
  BY <1>1, <1>2 DEF Smaller
<1>4. m = Sequence!Least(k, Len(vs))
  BY <1>1, <1>2 DEF Smaller, Sequence!Least
<1>5. Sequence!Firsts(vs, k) = SubSeq(vs, 1, m)
  BY <1>4 DEF Sequence!Firsts
<1>6. Len(SubSeq(vs, 1, m)) = m
  <2>1. PICK zero \in 0 .. Len(vs) : zero = 0 /\ m \in zero .. Len(vs)
    BY <1>1, <1>3
  <2>2. Len(SubSeq(vs, zero + 1, m)) = m - zero
    BY <2>1, PartOf
  <2> QED BY <2>1, <2>2, <1>3
<1> QED BY <1>2, <1>3, <1>5, <1>6

LEMMA WithoutIs ==
  ASSUME NEW V, NEW s \in Seq(V), NEW n \in Nat
  PROVE  Sequence!Without(s, n) = IF n >= Len(s) THEN <<>> ELSE SubSeq(s, n + 1, Len(s))
<1>1. Len(s) \in Nat
  BY LenProperties
<1>2. CASE n >= Len(s)
  <2>1. Sequence!Least(n, Len(s)) = Len(s)
    BY <1>1, <1>2 DEF Sequence!Least
  <2>2. Sequence!Without(s, n) = SubSeq(s, Len(s) + 1, Len(s))
    BY <2>1 DEF Sequence!Without
  <2>3. SubSeq(s, Len(s) + 1, Len(s)) = <<>>
    BY <1>1, SubSeqEmpty
  <2> QED BY <1>2, <2>2, <2>3
<1>3. CASE ~(n >= Len(s))
  <2>1. Sequence!Least(n, Len(s)) = n
    BY <1>1, <1>3 DEF Sequence!Least
  <2> QED BY <1>3, <2>1 DEF Sequence!Without
<1> QED BY <1>2, <1>3

(* The last n items. *)
LEMMA LastsAre ==
  ASSUME NEW V, NEW s \in Seq(V), NEW n \in Nat
  PROVE  Sequence!Lasts(s, n) = IF n >= Len(s) THEN s ELSE SubSeq(s, Len(s) - n + 1, Len(s))
<1>1. Len(s) \in Nat
  BY LenProperties
<1>2. CASE n >= Len(s)
  <2>1. Sequence!Least(n, Len(s)) = Len(s)
    BY <1>1, <1>2 DEF Sequence!Least
  <2>2. Sequence!Lasts(s, n) = SubSeq(s, 1, Len(s))
    BY <1>1, <2>1 DEF Sequence!Lasts
  <2> QED BY <1>2, <2>2, SubSeqFull
<1>3. CASE ~(n >= Len(s))
  <2>1. Sequence!Least(n, Len(s)) = n
    BY <1>1, <1>3 DEF Sequence!Least
  <2> QED BY <1>3, <2>1 DEF Sequence!Lasts
<1> QED BY <1>2, <1>3

(* Parts of a sequence hold what it does. *)
LEMMA PartsIn ==
  ASSUME NEW V, NEW s \in Seq(V), NEW n \in Nat
  PROVE  Sequence!Firsts(s, n) \in Seq(V) /\ Sequence!Lasts(s, n) \in Seq(V) /\ Sequence!Without(s, n) \in Seq(V)
<1>1. PICK l \in Nat : l = Len(s)
  BY LenProperties
<1>2. CASE n >= l
  <2>1. <<>> \in Seq(V)
    OBVIOUS
  <2> QED BY <1>1, <1>2, <2>1, FirstsAre, LastsAre, WithoutIs
<1>3. CASE n < l
  <2>1. PICK m \in 0 .. Len(s) : m = l - n /\ Len(s) \in m .. Len(s)
    BY <1>1, <1>3
  <2>2. PICK k \in 0 .. Len(s) : k = n /\ Len(s) \in k .. Len(s)
    BY <1>1, <1>3
  <2>3. PICK zero \in 0 .. Len(s) : zero = 0 /\ k \in zero .. Len(s)
    BY <1>1, <2>2
  <2>4. SubSeq(s, m + 1, Len(s)) \in Seq(V)
    BY <2>1, PartOf
  <2>5. SubSeq(s, k + 1, Len(s)) \in Seq(V)
    BY <2>2, PartOf
  <2>6. SubSeq(s, zero + 1, k) \in Seq(V)
    BY <2>3, PartOf
  <2>7. Sequence!Firsts(s, n) = SubSeq(s, zero + 1, k)
    BY <1>1, <1>3, <2>2, <2>3, FirstsAre
  <2>8. Sequence!Lasts(s, n) = SubSeq(s, m + 1, Len(s))
    BY <1>1, <1>3, <2>1, LastsAre
  <2>9. Sequence!Without(s, n) = SubSeq(s, k + 1, Len(s))
    BY <1>1, <1>3, <2>2, WithoutIs
  <2> QED BY <2>4, <2>5, <2>6, <2>7, <2>8, <2>9
<1> QED BY <1>1, <1>2, <1>3

(* The first and the last item. *)
LEMMA EndsAre ==
  ASSUME NEW V, NEW s \in Seq(V), Len(s) > 0
  PROVE  /\ Sequence!Firsts(s, 1) = <<s[1]>> /\ Sequence!Lasts(s, 1) = <<s[Len(s)]>>
         /\ Sequence!Without(s, 1) = SubSeq(s, 2, Len(s)) 
         /\ Sequence!Firsts(s, Len(s) - 1) = SubSeq(s, 1, Len(s) - 1)
<1>1. PICK l \in Nat : l = Len(s) /\ l > 0
  BY LenProperties
<1>2. PICK one \in 0 .. Len(s) : one = 1
  BY <1>1
<1>3. PICK zero \in 0 .. Len(s) : zero = 0 /\ one \in zero .. Len(s)
  BY <1>1, <1>2
<1>4. PICK m \in 0 .. Len(s) : m = l - 1 /\ Len(s) \in m .. Len(s)
  BY <1>1
<1>5. SubSeq(s, zero + 1, one) = <<s[1]>>
  <2>1. PICK p : p = SubSeq(s, zero + 1, one)
    OBVIOUS
  <2>2. p \in Seq(V) /\ Len(p) = 1
    BY <1>2, <1>3, <2>1, PartOf
  <2>3. \A i \in 1 .. one - zero : p[i] = s[zero + i]
    BY <1>3, <2>1, PartItem
  <2>4. p[1] = s[1]
    BY <1>2, <1>3, <2>3
  <2>5. p = <<p[1]>>
    BY <2>2
  <2> QED BY <2>1, <2>4, <2>5
<1>6. SubSeq(s, m + 1, Len(s)) = <<s[Len(s)]>>
  <2>1. PICK p : p = SubSeq(s, m + 1, Len(s))
    OBVIOUS
  <2>2. p \in Seq(V) /\ Len(p) = 1
    BY <1>1, <1>4, <2>1, PartOf
  <2>3. \A i \in 1 .. Len(s) - m : p[i] = s[m + i]
    BY <1>4, <2>1, PartItem
  <2>4. p[1] = s[Len(s)]
    BY <1>1, <1>4, <2>3
  <2>5. p = <<p[1]>>
    BY <2>2
  <2> QED BY <2>1, <2>4, <2>5
<1>7. Sequence!Firsts(s, 1) = <<s[1]>>
  <2>1. CASE 1 >= Len(s)
    <3>1. Sequence!Firsts(s, 1) = s
      BY <2>1, FirstsAre
    <3>2. Len(s) = 1
      BY <1>1, <2>1
    <3>3. s = <<s[1]>>
      <4>1. PICK p : p = <<s[1]>>
        OBVIOUS
      <4>2. s[1] \in V
        BY <1>1, ElementOfSeq
      <4>3. p \in Seq(V) /\ Len(p) = 1 /\ p[1] = s[1]
        BY <4>1, <4>2
      <4>4. \A i \in 1 .. Len(s) : s[i] = p[i]
        BY <3>2, <4>3
      <4>5. s = p
        BY <3>2, <4>3, <4>4, SeqEqual
      <4> QED BY <4>1, <4>5
    <3> QED BY <3>1, <3>3
  <2>2. CASE ~(1 >= Len(s))
    <3>1. Sequence!Firsts(s, 1) = SubSeq(s, 1, 1)
      <4>1. 1 \in Nat
        OBVIOUS
      <4> QED BY <2>2, <4>1, FirstsAre
    <3>2. zero + 1 = 1
      BY <1>3
    <3> QED BY <3>1, <3>2, <1>2, <1>5
  <2> QED BY <2>1, <2>2
<1>8. Sequence!Lasts(s, 1) = <<s[Len(s)]>>
  <2>1. CASE 1 >= Len(s)
    <3>1. Sequence!Lasts(s, 1) = s
      BY <2>1, LastsAre
    <3>2. Len(s) = 1
      BY <1>1, <2>1
    <3> QED BY <3>1, <3>2
  <2>2. CASE ~(1 >= Len(s))
    <3>1. Sequence!Lasts(s, 1) = SubSeq(s, m + 1, Len(s))
      BY <1>1, <1>4, <2>2, LastsAre
    <3> QED BY <3>1, <1>6
  <2> QED BY <2>1, <2>2
<1>9. Sequence!Without(s, 1) = SubSeq(s, 2, Len(s))
  <2>1. CASE 1 >= Len(s)
    <3>1. Sequence!Without(s, 1) = <<>> /\ Len(s) = 1
      BY <1>1, <2>1, WithoutIs
    <3>2. SubSeq(s, 2, Len(s)) = <<>>
      BY <3>1, SubSeqEmpty
    <3> QED BY <3>1, <3>2
  <2>2. CASE ~(1 >= Len(s))
    <3>1. Sequence!Without(s, 1) = SubSeq(s, 1 + 1, Len(s))
      BY <2>2, WithoutIs
    <3> QED BY <3>1
  <2> QED BY <2>1, <2>2
<1>10. Sequence!Firsts(s, Len(s) - 1) = SubSeq(s, 1, Len(s) - 1)
  <2>1. m \in Nat /\ ~(m >= Len(s)) /\ m = Len(s) - 1
    BY <1>1, <1>4
  <2> QED BY <2>1, FirstsAre
<1> QED BY <1>7, <1>8, <1>9, <1>10

(* What is left after one more item is taken. *)
LEMMA RestOfRest ==
  ASSUME NEW V, NEW s \in Seq(V), NEW k \in 1 .. Len(s), NEW p, p = SubSeq(s, (k - 1) + 1, Len(s))
  PROVE  Len(p) > 0 /\ SubSeq(p, 2, Len(p)) = SubSeq(s, k + 1, Len(s))
<1>1. PICK z \in Nat : z = Len(s)
  BY LenProperties
<1>2. PICK m \in 0 .. Len(s) : m = k - 1
  BY <1>1
<1>3. PICK y \in m .. Len(s) : y = Len(s)
  BY <1>1, <1>2
<1>4. /\ SubSeq(s, m + 1, y) \in Seq(V) /\ Len(SubSeq(s, m + 1, y)) = y - m
      /\ \A i \in 1 .. y - m : SubSeq(s, m + 1, y)[i] = s[m + i]
  BY <1>2, <1>3, PartOf, PartItem
<1>20. p = SubSeq(s, m + 1, y)
  BY <1>2, <1>3
<1>5. p \in Seq(V) /\ Len(p) = y - m
  BY <1>4, <1>20
<1>6. \A i \in 1 .. y - m : p[i] = s[m + i]
  BY <1>4, <1>20
<1>7. Len(p) > 0 /\ Len(p) = z - k + 1
  <2>1. y - m = z - k + 1 /\ z - k + 1 > 0
    <3>1. k \in 1 .. z
      BY <1>1
    <3> QED BY <3>1, <1>1, <1>2, <1>3
  <2> QED BY <2>1, <1>5
<1>8. PICK q : q = SubSeq(p, 2, Len(p))
  OBVIOUS
<1>9. q \in Seq(V) /\ Len(q) = Len(p) - 1 /\ \A i \in 1 .. Len(p) - 1 : q[i] = p[i + 1]
  BY <1>5, <1>7, <1>8, RestIs
<1>10. PICK l \in 0 .. Len(s) : l = k
  BY <1>1
<1>11. PICK x \in l .. Len(s) : x = Len(s)
  BY <1>1, <1>10
<1>12. PICK t : t = SubSeq(s, l + 1, x)
  OBVIOUS
<1>13. t \in Seq(V) /\ Len(t) = x - l
  BY <1>11, <1>12, PartOf
<1>14. \A i \in 1 .. x - l : t[i] = s[l + i]
  BY <1>11, <1>12, PartItem
<1>15. Len(q) = Len(t) /\ Len(t) = z - k
  BY <1>1, <1>7, <1>9, <1>10, <1>11, <1>13
<1>16. ASSUME NEW i \in 1 .. z - k
       PROVE  q[i] = t[i]
  <2>1. q[i] = p[i + 1] /\ i + 1 \in 1 .. y - m
    BY <1>1, <1>2, <1>3, <1>7, <1>9
  <2>2. p[i + 1] = s[m + (i + 1)]
    BY <1>6, <2>1
  <2>3. t[i] = s[l + i]
    BY <1>1, <1>10, <1>11, <1>14
  <2>4. m + (i + 1) = l + i
    BY <1>2, <1>10
  <2> QED BY <2>1, <2>2, <2>3, <2>4
<1>17. q = t
  BY <1>9, <1>13, <1>15, <1>16, SeqEqual
<1> QED BY <1>7, <1>8, <1>10, <1>11, <1>12, <1>17

(* One more item behind a full sequence pushes out the first. *)
LEMMA LastsAfterAppend ==
  ASSUME NEW V, NEW s \in Seq(V), NEW v \in V, NEW c \in Nat, c > 0, Len(s) = c
  PROVE  Sequence!Lasts(Append(s, v), c) = Append(SubSeq(s, 2, c), v)
<1>1. PICK t : t = Append(s, v)
  OBVIOUS
<1>2. t \in Seq(V) /\ Len(t) = c + 1
  BY <1>1, AppendIs
<1>3. \A i \in 1 .. c + 1 : t[i] = IF i = c + 1 THEN v ELSE s[i]
  BY <1>1, AppendItem
<1>4. Sequence!Lasts(t, c) = SubSeq(t, 2, c + 1)
  <2>1. ~(c >= Len(t)) /\ Len(t) - c + 1 = 2
    BY <1>2
  <2> QED BY <1>2, <2>1, LastsAre
<1>5. PICK p : p = SubSeq(s, 2, c)
  OBVIOUS
<1>6. p \in Seq(V) /\ Len(p) = c - 1 /\ \A i \in 1 .. c - 1 : p[i] = s[i + 1]
  BY <1>5, RestIs
<1>7. PICK q : q = SubSeq(t, 2, c + 1)
  OBVIOUS
<1>8. q \in Seq(V) /\ Len(q) = c /\ \A i \in 1 .. c : q[i] = t[i + 1]
  <2>1. Len(t) > 0 /\ q = SubSeq(t, 2, Len(t)) /\ Len(t) - 1 = c
    BY <1>2, <1>7
  <2> QED BY <1>2, <2>1, RestIs
<1>9. PICK u : u = Append(p, v)
  OBVIOUS
<1>10. u \in Seq(V) /\ Len(u) = c
  BY <1>6, <1>9, AppendIs
<1>11. \A i \in 1 .. c : u[i] = IF i = c THEN v ELSE p[i]
  <2>1. Len(p) + 1 = c
    BY <1>6
  <2>2. \A i \in 1 .. Len(p) + 1 : u[i] = IF i = Len(p) + 1 THEN v ELSE p[i]
    BY <1>6, <1>9, AppendItem
  <2> QED BY <2>1, <2>2
<1>12. \A i \in 1 .. c : q[i] = u[i]
  BY <1>3, <1>6, <1>8, <1>11
<1>13. q = u
  BY <1>8, <1>10, <1>12, SeqEqual
<1> QED BY <1>1, <1>4, <1>5, <1>7, <1>9, <1>13

(* What was pushed out before makes no difference to what is kept. *)
LEMMA LastsOfMore ==
  ASSUME NEW V, NEW t \in Seq(V), NEW v \in V, NEW c \in Nat, c > 0
  PROVE  Sequence!Lasts(Append(Sequence!Lasts(t, c), v), c) = Sequence!Lasts(Append(t, v), c)
<1>1. PICK n \in Nat : n = Len(t)
  BY LenProperties
<1>2. CASE c >= n
  BY <1>1, <1>2, LastsAre
<1>3. CASE n > c
  <2>1. PICK m \in 0 .. Len(t) : m = n - c /\ Len(t) \in m .. Len(t)
    BY <1>1, <1>3
  <2>2. PICK p : p = SubSeq(t, m + 1, Len(t))
    OBVIOUS
  <2>3. p \in Seq(V) /\ Len(p) = c
    BY <1>1, <2>1, <2>2, PartOf
  <2>4. \A i \in 1 .. c : p[i] = t[m + i]
    <3>1. \A i \in 1 .. Len(t) - m : p[i] = t[m + i]
      BY <2>1, <2>2, PartItem
    <3> QED BY <3>1, <1>1, <2>1
  <2>5. Sequence!Lasts(t, c) = p
    <3>1. ~(c >= Len(t)) /\ Len(t) - c + 1 = m + 1
      BY <1>1, <1>3, <2>1
    <3> QED BY <2>2, <3>1, LastsAre
  <2>6. PICK q : q = SubSeq(p, 2, c)
    OBVIOUS
  <2>7. q \in Seq(V) /\ Len(q) = c - 1 /\ \A i \in 1 .. c - 1 : q[i] = p[i + 1]
    BY <2>3, <2>6, RestIs
  <2>8. Sequence!Lasts(Append(p, v), c) = Append(q, v)
    BY <2>3, <2>6, LastsAfterAppend
  <2>9. PICK u : u = Append(q, v)
    OBVIOUS
  <2>10. u \in Seq(V) /\ Len(u) = c
    BY <2>7, <2>9, AppendIs
  <2>11. \A i \in 1 .. c : u[i] = IF i = c THEN v ELSE q[i]
    <3>1. Len(q) + 1 = c
      BY <2>7
    <3>2. \A i \in 1 .. Len(q) + 1 : u[i] = IF i = Len(q) + 1 THEN v ELSE q[i]
      BY <2>7, <2>9, AppendItem
    <3> QED BY <3>1, <3>2
  <2>12. PICK a : a = Append(t, v)
    OBVIOUS
  <2>13. a \in Seq(V) /\ Len(a) = n + 1
    BY <1>1, <2>12, AppendIs
  <2>14. \A i \in 1 .. n + 1 : a[i] = IF i = n + 1 THEN v ELSE t[i]
    BY <1>1, <2>12, AppendItem
  <2>15. PICK l \in 0 .. Len(a) : l = n + 1 - c /\ Len(a) \in l .. Len(a)
    BY <1>3, <2>13
  <2>16. PICK b : b = SubSeq(a, l + 1, Len(a))
    OBVIOUS
  <2>17. b \in Seq(V) /\ Len(b) = c
    BY <2>13, <2>15, <2>16, PartOf
  <2>18. \A i \in 1 .. c : b[i] = a[l + i]
    <3>1. \A i \in 1 .. Len(a) - l : b[i] = a[l + i]
      BY <2>13, <2>15, <2>16, PartItem
    <3> QED BY <3>1, <2>13, <2>15
  <2>19. Sequence!Lasts(a, c) = b
    <3>1. ~(c >= Len(a)) /\ Len(a) - c + 1 = l + 1
      BY <1>3, <2>13, <2>15
    <3> QED BY <2>13, <2>16, <3>1, LastsAre
  <2>20. ASSUME NEW i \in 1 .. c
         PROVE  u[i] = b[i]
    <3>1. CASE i = c
      <4>1. l + i = n + 1 /\ n + 1 \in 1 .. n + 1
        BY <2>15, <3>1
      <4> QED BY <4>1, <2>11, <2>14, <2>18, <3>1
    <3>2. CASE i \in 1 .. c - 1
      <4>1. q[i] = p[i + 1] /\ i + 1 \in 1 .. c
        BY <2>7, <3>2
      <4>2. p[i + 1] = t[m + (i + 1)]
        BY <2>4, <4>1
      <4>3. l + i = m + (i + 1) /\ l + i \in 1 .. n + 1 /\ l + i # n + 1 /\ i # c
        BY <2>1, <2>15, <1>3, <3>2
      <4>4. b[i] = t[l + i]
        BY <2>14, <2>18, <4>3
      <4> QED BY <4>1, <4>2, <4>3, <4>4, <2>11
    <3>3. i = c \/ i \in 1 .. c - 1
      OBVIOUS
    <3> QED BY <3>1, <3>2, <3>3
  <2>21. u = b
    BY <2>10, <2>17, <2>20, SeqEqual
  <2> QED BY <2>5, <2>8, <2>9, <2>12, <2>19, <2>21
<1> QED BY <1>1, <1>2, <1>3

Associates(s, p, v) == Append(s \o p, v) = s \o Append(p, v)

(* An item behind two sequences is an item behind the second. *)
LEMMA AppendToConcat ==
  ASSUME NEW V, NEW s \in Seq(V), NEW p \in Seq(V), NEW v \in V
  PROVE  Associates(s, p, v)
<1>1. s \o p \in Seq(V)
  BY ConcatProperties
<1>2. Append(s \o p, v) = (s \o p) \o <<v>>
  BY <1>1, AppendIsConcat
<1>3. Append(p, v) = p \o <<v>>
  BY AppendIsConcat
<1>4. \A u \in Seq(V) : (s \o p) \o u = s \o (p \o u)
  BY ConcatAssociative
<1>5. <<v>> \in Seq(V)
  OBVIOUS
<1>6. (s \o p) \o <<v>> = s \o (p \o <<v>>)
  BY <1>4, <1>5
<1> QED BY <1>2, <1>3, <1>6 DEF Associates

(* One more of the items of vs behind s. *)
LEMMA OneMore ==
  ASSUME NEW V, NEW s \in Seq(V), NEW vs \in Seq(V), NEW k \in 1 .. Len(vs)
  PROVE  /\ s \o SubSeq(vs, 1, k - 1) \in Seq(V) /\ Len(s \o SubSeq(vs, 1, k - 1)) = Len(s) + (k - 1)
         /\ Append(s \o SubSeq(vs, 1, k - 1), vs[k]) = s \o SubSeq(vs, 1, k)
<1>1. Len(vs) \in Nat /\ Len(s) \in Nat /\ vs[k] \in V
  BY LenProperties, ElementOfSeq
<1>2. PICK zero \in 0 .. Len(vs), m \in 0 .. Len(vs) : zero = 0 /\ m = k - 1 /\ m \in zero .. Len(vs)
  BY <1>1
<1>3. PICK p : p = SubSeq(vs, 1, k - 1)
  OBVIOUS
<1>4. p \in Seq(V) /\ Len(p) = k - 1
  <2>1. p = SubSeq(vs, zero + 1, m)
    BY <1>2, <1>3
  <2> QED BY <1>2, <2>1, PartOf
<1>5. s \o p \in Seq(V) /\ Len(s \o p) = Len(s) + (k - 1)
  BY <1>4, ConcatProperties
<1>6. SubSeq(vs, 1, k) = Append(p, vs[k])
  <2>1. PICK one \in 1 .. Len(vs) : one = 1 /\ k \in one .. Len(vs)
    BY <1>1
  <2>2. SubSeq(vs, one, k) = SubSeq(vs, one, k - 1) \o <<vs[k]>>
    BY <2>1, SubSeqRecursiveSecond
  <2>3. Append(p, vs[k]) = p \o <<vs[k]>>
    BY <1>1, <1>4, AppendIsConcat
  <2> QED BY <2>1, <2>2, <2>3, <1>3
<1>7. Append(s \o p, vs[k]) = s \o Append(p, vs[k])
  <2>1. Associates(s, p, vs[k])
    BY <1>1, <1>4, AppendToConcat
  <2> QED BY <2>1 DEF Associates
<1>8. Append(s \o p, vs[k]) = s \o SubSeq(vs, 1, k)
  BY <1>6, <1>7
<1>9. s \o SubSeq(vs, 1, k - 1) = s \o p
  BY <1>3
<1> QED BY <1>5, <1>8, <1>9

LEMMA NoMore ==
  ASSUME NEW V, NEW s \in Seq(V), NEW vs
  PROVE  s \o SubSeq(vs, 1, 0) = s
<1>1. SubSeq(vs, 1, 0) = <<>>
  BY SubSeqEmpty
<1> QED BY <1>1, ConcatEmptySeq

LEMMA TurnedNone ==
  ASSUME NEW V, NEW s \in Seq(V), Len(s) = 0, NEW k
  PROVE  Sequence!Turned(s, k) = s
<1>1. DOMAIN s = {} /\ s = [i \in DOMAIN s |-> s[i]]
  BY LenProperties
<1> QED BY <1>1 DEF Sequence!Turned

(* A turned sequence holds what it did. *)
LEMMA TurnedIn ==
  ASSUME NEW V, NEW s \in Seq(V), NEW k \in Nat
  PROVE  Sequence!Turned(s, k) \in Seq(V)
<1>1. PICK n \in Nat : n = Len(s) /\ DOMAIN s = 1 .. n
  BY LenProperties
<1>2. ASSUME NEW i \in 1 .. n
      PROVE  s[((i - 1 + k) % n) + 1] \in V
  <2>1. PICK j \in 0 .. n - 1 : j = (i - 1 + k) % n
    <3>1. n > 0 /\ i - 1 + k \in Int
      OBVIOUS
    <3> QED BY <3>1, RemainderIn
  <2>2. j + 1 \in 1 .. Len(s)
    BY <1>1
  <2> QED BY <2>1, <2>2, ElementOfSeq
<1>3. PICK t : t = Sequence!Turned(s, k)
  OBVIOUS
<1>4. t \in [1 .. n -> V]
  BY <1>1, <1>2, <1>3 DEF Sequence!Turned
<1> QED BY <1>3, <1>4, FunctionIsSeq

-----------------------------------------------------------------------------
(* Circular buffers: n items in c slots, the first of them in slot h. *)

(* The item at i of a circular buffer of c slots whose first is at h.      *)
Place(h, i, c) == IF h + i < c THEN h + i ELSE h + i - c

(* The slot of an item is found by a comparison in place of a remainder. *)
LEMMA Wrap ==
  ASSUME NEW c \in Nat, NEW h \in 0 .. c - 1, NEW i \in 0 .. c
  PROVE  (h + i) % c = Place(h, i, c) /\ Place(h, i, c) \in 0 .. c - 1
<1>1. h + i \in Nat /\ h + i < 2 * c
  OBVIOUS
<1>2. (h + i) % c = Place(h, i, c)
  <2>1. PICK x \in Nat : x = h + i
    BY <1>1
  <2>2. x % c = IF x < c THEN x ELSE x - c
    BY <1>1, <2>1, WrapOf
  <2> QED BY <2>1, <2>2 DEF Place
<1>3. Place(h, i, c) \in 0 .. c - 1
  BY DEF Place
<1> QED BY <1>2, <1>3

(* The n items of a circular buffer of c slots whose first is in slot h.   *)
Circle(data, h, c, n) == [i \in 1 .. n |-> data[(h + (i - 1)) % c]]

(* An assignment to a slot. *)
Put(data, g, v) == [data EXCEPT ![g] = v]
Storages(V, c) == [Slots(c) -> V]
Heads(c) == IF c = 0 THEN {0} ELSE Slots(c)

(* The items of a circular buffer are a sequence. *)
LEMMA CircleIs ==
  ASSUME NEW V, NEW c \in Nat, NEW data \in Storages(V, c), NEW h \in Heads(c), NEW n \in 0 .. c
  PROVE  /\ Circle(data, h, c, n) \in Seq(V) /\ Len(Circle(data, h, c, n)) = n
         /\ DOMAIN Circle(data, h, c, n) = 1 .. n
         /\ \A i \in 1 .. n : Circle(data, h, c, n)[i] = data[Place(h, i - 1, c)]
<1>1. ASSUME NEW i \in 1 .. n
      PROVE  (h + (i - 1)) % c = Place(h, i - 1, c) /\ Place(h, i - 1, c) \in Slots(c)
  <2>1. h \in 0 .. c - 1 /\ i - 1 \in 0 .. c
    BY DEF Heads, Slots
  <2> QED BY <2>1, Wrap DEF Slots
<1>2. Circle(data, h, c, n) = [i \in 1 .. n |-> data[Place(h, i - 1, c)]]
  BY <1>1 DEF Circle
<1>3. Circle(data, h, c, n) \in [1 .. n -> V]
  BY <1>1, <1>2 DEF Storages, Put
<1> QED BY <1>2, <1>3, FunctionIsSeq

LEMMA CircleSeq ==
  ASSUME NEW V, NEW c \in Nat, NEW data \in Storages(V, c), NEW h \in Heads(c), NEW n \in 0 .. c
  PROVE  Circle(data, h, c, n) \in Seq(V) /\ Len(Circle(data, h, c, n)) = n
BY CircleIs

LEMMA CircleItem ==
  ASSUME NEW V, NEW c \in Nat, NEW data \in Storages(V, c), NEW h \in Heads(c), NEW n \in 0 .. c, NEW i \in 1 .. n
  PROVE  Circle(data, h, c, n)[i] = data[Place(h, i - 1, c)]
BY CircleIs

LEMMA CircleNone ==
  ASSUME NEW data, NEW h, NEW c
  PROVE  Circle(data, h, c, 0) = <<>>
BY DEF Circle

LEMMA CircleAppends ==
  ASSUME NEW V, NEW c \in Nat, NEW data \in Storages(V, c), NEW h \in Heads(c), NEW n \in 0 .. c, n < c, NEW v \in V
  PROVE  /\ (h + n) % c \in Slots(c)
         /\ Circle(Put(data, (h + n) % c, v), h, c, n + 1) = Append(Circle(data, h, c, n), v)
<1>1. h \in 0 .. c - 1 /\ (h + n) % c = Place(h, n, c) /\ Place(h, n, c) \in Slots(c)
  <2>1. h \in 0 .. c - 1 /\ n \in 0 .. c
    BY DEF Heads, Slots
  <2> QED BY <2>1, Wrap DEF Slots
<1>2. PICK after : after = Put(data, (h + n) % c, v)
  OBVIOUS
<1>3. after \in Storages(V, c)
  BY <1>1, <1>2 DEF Storages, Put
<1>4. PICK s : s = Circle(data, h, c, n)
  OBVIOUS
<1>5. PICK t : t = Circle(after, h, c, n + 1)
  OBVIOUS
<1>6. s \in Seq(V) /\ Len(s) = n /\ \A i \in 1 .. n : s[i] = data[Place(h, i - 1, c)]
  <2>1. s \in Seq(V) /\ Len(s) = n
    BY <1>4, CircleSeq
  <2>2. \A i \in 1 .. n : s[i] = data[Place(h, i - 1, c)]
    BY <1>4, CircleItem
  <2> QED BY <2>1, <2>2
<1>7. t \in Seq(V) /\ Len(t) = n + 1 /\ \A i \in 1 .. n + 1 : t[i] = after[Place(h, i - 1, c)]
  <2>1. PICK m \in 0 .. c : m = n + 1
    OBVIOUS
  <2>2. t = Circle(after, h, c, m)
    BY <1>5, <2>1
  <2>3. t \in Seq(V) /\ Len(t) = m /\ \A i \in 1 .. m : t[i] = after[Place(h, i - 1, c)]
    <3>1. t \in Seq(V) /\ Len(t) = m
      BY <1>3, <2>2, CircleSeq
    <3>2. \A i \in 1 .. m : t[i] = after[Place(h, i - 1, c)]
      BY <1>3, <2>2, CircleItem
    <3> QED BY <3>1, <3>2
  <2> QED BY <2>1, <2>3
<1>8. /\ Append(s, v) \in Seq(V) /\ Len(Append(s, v)) = n + 1
      /\ \A i \in 1 .. n : Append(s, v)[i] = s[i]
      /\ Append(s, v)[n + 1] = v
  BY <1>6, AppendProperties
<1>9. ASSUME NEW i \in 1 .. n + 1
      PROVE  t[i] = Append(s, v)[i]
  <2>1. CASE i = n + 1
    <3>1. t[i] = after[Place(h, n, c)]
      BY <1>7, <2>1
    <3> QED BY <3>1, <1>1, <1>2, <1>8, <2>1 DEF Storages, Put
  <2>2. CASE i \in 1 .. n
    <3>1. Place(h, i - 1, c) # Place(h, n, c) /\ Place(h, i - 1, c) \in Slots(c)
      BY <1>1, <2>2 DEF Place, Slots
    <3>2. t[i] = data[Place(h, i - 1, c)]
      BY <1>1, <1>2, <1>7, <3>1 DEF Storages, Put
    <3> QED BY <3>2, <1>6, <1>8, <2>2
  <2>3. i = n + 1 \/ i \in 1 .. n
    OBVIOUS
  <2> QED BY <2>1, <2>2, <2>3
<1>10. t = Append(s, v)
  BY <1>7, <1>8, <1>9, SeqEqual
<1> QED BY <1>1, <1>2, <1>4, <1>5, <1>10

(* A value put in the slot behind the last item is appended. *)
LEMMA CircleAppended ==
  ASSUME NEW V, NEW c \in Nat, NEW data \in Storages(V, c), NEW h \in Heads(c), NEW n \in 0 .. c, n < c, NEW v \in V, NEW g, g = (h + n) % c
  PROVE  g \in Slots(c) /\ Circle(Put(data, g, v), h, c, n + 1) = Append(Circle(data, h, c, n), v)
BY CircleAppends

SlotBefore(h, c) == IF h = 0 THEN c - 1 ELSE h - 1

(* A value put in the slot before the first item is prepended. *)
LEMMA CirclePrepended ==
  ASSUME NEW V, NEW c \in Nat, NEW data \in Storages(V, c), NEW h \in Heads(c), NEW n \in 0 .. c, n < c, NEW v \in V
  PROVE  /\ SlotBefore(h, c) \in Heads(c)
         /\ Circle(Put(data, SlotBefore(h, c), v), SlotBefore(h, c), c, n + 1) = <<v>> \o Circle(data, h, c, n)
<1>1. PICK b \in 0 .. c - 1 : b = SlotBefore(h, c) /\ b \in Slots(c) /\ b \in Heads(c) /\ h \in 0 .. c - 1
  BY DEF Heads, Slots, SlotBefore
<1>2. PICK after : after = Put(data, b, v)
  OBVIOUS
<1>3. after \in Storages(V, c)
  BY <1>1, <1>2 DEF Storages, Put
<1>4. PICK s : s = Circle(data, h, c, n)
  OBVIOUS
<1>5. PICK t : t = Circle(after, b, c, n + 1)
  OBVIOUS
<1>6. s \in Seq(V) /\ Len(s) = n /\ \A i \in 1 .. n : s[i] = data[Place(h, i - 1, c)]
  <2>1. s \in Seq(V) /\ Len(s) = n
    BY <1>4, CircleSeq
  <2>2. \A i \in 1 .. n : s[i] = data[Place(h, i - 1, c)]
    BY <1>4, CircleItem
  <2> QED BY <2>1, <2>2
<1>7. t \in Seq(V) /\ Len(t) = n + 1 /\ \A i \in 1 .. n + 1 : t[i] = after[Place(b, i - 1, c)]
  <2>1. PICK m \in 0 .. c : m = n + 1
    OBVIOUS
  <2>2. t = Circle(after, b, c, m)
    BY <1>5, <2>1
  <2>3. t \in Seq(V) /\ Len(t) = m /\ \A i \in 1 .. m : t[i] = after[Place(b, i - 1, c)]
    <3>1. t \in Seq(V) /\ Len(t) = m
      BY <1>1, <1>3, <2>2, CircleSeq
    <3>2. \A i \in 1 .. m : t[i] = after[Place(b, i - 1, c)]
      BY <1>1, <1>3, <2>2, CircleItem
    <3> QED BY <3>1, <3>2
  <2> QED BY <2>1, <2>3
<1>8. /\ <<v>> \o s \in Seq(V) /\ Len(<<v>> \o s) = n + 1
      /\ \A i \in 1 .. n + 1 : (<<v>> \o s)[i] = IF i = 1 THEN v ELSE s[i - 1]
  BY <1>6
<1>9. ASSUME NEW i \in 1 .. n + 1
      PROVE  t[i] = (<<v>> \o s)[i]
  <2>1. CASE i = 1
    <3>1. t[i] = after[b]
      BY <1>1, <1>7, <2>1 DEF Place
    <3> QED BY <3>1, <1>1, <1>2, <1>8, <2>1 DEF Storages, Put
  <2>2. CASE i \in 2 .. n + 1
    <3>1. Place(b, i - 1, c) = Place(h, i - 2, c) /\ Place(b, i - 1, c) # b /\ Place(b, i - 1, c) \in Slots(c)
      BY <1>1, <2>2 DEF Place, Slots, SlotBefore
    <3>2. t[i] = data[Place(h, i - 2, c)]
      BY <1>1, <1>2, <1>7, <3>1 DEF Storages, Put
    <3>3. i - 1 \in 1 .. n /\ (i - 1) - 1 = i - 2
      BY <2>2
    <3>4. s[i - 1] = data[Place(h, i - 2, c)]
      BY <1>6, <3>3
    <3> QED BY <3>2, <3>4, <1>8, <2>2
  <2>3. i = 1 \/ i \in 2 .. n + 1
    OBVIOUS
  <2> QED BY <2>1, <2>2, <2>3
<1>10. t = <<v>> \o s
  BY <1>7, <1>8, <1>9, SeqEqual
<1> QED BY <1>1, <1>2, <1>4, <1>5, <1>10

(* k items from the m-th on. *)
LEMMA CircleParts ==
  ASSUME NEW V, NEW c \in Nat, c > 0, NEW data \in Storages(V, c), NEW h \in Heads(c), NEW n \in 0 .. c,
         NEW m \in 0 .. n, NEW k \in 0 .. n - m
  PROVE  /\ (h + m) % c \in Heads(c)
         /\ Circle(data, (h + m) % c, c, k) = SubSeq(Circle(data, h, c, n), m + 1, m + k)
<1>1. h \in 0 .. c - 1 /\ m \in 0 .. c /\ k \in 0 .. c
  BY DEF Heads, Slots
<1>2. PICK g \in 0 .. c - 1 : g = (h + m) % c /\ g = Place(h, m, c) /\ g \in Heads(c)
  BY <1>1, Wrap DEF Heads, Slots
<1>3. PICK s : s = Circle(data, h, c, n)
  OBVIOUS
<1>4. PICK t : t = Circle(data, g, c, k)
  OBVIOUS
<1>5. s \in Seq(V) /\ Len(s) = n /\ \A i \in 1 .. n : s[i] = data[Place(h, i - 1, c)]
  <2>1. s \in Seq(V) /\ Len(s) = n
    BY <1>3, CircleSeq
  <2>2. \A i \in 1 .. n : s[i] = data[Place(h, i - 1, c)]
    BY <1>3, CircleItem
  <2> QED BY <2>1, <2>2
<1>6. t \in Seq(V) /\ Len(t) = k /\ \A i \in 1 .. k : t[i] = data[Place(g, i - 1, c)]
  <2>1. PICK l \in 0 .. c : l = k
    BY <1>1
  <2>2. t = Circle(data, g, c, l)
    BY <1>4, <2>1
  <2>3. t \in Seq(V) /\ Len(t) = l /\ \A i \in 1 .. l : t[i] = data[Place(g, i - 1, c)]
    <3>1. t \in Seq(V) /\ Len(t) = l
      BY <1>2, <2>2, CircleSeq
    <3>2. \A i \in 1 .. l : t[i] = data[Place(g, i - 1, c)]
      BY <1>2, <2>2, CircleItem
    <3> QED BY <3>1, <3>2
  <2> QED BY <2>1, <2>3
<1>7. PICK u : u = SubSeq(s, m + 1, m + k)
  OBVIOUS
<1>8. u \in Seq(V) /\ Len(u) = k /\ \A i \in 1 .. k : u[i] = s[m + i]
  <2>1. \A i \in m + 1 .. m + k : s[i] \in V
    BY <1>5, ElementOfSeq
  <2>2. /\ u \in Seq(V)
        /\ Len(u) = IF m + 1 <= m + k THEN (m + k) - (m + 1) + 1 ELSE 0
        /\ \A i \in 1 .. (m + k) - (m + 1) + 1 : u[i] = s[(m + 1) + i - 1]
    BY <1>7, <2>1, SubSeqProperties
  <2>3. (m + k) - (m + 1) + 1 = k /\ \A i \in 1 .. k : (m + 1) + i - 1 = m + i
    OBVIOUS
  <2> QED BY <2>2, <2>3
<1>9. ASSUME NEW i \in 1 .. k
      PROVE  t[i] = u[i]
  <2>1. Place(g, i - 1, c) = Place(h, m + i - 1, c)
    BY <1>1, <1>2 DEF Place
  <2>2. m + i \in 1 .. n /\ (m + i) - 1 = m + i - 1
    OBVIOUS
  <2>3. s[m + i] = data[Place(h, m + i - 1, c)]
    BY <1>5, <2>2
  <2> QED BY <2>1, <2>3, <1>6, <1>8
<1>10. t = u
  BY <1>6, <1>8, <1>9, SeqEqual
<1> QED BY <1>2, <1>3, <1>4, <1>7, <1>10

LEMMA CirclePartHead ==
  ASSUME NEW c \in Nat, c > 0, NEW h \in Heads(c), NEW m \in 0 .. c, NEW g, g = (h + m) % c
  PROVE  g \in Heads(c)
<1>1. h \in 0 .. c - 1
  BY DEF Heads, Slots
<1> QED BY <1>1, Wrap DEF Heads, Slots

LEMMA CirclePart ==
  ASSUME NEW V, NEW c \in Nat, c > 0, NEW data \in Storages(V, c), NEW h \in Heads(c), NEW n \in 0 .. c,
         NEW m \in 0 .. n, NEW k \in 0 .. n - m, NEW g, g = (h + m) % c
  PROVE  Circle(data, g, c, k) = SubSeq(Circle(data, h, c, n), m + 1, m + k)
BY CircleParts

LEMMA CircleSets ==
  ASSUME NEW V, NEW c \in Nat, NEW data \in Storages(V, c), NEW h \in Heads(c), NEW n \in 0 .. c,
         NEW j \in 0 .. n - 1, NEW v \in V
  PROVE  /\ (h + j) % c \in Slots(c)
         /\ Circle(Put(data, (h + j) % c, v), h, c, n) = Put(Circle(data, h, c, n), j + 1, v)
<1>1. h \in 0 .. c - 1 /\ j \in 0 .. c
  BY DEF Heads, Slots
<1>2. PICK g \in Slots(c) : g = (h + j) % c /\ g = Place(h, j, c)
  BY <1>1, Wrap DEF Slots
<1>3. PICK after : after = Put(data, g, v)
  OBVIOUS
<1>4. after \in Storages(V, c)
  BY <1>3 DEF Storages, Put
<1>5. PICK s : s = Circle(data, h, c, n)
  OBVIOUS
<1>6. PICK t : t = Circle(after, h, c, n)
  OBVIOUS
<1>7. s \in Seq(V) /\ Len(s) = n /\ \A i \in 1 .. n : s[i] = data[Place(h, i - 1, c)]
  <2>1. s \in Seq(V) /\ Len(s) = n
    BY <1>5, CircleSeq
  <2>2. \A i \in 1 .. n : s[i] = data[Place(h, i - 1, c)]
    BY <1>5, CircleItem
  <2> QED BY <2>1, <2>2
<1>8. t \in Seq(V) /\ Len(t) = n /\ \A i \in 1 .. n : t[i] = after[Place(h, i - 1, c)]
  <2>1. t \in Seq(V) /\ Len(t) = n
    BY <1>4, <1>6, CircleSeq
  <2>2. \A i \in 1 .. n : t[i] = after[Place(h, i - 1, c)]
    BY <1>4, <1>6, CircleItem
  <2> QED BY <2>1, <2>2
<1>9. PICK u : u = Put(s, j + 1, v)
  OBVIOUS
<1>10. u \in Seq(V) /\ Len(u) = n /\ \A i \in 1 .. n : u[i] = IF i = j + 1 THEN v ELSE s[i]
  <2>1. j + 1 \in 1 .. Len(s)
    BY <1>7
  <2> QED BY <2>1, <1>7, <1>9, ExceptSeq DEF Put
<1>11. ASSUME NEW i \in 1 .. n
       PROVE  t[i] = u[i]
  <2>1. Place(h, i - 1, c) \in Slots(c)
    BY <1>1 DEF Place, Slots
  <2>2. Place(h, i - 1, c) = g <=> i = j + 1
    BY <1>1, <1>2 DEF Place
  <2> QED BY <2>1, <2>2, <1>3, <1>7, <1>8, <1>10 DEF Storages, Put
<1>12. t = u
  BY <1>8, <1>10, <1>11, SeqEqual
<1> QED BY <1>2, <1>3, <1>5, <1>6, <1>9, <1>12

(* A value put in the slot of an item replaces that item alone. *)
LEMMA CircleSet ==
  ASSUME NEW V, NEW c \in Nat, NEW data \in Storages(V, c), NEW h \in Heads(c), NEW n \in 0 .. c,
         NEW j \in 0 .. n - 1, NEW v \in V, NEW g, g = (h + j) % c
  PROVE  g \in Slots(c) /\ Circle(Put(data, g, v), h, c, n) = Put(Circle(data, h, c, n), j + 1, v)
BY CircleSets

(* A full buffer whose first item is k slots on. *)
LEMMA CircleTurned ==
  ASSUME NEW V, NEW c \in Nat, c > 0, NEW data \in Storages(V, c), NEW h \in Heads(c), NEW k \in Nat,
         NEW g, g = (h + k) % c
  PROVE  g \in Heads(c) /\ Circle(data, g, c, c) = Sequence!Turned(Circle(data, h, c, c), k)
<1>0. h \in Int
  BY DEF Heads, Slots
<1>1. g \in 0 .. c - 1
  BY <1>0, RemainderIn
<1>2. PICK s : s = Circle(data, h, c, c)
  OBVIOUS
<1>3. DOMAIN s = 1 .. c /\ Len(s) = c /\ \A i \in 1 .. c : s[i] = data[(h + (i - 1)) % c]
  <2>1. c \in 0 .. c
    OBVIOUS
  <2>2. Len(s) = c
    BY <1>2, <2>1, CircleSeq
  <2> QED BY <1>2, <2>2 DEF Circle
<1>4. ASSUME NEW i \in 1 .. c
      PROVE  data[(g + (i - 1)) % c] = s[((i - 1 + k) % c) + 1]
  <2>1. PICK j \in 0 .. c - 1 : j = (i - 1 + k) % c
    BY RemainderIn
  <2>2. s[j + 1] = data[(h + j) % c]
    <3>1. j + 1 \in 1 .. c /\ (j + 1) - 1 = j
      OBVIOUS
    <3> QED BY <3>1, <1>3
  <2>3. PICK x \in Int, y \in Int, b \in Int : x = i - 1 + k /\ y = i - 1 /\ b = h + k
    BY <1>0
  <2>4. (h + (x % c)) % c = (h + x) % c
    BY <1>0, RemainderOfSum
  <2>5. (y + (b % c)) % c = (y + b) % c
    BY RemainderOfSum
  <2>6. y + b = h + x
    BY <1>0, <2>3
  <2>7. g \in Int /\ y + g = g + (i - 1)
    BY <1>1, <2>3
  <2>8. b % c = g /\ x % c = j
    BY <2>1, <2>3
  <2>9. (g + (i - 1)) % c = (h + j) % c
    BY <2>4, <2>5, <2>6, <2>7, <2>8
  <2> QED BY <2>1, <2>2, <2>9
<1>5. Sequence!Turned(s, k) = [i \in 1 .. c |-> s[((i - 1 + k) % c) + 1]]
  BY <1>3 DEF Sequence!Turned
<1>6. Circle(data, g, c, c) = Sequence!Turned(s, k)
  BY <1>4, <1>5 DEF Circle
<1> QED BY <1>1, <1>2, <1>6 DEF Heads, Slots

(* The same items from slot 0 on. *)
Laid(data, s, n) == [slot \in DOMAIN data |-> IF slot < n THEN s[slot + 1] ELSE data[slot]]

LEMMA CircleLaid ==
  ASSUME NEW V, NEW c \in Nat, NEW data \in Storages(V, c), NEW n \in 0 .. c, NEW s \in Seq(V), Len(s) = n,
         NEW after, after = Laid(data, s, n)
  PROVE  after \in Storages(V, c) /\ 0 \in Heads(c) /\ Circle(after, 0, c, n) = s
<1>1. DOMAIN data = Slots(c) /\ \A slot \in Slots(c) : data[slot] \in V
  BY DEF Storages
<1>2. \A slot \in Slots(c) : slot < n => s[slot + 1] \in V
  <2> SUFFICES ASSUME NEW slot \in Slots(c), slot < n PROVE s[slot + 1] \in V
    OBVIOUS
  <2>1. slot + 1 \in 1 .. Len(s)
    BY DEF Slots
  <2> QED BY <2>1, ElementOfSeq
<1>3. after = [slot \in Slots(c) |-> IF slot < n THEN s[slot + 1] ELSE data[slot]]
  BY <1>1 DEF Laid
<1>4. after \in Storages(V, c)
  BY <1>1, <1>2, <1>3 DEF Storages
<1>5. 0 \in Heads(c)
  BY DEF Heads, Slots
<1>6. PICK h \in Heads(c) : h = 0
  BY <1>5
<1>7. PICK t : t = Circle(after, h, c, n)
  OBVIOUS
<1>8. t \in Seq(V) /\ Len(t) = n
  BY <1>4, <1>7, CircleSeq
<1>9. ASSUME NEW i \in 1 .. n
      PROVE  t[i] = s[i]
  <2>1. t[i] = after[Place(h, i - 1, c)]
    BY <1>4, <1>7, CircleItem
  <2>2. Place(h, i - 1, c) = i - 1 /\ i - 1 \in Slots(c) /\ i - 1 < n /\ (i - 1) + 1 = i
    BY <1>6 DEF Place, Slots
  <2>3. after[i - 1] = s[(i - 1) + 1]
    BY <1>3, <2>2
  <2> QED BY <2>1, <2>2, <2>3
<1>10. t = s
  BY <1>8, <1>9, SeqEqual
<1> QED BY <1>4, <1>5, <1>6, <1>7, <1>10

(* The first k items. *)
LEMMA CircleFirsts ==
  ASSUME NEW V, NEW c \in Nat, NEW data \in Storages(V, c), NEW h \in Heads(c), NEW n \in 0 .. c, NEW k \in 0 .. n
  PROVE  Circle(data, h, c, k) = SubSeq(Circle(data, h, c, n), 1, k)
<1>1. PICK s : s = Circle(data, h, c, n)
  OBVIOUS
<1>2. s \in Seq(V) /\ Len(s) = n /\ \A i \in 1 .. n : s[i] = data[(h + (i - 1)) % c]
  <2>1. s \in Seq(V) /\ Len(s) = n
    BY <1>1, CircleSeq
  <2> QED BY <1>1, <2>1 DEF Circle
<1>3. PICK t : t = Circle(data, h, c, k)
  OBVIOUS
<1>4. t \in Seq(V) /\ Len(t) = k /\ \A i \in 1 .. k : t[i] = data[(h + (i - 1)) % c]
  <2>1. PICK l \in 0 .. c : l = k
    OBVIOUS
  <2>2. t = Circle(data, h, c, l)
    BY <1>3, <2>1
  <2>3. t \in Seq(V) /\ Len(t) = l
    BY <2>2, CircleSeq
  <2> QED BY <1>3, <2>1, <2>3 DEF Circle
<1>5. PICK zero \in 0 .. Len(s) : zero = 0 /\ k \in zero .. Len(s)
  BY <1>2
<1>6. PICK u : u = SubSeq(s, zero + 1, k)
  OBVIOUS
<1>7. u \in Seq(V) /\ Len(u) = k - zero
  BY <1>2, <1>5, <1>6, PartOf
<1>8. \A i \in 1 .. k - zero : u[i] = s[zero + i]
  BY <1>2, <1>5, <1>6, PartItem
<1>9. \A i \in 1 .. k : t[i] = u[i]
  BY <1>2, <1>4, <1>5, <1>8
<1>10. t = u
  BY <1>4, <1>5, <1>7, <1>9, SeqEqual
<1> QED BY <1>1, <1>3, <1>5, <1>6, <1>10

(* Where a buffer of n items starts without its first m. *)
HeadAfter(h, m, n, c) == IF m = n THEN 0 ELSE (h + m) % c

(* What is left of a buffer without its first m items. *)
LEMMA CircleDropped ==
  ASSUME NEW V, NEW c \in Nat, NEW data \in Storages(V, c), NEW h \in Heads(c), NEW n \in 0 .. c, NEW m \in 0 .. n,
         NEW g, g = HeadAfter(h, m, n, c)
  PROVE  /\ g \in Heads(c) /\ n - m \in 0 .. c
         /\ Circle(data, g, c, n - m) = SubSeq(Circle(data, h, c, n), m + 1, n)
<1>1. PICK k \in 0 .. n - m : k = n - m /\ m + k = n /\ k \in 0 .. c
  OBVIOUS
<1>2. CASE m = n
  <2>1. k = 0 /\ g = 0 /\ 0 \in Heads(c)
    BY <1>1, <1>2 DEF Heads, Slots, HeadAfter
  <2>2. SubSeq(Circle(data, h, c, n), m + 1, n) = <<>>
    BY <1>2, SubSeqEmpty
  <2>3. Circle(data, g, c, k) = <<>>
    BY <2>1, CircleNone
  <2> QED BY <1>1, <2>1, <2>2, <2>3
<1>3. CASE m # n
  <2>1. c > 0 /\ m \in 0 .. c
    BY <1>3
  <2>2. g = (h + m) % c
    BY <1>3 DEF HeadAfter
  <2>3. g \in Heads(c)
    BY <2>1, <2>2, CirclePartHead
  <2>4. Circle(data, g, c, k) = SubSeq(Circle(data, h, c, n), m + 1, m + k)
    BY <2>1, <2>2, CirclePart
  <2> QED BY <1>1, <2>3, <2>4
<1> QED BY <1>2, <1>3

-----------------------------------------------------------------------------
(* The ring: what its functions do to the sequence it holds. *)

(* What a slot may hold. *)
Anything == Values \cup {Junk}
RingOf(d, h, c, n, w) == [data |-> d, capacity |-> c, length |-> n, head |-> h, overwritten |-> w]
RingRecords(c) ==
  [data : Storages(Anything, c), capacity : {c}, length : 0 .. c, head : Heads(c), overwritten : Slots(Word)]

(* The rings of c slots that hold the sequence s. *)
RingWith(c, s) == {r \in RingRecords(c) : RingItems(r) = s}

LEMMA RingIsCircle ==
  ASSUME NEW r
  PROVE  RingItems(r) = Circle(r.data, r.head, r.capacity, r.length)
BY DEF RingItems, RingSlot, Circle

(* A record over a circular buffer holds the items of the buffer, ... *)
LEMMA RingIn ==
  ASSUME NEW c \in Nat, NEW d \in Storages(Anything, c), NEW h \in Heads(c), NEW n \in 0 .. c, NEW w \in Slots(Word)
  PROVE  RingOf(d, h, c, n, w) \in RingWith(c, Circle(d, h, c, n))
<1>1. RingOf(d, h, c, n, w) \in RingRecords(c)
  BY DEF RingOf, RingRecords
<1>2. RingItems(RingOf(d, h, c, n, w)) = Circle(d, h, c, n)
  BY RingIsCircle DEF RingOf
<1> QED BY <1>1, <1>2 DEF RingWith

(* ... and every ring is such a record. *)
LEMMA RingOut ==
  ASSUME NEW c \in Nat, NEW s, NEW r \in RingWith(c, s)
  PROVE  \E d \in Storages(Anything, c), h \in Heads(c), n \in 0 .. c, w \in Slots(Word) :
           r = RingOf(d, h, c, n, w) /\ s = Circle(d, h, c, n) /\ s \in Seq(Anything) /\ Len(s) = n
<1>1. r \in RingRecords(c) /\ s = RingItems(r)
  BY DEF RingWith
<1>2. PICK d \in Storages(Anything, c), h \in Heads(c), n \in 0 .. c, w \in Slots(Word) : r = RingOf(d, h, c, n, w)
  BY <1>1 DEF RingRecords, RingOf
<1>3. s = Circle(d, h, c, n)
  BY <1>1, <1>2, RingIsCircle DEF RingOf
<1>4. s \in Seq(Anything) /\ Len(s) = n
  BY <1>3, CircleSeq
<1> QED BY <1>2, <1>3, <1>4

LEMMA RingFields ==
  ASSUME NEW d, NEW h, NEW c, NEW n, NEW w, NEW r, r = RingOf(d, h, c, n, w)
  PROVE  r.data = d /\ r.capacity = c /\ r.length = n /\ r.head = h /\ r.overwritten = w
BY DEF RingOf

(* Behind the last item there is a free slot if the ring is not full. *)
LEMMA RingAppendIs ==
  ASSUME NEW c \in Nat, NEW s, NEW r \in RingWith(c, s), Len(s) < c, NEW v \in Anything
  PROVE  RingAppended(r, v) \in RingWith(c, Append(s, v))
<1>1. PICK d \in Storages(Anything, c), h \in Heads(c), n \in 0 .. c, w \in Slots(Word) :
        r = RingOf(d, h, c, n, w) /\ s = Circle(d, h, c, n) /\ Len(s) = n
  BY RingOut
<1>2. n < c
  BY <1>1
<1>3. PICK g : g = (h + n) % c
  OBVIOUS
<1>4. g \in Slots(c) /\ Circle(Put(d, g, v), h, c, n + 1) = Append(s, v)
  BY <1>1, <1>2, <1>3, CircleAppended
<1>5. Put(d, g, v) \in Storages(Anything, c) /\ n + 1 \in 0 .. c
  BY <1>2, <1>4 DEF Storages, Put
<1>6. RingAppended(r, v) = RingOf(Put(d, g, v), h, c, n + 1, w)
  <2>1. r.data = d /\ r.capacity = c /\ r.length = n /\ r.head = h
    BY <1>1, RingFields
  <2>2. RingAppended(r, v) = [r EXCEPT !.data = Put(d, g, v), !.length = n + 1]
    BY <1>3, <2>1 DEF RingAppended, RingSlot, Put
  <2> QED BY <1>1, <2>2 DEF RingOf
<1> QED BY <1>4, <1>5, <1>6, RingIn

(* A full ring overwrites its oldest item and starts behind it. *)
LEMMA RingPushIs ==
  ASSUME NEW c \in Nat \ {0}, NEW s, NEW r \in RingWith(c, s), Len(s) = c, NEW v \in Anything
  PROVE  RingPushed(r, v) \in RingWith(c, Append(SubSeq(s, 2, c), v))
<1>1. PICK d \in Storages(Anything, c), h \in Heads(c), n \in 0 .. c, w \in Slots(Word) :
        r = RingOf(d, h, c, n, w) /\ s = Circle(d, h, c, n) /\ n = c
  BY RingOut
<1>2. PICK g \in Heads(c) : g = (h + 1) % c /\ g = Place(h, 1, c) /\ h \in 0 .. c - 1
  <2>1. h \in 0 .. c - 1 /\ 1 \in 0 .. c
    BY DEF Heads, Slots
  <2> QED BY <2>1, Wrap DEF Heads, Slots
<1>3. Circle(d, g, c, c - 1) = SubSeq(s, 2, c)
  <2>1. PICK m \in 0 .. n : m = 1
    BY <1>1
  <2>2. PICK k \in 0 .. n - m : k = c - 1
    BY <1>1, <2>1
  <2>3. g = (h + m) % c /\ c > 0
    BY <1>2, <2>1
  <2>4. Circle(d, g, c, k) = SubSeq(Circle(d, h, c, n), m + 1, m + k)
    BY <2>3, CirclePart
  <2> QED BY <2>1, <2>2, <2>4, <1>1, <1>2
<1>4. PICK k \in 0 .. c : k = c - 1 /\ k < c
  OBVIOUS
<1>5. (g + k) % c = h
  <2>1. g \in 0 .. c - 1
    BY DEF Heads, Slots
  <2>2. (g + k) % c = Place(g, k, c)
    BY <2>1, Wrap
  <2>3. Place(g, k, c) = h
    BY <1>2, <1>4, <2>1 DEF Place
  <2> QED BY <2>2, <2>3
<1>6. Circle(Put(d, h, v), g, c, k + 1) = Append(SubSeq(s, 2, c), v)
  <2>1. Circle(Put(d, h, v), g, c, k + 1) = Append(Circle(d, g, c, k), v)
    BY <1>4, <1>5, CircleAppended
  <2> QED BY <2>1, <1>3, <1>4
<1>7. (w + 1) % Word \in Slots(Word) /\ h \in Slots(c)
  BY <1>2, ContainerAssumption DEF Slots
<1>8. Put(d, h, v) \in Storages(Anything, c) /\ c \in 0 .. c /\ k + 1 = c
  BY <1>4, <1>7 DEF Storages, Put
<1>9. RingPushed(r, v) = RingOf(Put(d, h, v), g, c, c, (w + 1) % Word)
  <2>1. r.data = d /\ r.capacity = c /\ r.length = n /\ r.head = h /\ r.overwritten = w
    BY <1>1, RingFields
  <2>2. ~(r.length < r.capacity) /\ RingSlot(r, 1) = g
    BY <1>1, <1>2, <2>1 DEF RingSlot
  <2>3. RingPushed(r, v) = [r EXCEPT !.data = Put(r.data, r.head, v), !.head = RingSlot(r, 1),
                                     !.overwritten = (r.overwritten + 1) % Word]
    BY <2>2 DEF RingPushed, Put
  <2>4. RingPushed(r, v) = [r EXCEPT !.data = Put(d, h, v), !.head = g, !.overwritten = (w + 1) % Word]
    BY <2>1, <2>2, <2>3
  <2> QED BY <1>1, <2>4 DEF RingOf
<1> QED BY <1>6, <1>7, <1>8, <1>9, RingIn

LEMMA RingDropSome ==
  ASSUME NEW c \in Nat, NEW d \in Storages(Anything, c), NEW h \in Heads(c), NEW n \in 0 .. c, NEW w \in Slots(Word),
         NEW m \in 0 .. n, m < n, NEW r, r = RingOf(d, h, c, n, w)
  PROVE  RingDropped(r, m) \in RingWith(c, SubSeq(Circle(d, h, c, n), m + 1, n))
<1>1. c > 0 /\ m \in 0 .. c
  OBVIOUS
<1>2. PICK k \in 0 .. n - m : k = n - m /\ m + k = n /\ k \in 0 .. c
  OBVIOUS
<1>3. PICK g : g = (h + m) % c
  OBVIOUS
<1>4. g \in Heads(c)
  BY <1>1, <1>3, CirclePartHead
<1>5. Circle(d, g, c, k) = SubSeq(Circle(d, h, c, n), m + 1, m + k)
  BY <1>1, <1>3, CirclePart
<1>6. RingDropped(r, m) = RingOf(d, g, c, k, w)
  <2>1. r.capacity = c /\ r.length = n /\ r.head = h
    BY RingFields
  <2>2. RingSlot(r, m) = g
    BY <1>3, <2>1 DEF RingSlot
  <2>3. RingDropped(r, m) = [r EXCEPT !.length = n - m, !.head = IF m = n THEN 0 ELSE RingSlot(r, m)]
    BY <2>1 DEF RingDropped
  <2>4. n - m = k /\ (IF m = n THEN 0 ELSE RingSlot(r, m)) = g
    BY <1>2, <2>2
  <2>5. RingDropped(r, m) = [r EXCEPT !.length = k, !.head = g]
    BY <2>3, <2>4
  <2> QED BY <2>5 DEF RingOf
<1> QED BY <1>2, <1>4, <1>5, <1>6, RingIn

LEMMA RingDropAll ==
  ASSUME NEW c \in Nat, NEW d \in Storages(Anything, c), NEW h \in Heads(c), NEW n \in 0 .. c, NEW w \in Slots(Word),
         NEW r, r = RingOf(d, h, c, n, w)
  PROVE  RingDropped(r, n) \in RingWith(c, <<>>)
<1>1. r.length = n
  BY RingFields
<1>2. RingDropped(r, n) = [r EXCEPT !.length = n - n, !.head = IF n = n THEN 0 ELSE RingSlot(r, n)]
  BY <1>1 DEF RingDropped
<1>3. n - n = 0 /\ (IF n = n THEN 0 ELSE RingSlot(r, n)) = 0
  OBVIOUS
<1>4. RingDropped(r, n) = [r EXCEPT !.length = 0, !.head = 0]
  BY <1>2, <1>3
<1>5. RingDropped(r, n) = RingOf(d, 0, c, 0, w)
  BY <1>4 DEF RingOf
<1>6. 0 \in Heads(c) /\ 0 \in 0 .. c
  BY DEF Heads, Slots
<1> QED BY <1>5, <1>6, RingIn, CircleNone

(* The oldest items go by moving the head. *)
LEMMA RingDropIs ==
  ASSUME NEW c \in Nat, NEW s, NEW r \in RingWith(c, s), NEW m \in 0 .. Len(s)
  PROVE  RingDropped(r, m) \in RingWith(c, SubSeq(s, m + 1, Len(s)))
<1>1. PICK d \in Storages(Anything, c), h \in Heads(c), n \in 0 .. c, w \in Slots(Word) :
        r = RingOf(d, h, c, n, w) /\ s = Circle(d, h, c, n) /\ n = Len(s)
  BY RingOut
<1>2. CASE m = n
  <2>1. SubSeq(s, m + 1, Len(s)) = <<>>
    BY <1>1, <1>2, SubSeqEmpty
  <2> QED BY <2>1, <1>1, <1>2, RingDropAll
<1>3. CASE m < n
  BY <1>1, <1>3, RingDropSome
<1>4. m = n \/ m < n
  BY <1>1
<1> QED BY <1>2, <1>3, <1>4

(* ring_push appends and keeps the newest. *)
LEMMA RingPushKeeps ==
  ASSUME NEW c \in Nat, c > 0, NEW s, NEW r \in RingWith(c, s), NEW v \in Anything
  PROVE  RingPushed(r, v) \in RingWith(c, Sequence!Lasts(Append(s, v), c))
<1>1. s \in Seq(Anything) /\ Len(s) \in 0 .. c /\ r.length = Len(s) /\ r.capacity = c
  BY RingOut, RingFields
<1>2. CASE Len(s) < c
  <2>1. RingPushed(r, v) = RingAppended(r, v)
    BY <1>1, <1>2 DEF RingPushed
  <2>2. Append(s, v) \in Seq(Anything) /\ Len(Append(s, v)) = Len(s) + 1
    BY <1>1, AppendIs
  <2>3. Sequence!Lasts(Append(s, v), c) = Append(s, v)
    <3>1. c >= Len(Append(s, v))
      BY <1>1, <1>2, <2>2
    <3> QED BY <2>2, <3>1, LastsAre
  <2> QED BY <1>2, <2>1, <2>3, RingAppendIs
<1>3. CASE Len(s) = c
  <2>1. c \in Nat \ {0}
    OBVIOUS
  <2>2. RingPushed(r, v) \in RingWith(c, Append(SubSeq(s, 2, c), v))
    BY <1>3, <2>1, RingPushIs
  <2> QED BY <1>1, <1>3, <2>2, LastsAfterAppend
<1> QED BY <1>1, <1>2, <1>3

RingAppendLoop(r, vs, n, f) == f = [k \in 0 .. n |-> IF k = 0 THEN r ELSE RingAppended(f[k - 1], vs[k])]

(* The loop of ring_try_push_many appends the values one by one. *)
LEMMA RingAppendManyIs ==
  ASSUME NEW c \in Nat, NEW s, NEW r \in RingWith(c, s), NEW vs \in Seq(Anything), NEW n \in 0 .. Len(vs), Len(s) + n <= c
  PROVE  RingAppendedAll(r, vs, n) \in RingWith(c, s \o SubSeq(vs, 1, n))
<1>1. s \in Seq(Anything) /\ Len(s) \in Nat /\ Len(vs) \in Nat
  BY RingOut, LenProperties
<1> DEFINE D == [k \in 0 .. n |-> RingWith(c, s \o SubSeq(vs, 1, k))]
           Step == [p \in (UNION {D[k] : k \in 0 .. n}) \X (1 .. n) |-> RingAppended(p[1], vs[p[2]])]
<1>2. r \in D[0]
  <2>1. s \o SubSeq(vs, 1, 0) = s
    BY <1>1, NoMore
  <2>2. 0 \in 0 .. n
    BY <1>1
  <2> QED BY <2>1, <2>2
<1>3. ASSUME NEW k \in 1 .. n, NEW q \in D[k - 1]
      PROVE  RingAppended(q, vs[k]) \in D[k]
  <2>1. k \in 1 .. Len(vs) /\ k - 1 \in 0 .. n /\ k \in 0 .. n
    BY <1>1
  <2>2. q \in RingWith(c, s \o SubSeq(vs, 1, k - 1))
    BY <2>1
  <2>3. Len(s \o SubSeq(vs, 1, k - 1)) < c
    BY <1>1, <2>1, OneMore
  <2>4. RingAppended(q, vs[k]) \in RingWith(c, Append(s \o SubSeq(vs, 1, k - 1), vs[k]))
    BY <1>1, <2>1, <2>2, <2>3, ElementOfSeq, RingAppendIs
  <2>5. Append(s \o SubSeq(vs, 1, k - 1), vs[k]) = s \o SubSeq(vs, 1, k)
    BY <1>1, <2>1, OneMore
  <2> QED BY <2>1, <2>4, <2>5
<1>4. \A k \in 1 .. n : \A q \in D[k - 1] : Step[<<q, k>>] = RingAppended(q, vs[k])
  <2> SUFFICES ASSUME NEW k \in 1 .. n, NEW q \in D[k - 1] PROVE Step[<<q, k>>] = RingAppended(q, vs[k])
    OBVIOUS
  <2>1. k - 1 \in 0 .. n
    BY <1>1
  <2>2. <<q, k>> \in (UNION {D[j] : j \in 0 .. n}) \X (1 .. n)
    BY <2>1
  <2> QED BY <2>2
<1> HIDE DEF D, Step
<1>5. PICK f : Runs(D, r, Step, n, f)
  <2>1. Leads(D, Step, n)
    BY <1>3, <1>4 DEF Leads
  <2>2. n \in Nat
    BY <1>1
  <2> QED BY <1>2, <2>1, <2>2, LoopRuns
<1>6. RingAppendLoop(r, vs, n, f)
  <2>1. f = [k \in 0 .. n |-> f[k]] /\ f[0] = r
    BY <1>5 DEF Runs
  <2>2. ASSUME NEW k \in 1 .. n
        PROVE  f[k] = RingAppended(f[k - 1], vs[k])
    BY <1>4, <1>5 DEF Runs
  <2>3. \A k \in 0 .. n : f[k] = IF k = 0 THEN r ELSE RingAppended(f[k - 1], vs[k])
    <3>1. \A k \in 0 .. n : k = 0 \/ k \in 1 .. n
      BY <1>1
    <3> QED BY <2>1, <2>2, <3>1
  <2> QED BY <2>1, <2>3 DEF RingAppendLoop
<1>7. PICK g : g = CHOOSE h : RingAppendLoop(r, vs, n, h)
  OBVIOUS
<1>8. RingAppendLoop(r, vs, n, g)
  BY <1>6, <1>7
<1>9. RingAppendedAll(r, vs, n) = g[n]
  BY <1>7 DEF RingAppendedAll, Loop, RingAppendLoop
<1>10. g[0] = r /\ \A k \in 1 .. n : g[k] = RingAppended(g[k - 1], vs[k])
  BY <1>1, <1>8 DEF RingAppendLoop
<1>11. \A k \in 0 .. n : g[k] \in D[k]
  <2> DEFINE S == {k \in 0 .. n : g[k] \in D[k]}
  <2>1. 0 \in S
    BY <1>1, <1>2, <1>10
  <2>2. \A k \in 1 .. n : k - 1 \in S => k \in S
    <3> SUFFICES ASSUME NEW k \in 1 .. n, k - 1 \in S PROVE k \in S
      OBVIOUS
    <3>1. PICK q \in D[k - 1] : q = g[k - 1]
      OBVIOUS
    <3>2. g[k] = RingAppended(q, vs[k])
      BY <1>10, <3>1
    <3>3. k \in 0 .. n
      BY <1>1
    <3> QED BY <1>3, <3>2, <3>3
  <2>3. n \in Nat
    BY <1>1
  <2> HIDE DEF S
  <2>4. \A k \in 0 .. n : k \in S
    BY <2>1, <2>2, <2>3, UpTo
  <2> QED BY <2>4 DEF S
<1>12. n \in 0 .. n
  BY <1>1
<1> QED BY <1>9, <1>11, <1>12 DEF D

(* The newest item goes by shortening the ring. *)
LEMMA RingPopIs ==
  ASSUME NEW c \in Nat, NEW s, NEW r \in RingWith(c, s), Len(s) > 0,
         NEW q, q = [r EXCEPT !.length = r.length - 1, !.head = IF r.length = 1 THEN 0 ELSE r.head]
  PROVE  q \in RingWith(c, SubSeq(s, 1, Len(s) - 1))
<1>1. PICK d \in Storages(Anything, c), h \in Heads(c), n \in 0 .. c, w \in Slots(Word) :
        r = RingOf(d, h, c, n, w) /\ s = Circle(d, h, c, n) /\ Len(s) = n
  BY RingOut
<1>2. PICK g : g = IF n = 1 THEN 0 ELSE h
  OBVIOUS
<1>3. PICK k \in 0 .. n : k = n - 1 /\ k \in 0 .. c
  BY <1>1
<1>4. g \in Heads(c)
  BY <1>2 DEF Heads, Slots
<1>5. Circle(d, g, c, k) = SubSeq(s, 1, k)
  <2>1. Circle(d, h, c, k) = SubSeq(s, 1, k)
    BY <1>1, CircleFirsts
  <2>2. CASE n = 1
    <3>1. k = 0
      BY <1>3, <2>2
    <3> QED BY <2>1, <3>1, CircleNone
  <2>3. CASE n # 1
    BY <1>2, <2>1, <2>3
  <2> QED BY <2>2, <2>3
<1>6. q = RingOf(d, g, c, k, w)
  <2>1. r.length = n /\ r.head = h
    BY <1>1, RingFields
  <2>2. q = [r EXCEPT !.length = k, !.head = g]
    BY <1>2, <1>3, <2>1
  <2> QED BY <1>1, <2>2 DEF RingOf
<1>7. q \in RingWith(c, SubSeq(s, 1, k))
  <2>1. q \in RingWith(c, Circle(d, g, c, k))
    BY <1>3, <1>4, <1>6, RingIn
  <2> QED BY <1>5, <2>1
<1> QED BY <1>1, <1>3, <1>7

LEMMA RingClearIs ==
  ASSUME NEW c \in Nat, NEW s, NEW r \in RingWith(c, s), NEW q, NEW w \in Slots(Word),
         q = [r EXCEPT !.length = 0, !.head = 0, !.overwritten = w]
  PROVE  q \in RingWith(c, <<>>)
<1>1. PICK d \in Storages(Anything, c), h \in Heads(c), n \in 0 .. c, u \in Slots(Word) : r = RingOf(d, h, c, n, u)
  BY RingOut
<1>2. q = RingOf(d, 0, c, 0, w)
  BY <1>1 DEF RingOf
<1>3. 0 \in Heads(c) /\ 0 \in 0 .. c
  BY DEF Heads, Slots
<1> QED BY <1>2, <1>3, RingIn, CircleNone

LEMMA RingKeepsCount ==
  ASSUME NEW c \in Nat, NEW s, NEW r \in RingWith(c, s), NEW q, q = [r EXCEPT !.length = 0, !.head = 0]
  PROVE  q = [r EXCEPT !.length = 0, !.head = 0, !.overwritten = r.overwritten] /\ r.overwritten \in Slots(Word)
<1>1. PICK d \in Storages(Anything, c), h \in Heads(c), n \in 0 .. c, u \in Slots(Word) : r = RingOf(d, h, c, n, u)
  BY RingOut
<1> QED BY <1>1 DEF RingOf

(* An item is replaced in its slot. *)
LEMMA RingSetIs ==
  ASSUME NEW c \in Nat, NEW s, NEW r \in RingWith(c, s), NEW j \in 0 .. Len(s) - 1, NEW v \in Anything,
         NEW g, g = RingSlot(r, j), NEW q, q = [r EXCEPT !.data = Put(r.data, g, v)]
  PROVE  q \in RingWith(c, Put(s, j + 1, v))
<1>1. PICK d \in Storages(Anything, c), h \in Heads(c), n \in 0 .. c, w \in Slots(Word) :
        r = RingOf(d, h, c, n, w) /\ s = Circle(d, h, c, n) /\ Len(s) = n
  BY RingOut
<1>2. r.data = d /\ r.head = h /\ r.capacity = c
  BY <1>1, RingFields
<1>3. g = (h + j) % c
  BY <1>2 DEF RingSlot
<1>4. j \in 0 .. n - 1
  BY <1>1
<1>5. g \in Slots(c) /\ Circle(Put(d, g, v), h, c, n) = Put(Circle(d, h, c, n), j + 1, v)
  BY <1>3, <1>4, CircleSet
<1>6. Put(d, g, v) \in Storages(Anything, c)
  BY <1>5 DEF Storages, Put
<1>7. q = RingOf(Put(d, g, v), h, c, n, w)
  <2>1. q = [r EXCEPT !.data = Put(d, g, v)]
    BY <1>2
  <2> QED BY <1>1, <2>1 DEF RingOf
<1> QED BY <1>1, <1>5, <1>6, <1>7, RingIn

(* A full ring turns by moving its head. *)
LEMMA RingTurnIs ==
  ASSUME NEW c \in Nat, c > 0, NEW s, NEW r \in RingWith(c, s), Len(s) = c, NEW k \in Nat,
         NEW g, g = (r.head + k) % c, NEW q, q = [r EXCEPT !.head = g]
  PROVE  q \in RingWith(c, Sequence!Turned(s, k))
<1>1. PICK d \in Storages(Anything, c), h \in Heads(c), n \in 0 .. c, w \in Slots(Word) :
        r = RingOf(d, h, c, n, w) /\ s = Circle(d, h, c, n) /\ n = c
  BY RingOut
<1>2. r.head = h
  BY <1>1, RingFields
<1>3. g = (h + k) % c /\ s = Circle(d, h, c, c)
  BY <1>1, <1>2
<1>4. g \in Heads(c) /\ Circle(d, g, c, c) = Sequence!Turned(s, k)
  BY <1>3, CircleTurned
<1>5. q = RingOf(d, g, c, c, w) /\ c \in 0 .. c
  BY <1>1 DEF RingOf
<1> QED BY <1>4, <1>5, RingIn

(* ring_rebase lays the items out from slot 0 on. *)
LEMMA RingRebaseIs ==
  ASSUME NEW c \in Nat, NEW s, NEW r \in RingWith(c, s),
         NEW q, q = [r EXCEPT !.head = 0, !.data = Laid(r.data, s, Len(s))]
  PROVE  q \in RingWith(c, s)
<1>1. PICK d \in Storages(Anything, c), h \in Heads(c), n \in 0 .. c, w \in Slots(Word) :
        r = RingOf(d, h, c, n, w) /\ s \in Seq(Anything) /\ Len(s) = n
  BY RingOut
<1>2. PICK e : e = Laid(d, s, n)
  OBVIOUS
<1>3. e \in Storages(Anything, c) /\ 0 \in Heads(c) /\ Circle(e, 0, c, n) = s
  BY <1>1, <1>2, CircleLaid
<1>4. q = RingOf(e, 0, c, n, w)
  <2>1. r.data = d
    BY <1>1, RingFields
  <2>2. q = [r EXCEPT !.head = 0, !.data = e]
    BY <1>1, <1>2, <2>1
  <2> QED BY <1>1, <2>2 DEF RingOf
<1> QED BY <1>3, <1>4, RingIn

RingPushLoop(r, vs, n, f) == f = [k \in 0 .. n |-> IF k = 0 THEN r ELSE RingPushed(f[k - 1], vs[k])]

(* The loop of ring_push_many keeps the newest values, also those of the   *)
(* call that its later values push out.                                    *)
LEMMA RingPushManyIs ==
  ASSUME NEW c \in Nat, c > 0, NEW s, NEW r \in RingWith(c, s), NEW vs \in Seq(Anything), NEW n \in 0 .. Len(vs)
  PROVE  RingPushedAll(r, vs, n) \in RingWith(c, Sequence!Lasts(s \o SubSeq(vs, 1, n), c))
<1>1. s \in Seq(Anything) /\ Len(s) \in 0 .. c /\ Len(vs) \in Nat
  BY RingOut, LenProperties
<1> DEFINE D == [k \in 0 .. n |-> RingWith(c, Sequence!Lasts(s \o SubSeq(vs, 1, k), c))]
           Step == [p \in (UNION {D[k] : k \in 0 .. n}) \X (1 .. n) |-> RingPushed(p[1], vs[p[2]])]
<1>2. r \in D[0]
  <2>1. s \o SubSeq(vs, 1, 0) = s
    BY <1>1, NoMore
  <2>2. Sequence!Lasts(s, c) = s
    BY <1>1, LastsAre
  <2>3. 0 \in 0 .. n
    BY <1>1
  <2> QED BY <2>1, <2>2, <2>3
<1>3. ASSUME NEW k \in 1 .. n, NEW q \in D[k - 1]
      PROVE  RingPushed(q, vs[k]) \in D[k]
  <2>1. k \in 1 .. Len(vs) /\ k - 1 \in 0 .. n /\ k \in 0 .. n
    BY <1>1
  <2>2. PICK t : t = s \o SubSeq(vs, 1, k - 1)
    OBVIOUS
  <2>3. PICK v \in Anything : v = vs[k]
    BY <2>1, ElementOfSeq
  <2>4. t \in Seq(Anything)
    BY <1>1, <2>1, <2>2, OneMore
  <2>5. q \in RingWith(c, Sequence!Lasts(t, c))
    BY <2>1, <2>2
  <2>6. RingPushed(q, v) \in RingWith(c, Sequence!Lasts(Append(Sequence!Lasts(t, c), v), c))
    BY <2>5, RingPushKeeps
  <2>7. Sequence!Lasts(Append(Sequence!Lasts(t, c), v), c) = Sequence!Lasts(Append(t, v), c)
    BY <2>4, LastsOfMore
  <2>8. Append(t, v) = s \o SubSeq(vs, 1, k)
    BY <1>1, <2>1, <2>2, <2>3, OneMore
  <2> QED BY <2>1, <2>3, <2>6, <2>7, <2>8
<1>4. \A k \in 1 .. n : \A q \in D[k - 1] : Step[<<q, k>>] = RingPushed(q, vs[k])
  <2> SUFFICES ASSUME NEW k \in 1 .. n, NEW q \in D[k - 1] PROVE Step[<<q, k>>] = RingPushed(q, vs[k])
    OBVIOUS
  <2>1. k - 1 \in 0 .. n
    BY <1>1
  <2>2. <<q, k>> \in (UNION {D[j] : j \in 0 .. n}) \X (1 .. n)
    BY <2>1
  <2> QED BY <2>2
<1> HIDE DEF D, Step
<1>5. PICK f : Runs(D, r, Step, n, f)
  <2>1. Leads(D, Step, n)
    BY <1>3, <1>4 DEF Leads
  <2>2. n \in Nat
    BY <1>1
  <2> QED BY <1>2, <2>1, <2>2, LoopRuns
<1>6. RingPushLoop(r, vs, n, f)
  <2>1. f = [k \in 0 .. n |-> f[k]] /\ f[0] = r
    BY <1>5 DEF Runs
  <2>2. ASSUME NEW k \in 1 .. n
        PROVE  f[k] = RingPushed(f[k - 1], vs[k])
    BY <1>4, <1>5 DEF Runs
  <2>3. \A k \in 0 .. n : f[k] = IF k = 0 THEN r ELSE RingPushed(f[k - 1], vs[k])
    <3>1. \A k \in 0 .. n : k = 0 \/ k \in 1 .. n
      BY <1>1
    <3> QED BY <2>1, <2>2, <3>1
  <2> QED BY <2>1, <2>3 DEF RingPushLoop
<1>7. PICK g : g = CHOOSE h : RingPushLoop(r, vs, n, h)
  OBVIOUS
<1>8. RingPushLoop(r, vs, n, g)
  BY <1>6, <1>7
<1>9. RingPushedAll(r, vs, n) = g[n]
  BY <1>7 DEF RingPushedAll, Loop, RingPushLoop
<1>10. g[0] = r /\ \A k \in 1 .. n : g[k] = RingPushed(g[k - 1], vs[k])
  BY <1>1, <1>8 DEF RingPushLoop
<1>11. \A k \in 0 .. n : g[k] \in D[k]
  <2> DEFINE S == {k \in 0 .. n : g[k] \in D[k]}
  <2>1. 0 \in S
    BY <1>1, <1>2, <1>10
  <2>2. \A k \in 1 .. n : k - 1 \in S => k \in S
    BY <1>3, <1>10
  <2>3. n \in Nat
    BY <1>1
  <2> HIDE DEF S
  <2>4. \A k \in 0 .. n : k \in S
    BY <2>1, <2>2, <2>3, UpTo
  <2> QED BY <2>4 DEF S
<1>12. n \in 0 .. n
  BY <1>1
<1> QED BY <1>9, <1>11, <1>12 DEF D

(* The items in the two runs of slots that ring_contiguous reports. *)
LEMMA RingRunsAre ==
  ASSUME NEW c \in Nat, NEW s, NEW r \in RingWith(c, s)
  PROVE  [i \in 1 .. RingPrefixLength(r) |-> r.data[r.head + i - 1]]
           \o [i \in 1 .. RingSuffixLength(r) |-> r.data[i - 1]] = s
<1>1. PICK d \in Storages(Anything, c), h \in Heads(c), n \in 0 .. c, w \in Slots(Word) :
        r = RingOf(d, h, c, n, w) /\ s = Circle(d, h, c, n)
  BY RingOut
<1>2. r.data = d /\ r.head = h /\ r.capacity = c /\ r.length = n
  BY <1>1, RingFields
<1>3. s \in Seq(Anything) /\ Len(s) = n /\ \A i \in 1 .. n : s[i] = d[Place(h, i - 1, c)]
  <2>1. s \in Seq(Anything) /\ Len(s) = n
    BY <1>1, CircleSeq
  <2>2. \A i \in 1 .. n : s[i] = d[Place(h, i - 1, c)]
    BY <1>1, CircleItem
  <2> QED BY <2>1, <2>2
<1>4. h \in 0 .. c /\ (c > 0 => h \in 0 .. c - 1)
  BY DEF Heads, Slots
<1>5. PICK p \in 0 .. n, q \in 0 .. n : /\ p = RingPrefixLength(r) /\ q = RingSuffixLength(r) /\ p + q = n
                                         /\ h + p <= c /\ q <= h /\ (q > 0 => h + p = c)
  <2>1. RingPrefixLength(r) = IF n = 0 THEN 0 ELSE IF n < c - h THEN n ELSE c - h
    BY <1>2 DEF RingPrefixLength, Smaller
  <2>2. RingSuffixLength(r) = IF n > 0 /\ h + n > c THEN n - RingPrefixLength(r) ELSE 0
    BY <1>2 DEF RingSuffixLength
  <2> QED BY <1>4, <2>1, <2>2
<1>6. PICK a : a = [i \in 1 .. p |-> d[h + i - 1]]
  OBVIOUS
<1>7. PICK b : b = [i \in 1 .. q |-> d[i - 1]]
  OBVIOUS
<1>8. \A i \in Slots(c) : d[i] \in Anything
  BY DEF Storages
<1>9. a \in Seq(Anything) /\ Len(a) = p
  <2>1. \A i \in 1 .. p : h + i - 1 \in Slots(c)
    BY <1>4, <1>5 DEF Slots
  <2>2. a \in [1 .. p -> Anything]
    BY <1>6, <1>8, <2>1
  <2> QED BY <2>2, FunctionIsSeq
<1>10. b \in Seq(Anything) /\ Len(b) = q
  <2>1. \A i \in 1 .. q : i - 1 \in Slots(c)
    BY <1>4, <1>5 DEF Slots
  <2>2. b \in [1 .. q -> Anything]
    BY <1>7, <1>8, <2>1
  <2> QED BY <2>2, FunctionIsSeq
<1>11. PICK t : t = a \o b
  OBVIOUS
<1>12. t \in Seq(Anything) /\ Len(t) = n /\ \A i \in 1 .. n : t[i] = IF i <= p THEN a[i] ELSE b[i - p]
  <2>1. t \in Seq(Anything) /\ Len(t) = p + q
    BY <1>9, <1>10, <1>11, ConcatProperties
  <2>2. \A i \in 1 .. p + q : t[i] = IF i <= p THEN a[i] ELSE b[i - p]
    <3>1. \A i \in 1 .. Len(a) + Len(b) : t[i] = IF i <= Len(a) THEN a[i] ELSE b[i - Len(a)]
      BY <1>9, <1>10, <1>11, ConcatProperties
    <3> QED BY <3>1, <1>9, <1>10
  <2> QED BY <1>5, <2>1, <2>2
<1>13. ASSUME NEW i \in 1 .. n
       PROVE  t[i] = s[i]
  <2>1. CASE i <= p
    <3>1. Place(h, i - 1, c) = h + i - 1 /\ i \in 1 .. p
      BY <1>4, <1>5, <2>1 DEF Place
    <3> QED BY <3>1, <1>3, <1>6, <1>12, <2>1
  <2>2. CASE ~(i <= p)
    <3>1. i - p \in 1 .. q /\ h + p = c
      BY <1>5, <2>2
    <3>2. Place(h, i - 1, c) = (i - p) - 1
      BY <1>4, <3>1, <2>2 DEF Place
    <3>3. b[i - p] = d[(i - p) - 1]
      BY <1>7, <3>1
    <3> QED BY <3>2, <3>3, <1>3, <1>12, <2>2
  <2> QED BY <2>1, <2>2
<1>14. t = s
  BY <1>3, <1>12, <1>13, SeqEqual
<1> QED BY <1>2, <1>5, <1>6, <1>7, <1>11, <1>14

(* The items that ring_copy_newest_into copies. *)
LEMMA RingNewestAre ==
  ASSUME NEW c \in Nat, NEW s, NEW r \in RingWith(c, s), NEW k \in Nat,
         NEW m, m = Smaller(r.length, k)
  PROVE  [i \in 1 .. m |-> r.data[RingSlot(r, (r.length - m) + i - 1)]] = Sequence!Lasts(s, k)
<1>1. PICK d \in Storages(Anything, c), h \in Heads(c), n \in 0 .. c, w \in Slots(Word) :
        r = RingOf(d, h, c, n, w) /\ s = Circle(d, h, c, n)
  BY RingOut
<1>2. r.data = d /\ r.head = h /\ r.capacity = c /\ r.length = n
  BY <1>1, RingFields
<1>3. s \in Seq(Anything) /\ Len(s) = n /\ \A i \in 1 .. n : s[i] = d[(h + (i - 1)) % c]
  <2>1. s \in Seq(Anything) /\ Len(s) = n
    BY <1>1, CircleSeq
  <2> QED BY <1>1, <2>1 DEF Circle
<1>4. PICK l \in 0 .. Len(s) : l = n - m /\ Len(s) \in l .. Len(s) /\ m \in 0 .. n /\ m = Smaller(n, k)
  <2>1. m = Smaller(n, k)
    BY <1>2
  <2>2. Smaller(n, k) \in 0 .. n
    BY DEF Smaller
  <2>3. n - m \in 0 .. n /\ n \in (n - m) .. n
    BY <2>1, <2>2
  <2> QED BY <1>3, <2>1, <2>2, <2>3
<1>5. PICK p : p = SubSeq(s, l + 1, Len(s))
  OBVIOUS
<1>6. p \in Seq(Anything) /\ Len(p) = m /\ \A i \in 1 .. m : p[i] = s[l + i]
  <2>1. p \in Seq(Anything) /\ Len(p) = Len(s) - l
    <3>1. PICK z \in l .. Len(s) : z = Len(s)
      BY <1>4
    <3>2. p = SubSeq(s, l + 1, z)
      BY <1>5, <3>1
    <3>3. p \in Seq(Anything) /\ Len(p) = z - l
      BY <1>3, <3>2, PartOf
    <3> QED BY <3>1, <3>3
  <2>2. \A i \in 1 .. Len(s) - l : p[i] = s[l + i]
    <3>1. PICK z \in l .. Len(s) : z = Len(s)
      BY <1>4
    <3>2. p = SubSeq(s, l + 1, z)
      BY <1>5, <3>1
    <3>3. \A i \in 1 .. z - l : p[i] = s[l + i]
      BY <1>3, <3>2, PartItem
    <3> QED BY <3>1, <3>3
  <2>3. Len(s) - l = m
    <3>1. m \in Nat /\ n \in Nat /\ l = n - m
      BY <1>4
    <3> QED BY <1>3, <3>1
  <2> QED BY <2>1, <2>2, <2>3
<1>7. Sequence!Lasts(s, k) = p
  <2>1. CASE k >= Len(s)
    <3>1. l = 0
      BY <1>2, <1>3, <1>4, <2>1 DEF Smaller
    <3>2. p = SubSeq(s, 1, Len(s))
      BY <1>5, <3>1
    <3> QED BY <1>3, <2>1, <3>2, SubSeqFull, LastsAre
  <2>2. CASE ~(k >= Len(s))
    <3>1. Len(s) - k + 1 = l + 1
      BY <1>2, <1>3, <1>4, <2>2 DEF Smaller
    <3> QED BY <1>3, <1>5, <2>2, <3>1, LastsAre
  <2> QED BY <2>1, <2>2
<1>8. PICK t : t = [i \in 1 .. m |-> r.data[RingSlot(r, (r.length - m) + i - 1)]]
  OBVIOUS
<1>9. ASSUME NEW i \in 1 .. m
      PROVE  t[i] = p[i]
  <2>1. t[i] = d[(h + ((n - m) + i - 1)) % c]
    BY <1>2, <1>8 DEF RingSlot
  <2>2. l + i \in 1 .. n /\ (n - m) + i - 1 = (l + i) - 1
    BY <1>3, <1>4
  <2> QED BY <2>1, <2>2, <1>3, <1>6
<1>10. t = p
  <2>1. m \in Nat /\ \A i \in 1 .. m : p[i] \in Anything
    BY <1>4, <1>6, ElementOfSeq
  <2>2. t = [i \in 1 .. m |-> t[i]]
    BY <1>8
  <2>3. \A i \in 1 .. m : t[i] \in Anything
    BY <1>9, <2>1
  <2>4. t \in [1 .. m -> Anything]
    BY <2>2, <2>3
  <2>5. t \in Seq(Anything) /\ Len(t) = m
    BY <2>1, <2>4, FunctionIsSeq
  <2> QED BY <1>6, <1>9, <2>5, SeqEqual
<1> QED BY <1>7, <1>8, <1>10

-----------------------------------------------------------------------------
(* The ring: each call is the same call of a bounded sequence. *)

(* The ring of this state, its capacity and the sequence it holds. *)
RingAt(c, s) == object = "ring" /\ c \in Capacities /\ s \in Seq(Values) /\ store \in RingWith(c, s)

(* What the step of a ring shows of its sequence. *)
LEMMA RingView ==
  ASSUME NEW c, NEW s, RingAt(c, s)
  PROVE  /\ c \in Nat /\ s \in Seq(Values) /\ s \in Seq(Anything) /\ Len(s) \in 0 .. c /\ store \in RingWith(c, s)
         /\ store.length = Len(s) /\ store.capacity = c /\ Items = s /\ ~(object = "channel" /\ store.closed)
<1>1. c \in Nat /\ s \in Seq(Values) /\ store \in RingWith(c, s) /\ object = "ring"
  BY ContainerAssumption DEF RingAt
<1>2. s \in Seq(Anything) /\ Len(s) \in 0 .. c /\ store.length = Len(s) /\ store.capacity = c
  BY <1>1, RingOut, RingFields
<1>3. RingItems(store) = s
  BY <1>1 DEF RingWith
<1>4. Items = s
  BY <1>1, <1>3 DEF Items
<1> QED BY <1>1, <1>2, <1>4

(* A call after which the ring holds t. *)
LEMMA RingDoes ==
  ASSUME NEW c, NEW s, NEW t \in Seq(Values), RingAt(c, s), store' \in RingWith(c, t),
         NEW o, NEW a, NEW answer, Answer(o, a, answer)
  PROVE  /\ RingAt(c, t)' /\ Sequence!op = o /\ Sequence!arg = a /\ Sequence!Does(answer, t)
         /\ UNCHANGED store.capacity /\ Sequence!Room = c - Len(s)
<1>1. /\ object = "ring" /\ c \in Capacities /\ c \in Nat /\ store.capacity = c /\ Items = s
      /\ ~(object = "channel" /\ store.closed)
  BY RingView DEF RingAt
<1>2. object' = "ring" /\ call' = <<o, a, answer>>
  BY <1>1 DEF Answer
<1>3. RingAt(c, t)'
  BY <1>1, <1>2 DEF RingAt
<1>4. store'.capacity = c
  BY <1>1, RingOut, RingFields
<1>5. Items' = t
  <2>1. RingItems(store') = t
    BY DEF RingWith
  <2>2. RingItems(store)' = RingItems(store')
    BY DEF RingItems, RingSlot
  <2> QED BY <1>2, <2>1, <2>2 DEF Items
<1>6. UNCHANGED (object = "channel" /\ store.closed)
  BY <1>1, <1>2
<1>7. Sequence!Does(answer, t)
  BY <1>2, <1>5, <1>6 DEF Sequence!Does
<1>8. Sequence!Room = c - Len(s)
  BY <1>1 DEF Sequence!Room
<1>9. Sequence!op = o /\ Sequence!arg = a
  BY <1>2 DEF Sequence!op, Sequence!arg
<1> QED BY <1>1, <1>3, <1>4, <1>7, <1>8, <1>9

(* A call that changes nothing. *)
LEMMA RingLooks ==
  ASSUME NEW c, NEW s, RingAt(c, s), NEW o, NEW a, NEW answer, Stay(o, a, answer)
  PROVE  /\ RingAt(c, s)' /\ Sequence!op = o /\ Sequence!arg = a /\ Sequence!Looks(answer) /\ Sequence!Does(answer, s)
         /\ UNCHANGED store.capacity /\ Sequence!Room = c - Len(s)
<1>1. s \in Seq(Values) /\ store' \in RingWith(c, s) /\ Answer(o, a, answer) /\ Items = s
  BY RingView DEF Stay
<1>2. /\ RingAt(c, s)' /\ Sequence!op = o /\ Sequence!arg = a /\ Sequence!Does(answer, s)
      /\ UNCHANGED store.capacity /\ Sequence!Room = c - Len(s)
  BY <1>1, RingDoes
<1>3. Sequence!Looks(answer)
  BY <1>1, <1>2 DEF Sequence!Looks
<1> QED BY <1>2, <1>3

(* The step is one of a bounded sequence, and leaves a ring that holds     *)
(* one.                                                                    *)
Kept(c) == Sequence!Next /\ \E t : RingAt(c, t)'

(* ring_try_push appends where there is room. *)
LEMMA RingTryPush ==
  ASSUME NEW c, NEW s, RingAt(c, s), NEW v \in Values, ring_try_push(v)
  PROVE  Kept(c)
<1>1. /\ c \in Nat /\ s \in Seq(Values) /\ Len(s) \in 0 .. c /\ store \in RingWith(c, s)
      /\ store.length = Len(s) /\ store.capacity = c /\ Items = s
  BY RingView
<1>2. CASE Len(s) < c
  <2>1. store' = RingAppended(store, v) /\ Answer("append", v, TRUE)
    BY <1>1, <1>2 DEF ring_try_push
  <2>2. store' \in RingWith(c, Append(s, v))
    BY <1>1, <1>2, <2>1, RingAppendIs DEF Anything
  <2>3. Append(s, v) \in Seq(Values)
    BY <1>1, AppendIs
  <2>4. /\ RingAt(c, Append(s, v))' /\ Sequence!op = "append" /\ Sequence!arg = v
        /\ Sequence!Does(TRUE, Append(s, v)) /\ UNCHANGED store.capacity /\ Sequence!Room = c - Len(s)
    BY <2>1, <2>2, <2>3, RingDoes
  <2>5. Sequence!Room > 0 /\ Append(Items, Sequence!arg) = Append(s, v)
    BY <1>1, <1>2, <2>4
  <2>6. Sequence!Does(TRUE, Append(Items, Sequence!arg))
    BY <2>4, <2>5
  <2>7. Sequence!AddItems
    BY <2>4, <2>5, <2>6 DEF Sequence!AddItems
  <2> QED BY <2>4, <2>7 DEF Kept, Sequence!Next
<1>3. CASE Len(s) = c
  <2>0. ~(store.length < store.capacity)
    BY <1>1, <1>3
  <2>1. Stay("append", v, FALSE)
    BY <2>0 DEF ring_try_push
  <2>2. /\ RingAt(c, s)' /\ Sequence!op = "append" /\ Sequence!Looks(FALSE) /\ UNCHANGED store.capacity
        /\ Sequence!Room = c - Len(s)
    BY <2>1, RingLooks
  <2>4. ~(Sequence!Room > 0)
    BY <1>1, <1>3, <2>2
  <2>3. Sequence!AddItems
    BY <2>2, <2>4 DEF Sequence!AddItems
  <2> QED BY <2>2, <2>3 DEF Kept, Sequence!Next
<1> QED BY <1>1, <1>2, <1>3

(* ring_push appends and drops the oldest item of a full ring. *)
LEMMA RingPush ==
  ASSUME NEW c, NEW s, RingAt(c, s), NEW v \in Values, ring_push(v)
  PROVE  Kept(c)
<1>1. /\ c \in Nat /\ s \in Seq(Values) /\ Len(s) \in 0 .. c /\ store \in RingWith(c, s)
      /\ store.capacity = c /\ Items = s
  BY RingView
<1>2. CASE c > 0
  <2>1. store' = RingPushed(store, v) /\ Answer("appendDropping", v, TRUE)
    BY <1>1, <1>2 DEF ring_push
  <2>2. PICK t : t = Sequence!Lasts(Append(s, v), c)
    OBVIOUS
  <2>3. store' \in RingWith(c, t)
    BY <1>1, <1>2, <2>1, <2>2, RingPushKeeps DEF Anything
  <2>4. t \in Seq(Values)
    <3>1. Append(s, v) \in Seq(Values)
      BY <1>1, AppendIs
    <3> QED BY <1>1, <2>2, <3>1, PartsIn
  <2>5. /\ RingAt(c, t)' /\ Sequence!op = "appendDropping" /\ Sequence!arg = v
        /\ Sequence!Does(TRUE, t) /\ UNCHANGED store.capacity
    BY <2>1, <2>3, <2>4, RingDoes
  <2>6. store.capacity > 0 /\ Sequence!Lasts(Append(Items, Sequence!arg), store.capacity) = t
    BY <1>1, <1>2, <2>2, <2>5
  <2>7. Sequence!Does(TRUE, Sequence!Lasts(Append(Items, Sequence!arg), store.capacity))
    BY <2>5, <2>6
  <2>8. Sequence!AddItems
    BY <2>5, <2>6, <2>7 DEF Sequence!AddItems
  <2> QED BY <2>5, <2>8 DEF Kept, Sequence!Next
<1>3. CASE c = 0
  <2>1. ~(store.capacity > 0)
    BY <1>1, <1>3
  <2>2. Stay("appendDropping", v, FALSE)
    BY <2>1 DEF ring_push
  <2>3. RingAt(c, s)' /\ Sequence!op = "appendDropping" /\ Sequence!Looks(FALSE) /\ UNCHANGED store.capacity
    BY <2>2, RingLooks
  <2>4. Sequence!AddItems
    BY <2>1, <2>3 DEF Sequence!AddItems
  <2> QED BY <2>3, <2>4 DEF Kept, Sequence!Next
<1> QED BY <1>1, <1>2, <1>3

(* ring_try_push_many appends as many values as there is room for. *)
LEMMA RingTryPushMany ==
  ASSUME NEW c, NEW s, RingAt(c, s), NEW vs \in Seq(Values), ring_try_push_many(vs)
  PROVE  Kept(c)
<1>1. /\ c \in Nat /\ s \in Seq(Values) /\ Len(s) \in 0 .. c /\ store \in RingWith(c, s)
      /\ store.length = Len(s) /\ store.capacity = c /\ Items = s
  BY RingView
<1>2. PICK room \in Nat : room = c - Len(s)
  BY <1>1
<1>3. PICK n : n = Smaller(Len(vs), room)
  OBVIOUS
<1>4. n \in 0 .. Len(vs) /\ n <= room /\ Sequence!Firsts(vs, room) = SubSeq(vs, 1, n) /\ Len(Sequence!Firsts(vs, room)) = n
  BY <1>3, FirstsShort
<1>5. store' = RingAppendedAll(store, vs, n) /\ Answer("appendAll", vs, n)
  BY <1>1, <1>2, <1>3 DEF ring_try_push_many
<1>6. PICK some : some = Sequence!Firsts(vs, room)
  OBVIOUS
<1>7. some \in Seq(Values) /\ s \o some \in Seq(Values)
  <2>1. some \in Seq(Values)
    BY <1>6, PartsIn
  <2> QED BY <1>1, <2>1, ConcatProperties
<1>8. store' \in RingWith(c, s \o some)
  <2>1. vs \in Seq(Anything)
    BY SeqOfMore DEF Anything
  <2>2. Len(s) + n <= c
    BY <1>1, <1>2, <1>4, LenProperties
  <2>3. store' \in RingWith(c, s \o SubSeq(vs, 1, n))
    BY <1>1, <1>4, <1>5, <2>1, <2>2, RingAppendManyIs
  <2> QED BY <1>4, <1>6, <2>3
<1>9. /\ RingAt(c, s \o some)' /\ Sequence!op = "appendAll" /\ Sequence!arg = vs
      /\ Sequence!Does(n, s \o some) /\ UNCHANGED store.capacity /\ Sequence!Room = room
  BY <1>2, <1>5, <1>7, <1>8, RingDoes
<1>10. Sequence!Firsts(Sequence!arg, Sequence!Room) = some /\ Len(some) = n /\ Items \o some = s \o some
  BY <1>1, <1>4, <1>6, <1>9
<1>11. Sequence!AddItems
  <2>1. Sequence!Does(Len(some), Items \o some)
    BY <1>9, <1>10
  <2> QED BY <1>9, <1>10, <2>1 DEF Sequence!AddItems
<1> QED BY <1>9, <1>11 DEF Kept, Sequence!Next

(* ring_push_many appends all of its values and keeps the newest. *)
LEMMA RingPushMany ==
  ASSUME NEW c, NEW s, RingAt(c, s), NEW vs \in Seq(Values), ring_push_many(vs)
  PROVE  Kept(c)
<1>1. /\ c \in Nat /\ s \in Seq(Values) /\ s \in Seq(Anything) /\ Len(s) \in 0 .. c /\ store \in RingWith(c, s)
      /\ store.capacity = c /\ Items = s
  BY RingView
<1>2. CASE c > 0
  <2>1. store' = RingPushedAll(store, vs, Len(vs)) /\ Answer("appendAllDropping", vs, Len(vs))
    BY <1>1, <1>2 DEF ring_push_many
  <2>2. PICK t : t = Sequence!Lasts(s \o vs, c)
    OBVIOUS
  <2>3. store' \in RingWith(c, t)
    <3>1. vs \in Seq(Anything)
      BY SeqOfMore DEF Anything
    <3>2. PICK n \in 0 .. Len(vs) : n = Len(vs)
      BY LenProperties
    <3>3. store' \in RingWith(c, Sequence!Lasts(s \o SubSeq(vs, 1, n), c))
      BY <1>1, <1>2, <2>1, <3>1, <3>2, RingPushManyIs
    <3>4. SubSeq(vs, 1, n) = vs
      BY <3>2, SubSeqFull
    <3> QED BY <2>2, <3>3, <3>4
  <2>4. t \in Seq(Values)
    <3>1. s \o vs \in Seq(Values)
      BY <1>1, ConcatProperties
    <3> QED BY <1>1, <2>2, <3>1, PartsIn
  <2>5. /\ RingAt(c, t)' /\ Sequence!op = "appendAllDropping" /\ Sequence!arg = vs
        /\ Sequence!Does(Len(vs), t) /\ UNCHANGED store.capacity
    BY <2>1, <2>3, <2>4, RingDoes
  <2>6. /\ store.capacity > 0 /\ Len(Sequence!arg) = Len(vs)
        /\ Sequence!Lasts(Items \o Sequence!arg, store.capacity) = t
    BY <1>1, <1>2, <2>2, <2>5
  <2>7. Sequence!Does(Len(Sequence!arg), Sequence!Lasts(Items \o Sequence!arg, store.capacity))
    BY <2>5, <2>6
  <2>8. Sequence!AddItems
    BY <2>5, <2>6, <2>7 DEF Sequence!AddItems
  <2> QED BY <2>5, <2>8 DEF Kept, Sequence!Next
<1>3. CASE c = 0
  <2>1. ~(store.capacity > 0)
    BY <1>1, <1>3
  <2>2. Stay("appendAllDropping", vs, 0)
    BY <2>1 DEF ring_push_many
  <2>3. RingAt(c, s)' /\ Sequence!op = "appendAllDropping" /\ Sequence!Looks(0) /\ UNCHANGED store.capacity
    BY <2>2, RingLooks
  <2>4. Sequence!AddItems
    BY <2>1, <2>3 DEF Sequence!AddItems
  <2> QED BY <2>3, <2>4 DEF Kept, Sequence!Next
<1> QED BY <1>1, <1>2, <1>3

(* The oldest and the newest item in storage. *)
LEMMA RingEnds ==
  ASSUME NEW c \in Nat, NEW s, NEW r \in RingWith(c, s), Len(s) > 0
  PROVE  r.data[r.head] = s[1] /\ r.data[RingSlot(r, r.length - 1)] = s[Len(s)]
<1>1. PICK d \in Storages(Anything, c), h \in Heads(c), n \in 0 .. c, w \in Slots(Word) :
        r = RingOf(d, h, c, n, w) /\ s = Circle(d, h, c, n) /\ Len(s) = n
  BY RingOut
<1>2. r.data = d /\ r.head = h /\ r.length = n /\ r.capacity = c
  BY <1>1, RingFields
<1>3. h \in 0 .. c - 1 /\ 1 \in 1 .. n /\ n \in 1 .. n
  BY <1>1 DEF Heads, Slots
<1>4. s[1] = d[Place(h, 1 - 1, c)] /\ Place(h, 1 - 1, c) = h
  <2>1. s[1] = d[Place(h, 1 - 1, c)]
    BY <1>1, <1>3, CircleItem
  <2> QED BY <2>1, <1>3 DEF Place
<1>5. s[n] = d[(h + (n - 1)) % c]
  BY <1>1, <1>3 DEF Circle
<1> QED BY <1>1, <1>2, <1>4, <1>5 DEF RingSlot

(* ring_pop_oldest_or takes the first item. *)
LEMMA RingPopOldest ==
  ASSUME NEW c, NEW s, RingAt(c, s), ring_pop_oldest_or
  PROVE  Kept(c)
<1>1. /\ c \in Nat /\ s \in Seq(Values) /\ Len(s) \in 0 .. c /\ store \in RingWith(c, s)
      /\ store.length = Len(s) /\ Items = s
  BY RingView
<1>2. CASE Len(s) > 0
  <2>1. store.length # 0
    BY <1>1, <1>2
  <2>2. store' = RingDropped(store, 1) /\ Answer("takeFirst", 0, <<store.data[store.head]>>)
    BY <2>1 DEF ring_pop_oldest_or
  <2>3. PICK t : t = Sequence!Without(s, 1)
    OBVIOUS
  <2>4. t = SubSeq(s, 2, Len(s)) /\ Sequence!Firsts(s, 1) = <<s[1]>>
    BY <1>1, <1>2, <2>3, EndsAre
  <2>5. t \in Seq(Values)
    BY <1>1, <2>3, PartsIn
  <2>6. store' \in RingWith(c, t)
    <3>1. PICK m \in 0 .. Len(s) : m = 1
      BY <1>1, <1>2
    <3>2. RingDropped(store, m) \in RingWith(c, SubSeq(s, m + 1, Len(s)))
      BY <1>1, RingDropIs
    <3>3. m + 1 = 2
      BY <3>1
    <3> QED BY <2>2, <2>4, <3>1, <3>2, <3>3
  <2>7. store.data[store.head] = s[1]
    BY <1>1, <1>2, RingEnds
  <2>8. /\ RingAt(c, t)' /\ Sequence!op = "takeFirst" /\ Sequence!Does(<<store.data[store.head]>>, t)
        /\ UNCHANGED store.capacity
    BY <2>2, <2>5, <2>6, RingDoes
  <2>9. Sequence!Firsts(Items, 1) = <<store.data[store.head]>> /\ Sequence!Without(Items, 1) = t
    BY <1>1, <2>3, <2>4, <2>7
  <2>10. Sequence!Does(Sequence!Firsts(Items, 1), Sequence!Without(Items, 1))
    BY <2>8, <2>9
  <2>11. Sequence!RemoveItems
    BY <2>8, <2>10 DEF Sequence!RemoveItems
  <2> QED BY <2>8, <2>11 DEF Kept, Sequence!Next
<1>3. CASE Len(s) = 0
  <2>1. store.length = 0
    BY <1>1, <1>3
  <2>2. Stay("takeFirst", 0, <<>>)
    BY <2>1 DEF ring_pop_oldest_or
  <2>3. RingAt(c, s)' /\ Sequence!op = "takeFirst" /\ Sequence!Does(<<>>, s) /\ UNCHANGED store.capacity
    BY <2>2, RingLooks
  <2>4. Sequence!Firsts(Items, 1) = <<>> /\ Sequence!Without(Items, 1) = s
    <3>1. s = <<>> /\ 1 >= Len(s)
      BY <1>1, <1>3, EmptySeq
    <3> QED BY <1>1, <3>1, FirstsAre, WithoutIs
  <2>5. Sequence!Does(Sequence!Firsts(Items, 1), Sequence!Without(Items, 1))
    BY <2>3, <2>4
  <2>6. Sequence!RemoveItems
    BY <2>3, <2>5 DEF Sequence!RemoveItems
  <2> QED BY <2>3, <2>6 DEF Kept, Sequence!Next
<1> QED BY <1>1, <1>2, <1>3

(* ring_pop_newest_or takes the last item. *)
LEMMA RingPopNewest ==
  ASSUME NEW c, NEW s, RingAt(c, s), ring_pop_newest_or
  PROVE  Kept(c)
<1>1. /\ c \in Nat /\ s \in Seq(Values) /\ Len(s) \in 0 .. c /\ store \in RingWith(c, s)
      /\ store.length = Len(s) /\ Items = s
  BY RingView
<1>2. CASE Len(s) > 0
  <2>1. store.length # 0
    BY <1>1, <1>2
  <2>2. PICK q : q = [store EXCEPT !.length = store.length - 1, !.head = IF store.length = 1 THEN 0 ELSE store.head]
    OBVIOUS
  <2>3. store' = q /\ Answer("takeLast", 0, <<store.data[RingSlot(store, store.length - 1)]>>)
    BY <2>1, <2>2 DEF ring_pop_newest_or
  <2>4. PICK k \in Nat : k = Len(s) - 1
    BY <1>1, <1>2
  <2>5. PICK t : t = Sequence!Firsts(s, k)
    OBVIOUS
  <2>6. t = SubSeq(s, 1, Len(s) - 1) /\ Sequence!Lasts(s, 1) = <<s[Len(s)]>>
    BY <1>1, <1>2, <2>4, <2>5, EndsAre
  <2>7. t \in Seq(Values)
    BY <1>1, <2>5, PartsIn
  <2>8. store' \in RingWith(c, t)
    BY <1>1, <1>2, <2>2, <2>3, <2>6, RingPopIs
  <2>9. store.data[RingSlot(store, store.length - 1)] = s[Len(s)]
    BY <1>1, <1>2, RingEnds
  <2>10. /\ RingAt(c, t)' /\ Sequence!op = "takeLast"
         /\ Sequence!Does(<<store.data[RingSlot(store, store.length - 1)]>>, t) /\ UNCHANGED store.capacity
    BY <2>3, <2>7, <2>8, RingDoes
  <2>11. /\ Sequence!Lasts(Items, 1) = <<store.data[RingSlot(store, store.length - 1)]>>
         /\ Sequence!Firsts(Items, Len(Items) - 1) = t
    BY <1>1, <2>4, <2>5, <2>6, <2>9
  <2>12. Sequence!Does(Sequence!Lasts(Items, 1), Sequence!Firsts(Items, Len(Items) - 1))
    BY <2>10, <2>11
  <2>13. Sequence!RemoveItems
    BY <2>10, <2>12 DEF Sequence!RemoveItems
  <2> QED BY <2>10, <2>13 DEF Kept, Sequence!Next
<1>3. CASE Len(s) = 0
  <2>1. store.length = 0
    BY <1>1, <1>3
  <2>2. Stay("takeLast", 0, <<>>)
    BY <2>1 DEF ring_pop_newest_or
  <2>3. RingAt(c, s)' /\ Sequence!op = "takeLast" /\ Sequence!Does(<<>>, s) /\ UNCHANGED store.capacity
    BY <2>2, RingLooks
  <2>4. Sequence!Lasts(Items, 1) = <<>> /\ Sequence!Firsts(Items, Len(Items) - 1) = s
    <3>1. s = <<>> /\ 1 >= Len(s)
      BY <1>1, <1>3, EmptySeq
    <3>2. Sequence!Lasts(s, 1) = <<>>
      BY <1>1, <3>1, LastsAre
    <3>3. Sequence!Least(Len(s) - 1, Len(s)) = -1
      BY <1>3 DEF Sequence!Least
    <3>4. Sequence!Firsts(s, Len(s) - 1) = SubSeq(s, 1, -1)
      BY <3>3 DEF Sequence!Firsts
    <3>5. SubSeq(s, 1, -1) = <<>>
      BY SubSeqEmpty
    <3> QED BY <1>1, <3>1, <3>2, <3>4, <3>5
  <2>5. Sequence!Does(Sequence!Lasts(Items, 1), Sequence!Firsts(Items, Len(Items) - 1))
    BY <2>3, <2>4
  <2>6. Sequence!RemoveItems
    BY <2>3, <2>5 DEF Sequence!RemoveItems
  <2> QED BY <2>3, <2>6 DEF Kept, Sequence!Next
<1> QED BY <1>1, <1>2, <1>3

(* ring_drop_oldest drops the first items. *)
LEMMA RingDropOldest ==
  ASSUME NEW c, NEW s, RingAt(c, s), NEW n \in Nat, ring_drop_oldest(n)
  PROVE  Kept(c)
<1>1. /\ c \in Nat /\ s \in Seq(Values) /\ Len(s) \in 0 .. c /\ store \in RingWith(c, s)
      /\ store.length = Len(s) /\ Items = s
  BY RingView
<1>2. PICK m \in 0 .. Len(s) : m = Smaller(n, store.length) /\ m = Sequence!Least(n, Len(s))
  <2>1. PICK l \in Nat : l = Len(s) /\ l = store.length
    BY <1>1
  <2>2. Smaller(n, l) = Sequence!Least(n, l) /\ Smaller(n, l) \in 0 .. l
    BY <2>1, LeastIsSmaller
  <2> QED BY <2>1, <2>2
<1>3. store' = (IF store.length = 0 THEN store ELSE RingDropped(store, m)) /\ Answer("dropFirst", n, m)
  BY <1>2 DEF ring_drop_oldest
<1>4. PICK t : t = Sequence!Without(s, n)
  OBVIOUS
<1>5. t \in Seq(Values)
  BY <1>1, <1>4, PartsIn
<1>6. t = SubSeq(s, m + 1, Len(s))
  BY <1>2, <1>4 DEF Sequence!Without
<1>7. store' \in RingWith(c, t)
  <2>1. CASE Len(s) = 0
    <3>1. s = <<>> /\ n >= Len(s)
      BY <1>1, <2>1, EmptySeq
    <3>2. t = s
      BY <1>1, <1>4, <3>1, WithoutIs
    <3> QED BY <1>1, <1>3, <2>1, <3>2
  <2>2. CASE Len(s) # 0
    BY <1>1, <1>3, <1>6, <2>2, RingDropIs
  <2> QED BY <2>1, <2>2
<1>8. RingAt(c, t)' /\ Sequence!op = "dropFirst" /\ Sequence!arg = n /\ Sequence!Does(m, t) /\ UNCHANGED store.capacity
  BY <1>3, <1>5, <1>7, RingDoes
<1>9. Sequence!Least(Sequence!arg, Len(Items)) = m /\ Sequence!Without(Items, Sequence!arg) = t
  BY <1>1, <1>2, <1>4, <1>8
<1>10. Sequence!Does(Sequence!Least(Sequence!arg, Len(Items)), Sequence!Without(Items, Sequence!arg))
  BY <1>8, <1>9
<1>11. Sequence!RemoveItems
  BY <1>8, <1>10 DEF Sequence!RemoveItems
<1> QED BY <1>8, <1>11 DEF Kept, Sequence!Next

(* ring_keep_newest keeps the last items. *)
LEMMA RingKeepNewest ==
  ASSUME NEW c, NEW s, RingAt(c, s), NEW n \in Nat, ring_keep_newest(n)
  PROVE  Kept(c)
<1>1. /\ c \in Nat /\ s \in Seq(Values) /\ Len(s) \in 0 .. c /\ store \in RingWith(c, s)
      /\ store.length = Len(s) /\ Items = s
  BY RingView
<1>2. CASE n >= Len(s)
  <2>1. Stay("keepLast", n, store.length)
    BY <1>1, <1>2 DEF ring_keep_newest
  <2>2. /\ RingAt(c, s)' /\ Sequence!op = "keepLast" /\ Sequence!arg = n /\ Sequence!Does(store.length, s)
        /\ UNCHANGED store.capacity
    BY <2>1, RingLooks
  <2>3. Sequence!Least(n, Len(s)) = Len(s) /\ Sequence!Lasts(s, n) = s
    BY <1>1, <1>2, LastsAre DEF Sequence!Least
  <2>4. Sequence!Least(Sequence!arg, Len(Items)) = store.length /\ Sequence!Lasts(Items, Sequence!arg) = s
    BY <1>1, <2>2, <2>3
  <2>5. Sequence!Does(Sequence!Least(Sequence!arg, Len(Items)), Sequence!Lasts(Items, Sequence!arg))
    BY <2>2, <2>4
  <2>6. Sequence!RemoveItems
    BY <2>2, <2>5 DEF Sequence!RemoveItems
  <2> QED BY <2>2, <2>6 DEF Kept, Sequence!Next
<1>3. CASE ~(n >= Len(s))
  <2>1. PICK m \in 0 .. Len(s) : m = Len(s) - n
    BY <1>1, <1>3
  <2>2. store' = RingDropped(store, m) /\ Answer("keepLast", n, n)
    BY <1>1, <1>3, <2>1 DEF ring_keep_newest
  <2>3. PICK t : t = Sequence!Lasts(s, n)
    OBVIOUS
  <2>4. t \in Seq(Values)
    BY <1>1, <2>3, PartsIn
  <2>5. t = SubSeq(s, m + 1, Len(s))
    BY <1>1, <1>3, <2>1, <2>3, LastsAre
  <2>6. store' \in RingWith(c, t)
    BY <1>1, <2>2, <2>5, RingDropIs
  <2>7. RingAt(c, t)' /\ Sequence!op = "keepLast" /\ Sequence!arg = n /\ Sequence!Does(n, t) /\ UNCHANGED store.capacity
    BY <2>2, <2>4, <2>6, RingDoes
  <2>8. Sequence!Least(n, Len(s)) = n
    BY <1>1, <1>3 DEF Sequence!Least
  <2>9. Sequence!Least(Sequence!arg, Len(Items)) = n /\ Sequence!Lasts(Items, Sequence!arg) = t
    BY <1>1, <2>3, <2>7, <2>8
  <2>10. Sequence!Does(Sequence!Least(Sequence!arg, Len(Items)), Sequence!Lasts(Items, Sequence!arg))
    BY <2>7, <2>9
  <2>11. Sequence!RemoveItems
    BY <2>7, <2>10 DEF Sequence!RemoveItems
  <2> QED BY <2>7, <2>11 DEF Kept, Sequence!Next
<1> QED BY <1>2, <1>3

(* ring_clear and ring_reset leave no item. *)
LEMMA RingClear ==
  ASSUME NEW c, NEW s, RingAt(c, s), ring_clear \/ ring_reset
  PROVE  Kept(c)
<1>1. c \in Nat /\ store \in RingWith(c, s)
  BY RingView
<1>2. Answer("clear", 0, TRUE)
  BY DEF ring_clear, ring_reset
<1>3. store' \in RingWith(c, <<>>)
  <2>1. CASE ring_clear
    <3>1. store' = [store EXCEPT !.length = 0, !.head = 0]
      BY <2>1 DEF ring_clear
    <3>2. store' = [store EXCEPT !.length = 0, !.head = 0, !.overwritten = store.overwritten]
          /\ store.overwritten \in Slots(Word)
      BY <1>1, <3>1, RingKeepsCount
    <3> QED BY <1>1, <3>2, RingClearIs
  <2>2. CASE ring_reset
    <3>1. store' = [store EXCEPT !.length = 0, !.head = 0, !.overwritten = 0]
      BY <2>2 DEF ring_reset
    <3>2. 0 \in Slots(Word)
      BY ContainerAssumption DEF Slots
    <3> QED BY <1>1, <3>1, <3>2, RingClearIs
  <2> QED BY <2>1, <2>2
<1>4. PICK t \in Seq(Values) : t = <<>>
  BY EmptySeq
<1>5. RingAt(c, t)' /\ Sequence!op = "clear" /\ Sequence!Does(TRUE, t) /\ UNCHANGED store.capacity
  BY <1>2, <1>3, <1>4, RingDoes
<1>6. Sequence!RemoveItems
  BY <1>4, <1>5 DEF Sequence!RemoveItems
<1> QED BY <1>5, <1>6 DEF Kept, Sequence!Next

(* ring_set replaces one item. *)
LEMMA RingSet ==
  ASSUME NEW c, NEW s, RingAt(c, s), NEW i \in Nat, NEW v \in Values, ring_set(i, v)
  PROVE  Kept(c)
<1>1. /\ c \in Nat /\ s \in Seq(Values) /\ Len(s) \in 0 .. c /\ store \in RingWith(c, s)
      /\ store.length = Len(s) /\ Items = s
  BY RingView
<1>2. CASE i < Len(s)
  <2>1. PICK g : g = RingSlot(store, i)
    OBVIOUS
  <2>2. PICK q : q = [store EXCEPT !.data = Put(store.data, g, v)]
    OBVIOUS
  <2>3. store' = q /\ Answer("set", <<i, v>>, TRUE)
    BY <1>1, <1>2, <2>1, <2>2 DEF ring_set, Put
  <2>4. PICK t : t = Put(s, i + 1, v)
    OBVIOUS
  <2>5. store' \in RingWith(c, t)
    <3>1. i \in 0 .. Len(s) - 1 /\ v \in Anything
      BY <1>1, <1>2 DEF Anything
    <3> QED BY <1>1, <2>1, <2>2, <2>3, <2>4, <3>1, RingSetIs
  <2>6. t \in Seq(Values)
    <3>1. i + 1 \in 1 .. Len(s)
      BY <1>1, <1>2
    <3> QED BY <1>1, <2>4, <3>1, ExceptSeq DEF Put
  <2>7. /\ RingAt(c, t)' /\ Sequence!op = "set" /\ Sequence!arg = <<i, v>> /\ Sequence!Does(TRUE, t)
        /\ UNCHANGED store.capacity
    BY <2>3, <2>5, <2>6, RingDoes
  <2>8. Sequence!arg[1] = i /\ Sequence!arg[2] = v
    BY <2>7
  <2>9. Sequence!arg[1] < Len(Items) /\ [Items EXCEPT ![Sequence!arg[1] + 1] = Sequence!arg[2]] = t
    BY <1>1, <1>2, <2>4, <2>8 DEF Put
  <2>10. Sequence!Does(TRUE, [Items EXCEPT ![Sequence!arg[1] + 1] = Sequence!arg[2]])
    BY <2>7, <2>9
  <2>11. Sequence!Rearrange
    BY <2>7, <2>9, <2>10 DEF Sequence!Rearrange
  <2> QED BY <2>7, <2>11 DEF Kept, Sequence!Next
<1>3. CASE ~(i < Len(s))
  <2>1. Stay("set", <<i, v>>, FALSE)
    BY <1>1, <1>3 DEF ring_set
  <2>2. /\ RingAt(c, s)' /\ Sequence!op = "set" /\ Sequence!arg = <<i, v>> /\ Sequence!Looks(FALSE)
        /\ UNCHANGED store.capacity
    BY <2>1, RingLooks
  <2>3. Sequence!arg[1] = i
    BY <2>2
  <2>4. ~(Sequence!arg[1] < Len(Items))
    BY <1>1, <1>3, <2>3
  <2>5. Sequence!Rearrange
    BY <2>2, <2>4 DEF Sequence!Rearrange
  <2> QED BY <2>2, <2>5 DEF Kept, Sequence!Next
<1> QED BY <1>2, <1>3

(* A ring that is turned by moving its head alone. *)
LEMMA RingTurns ==
  ASSUME NEW c, NEW s, RingAt(c, s), Len(s) = c, c > 0, NEW k \in Nat, NEW o, NEW n,
         store' = [store EXCEPT !.head = (store.head + k) % c], Answer(o, n, TRUE)
  PROVE  /\ RingAt(c, Sequence!Turned(s, k))'
         /\ Sequence!op = o /\ Sequence!arg = n /\ Sequence!Does(TRUE, Sequence!Turned(Items, k))
         /\ UNCHANGED store.capacity
<1>1. c \in Nat /\ s \in Seq(Values) /\ store \in RingWith(c, s) /\ Items = s
  BY RingView
<1>2. PICK t : t = Sequence!Turned(s, k)
  OBVIOUS
<1>3. t \in Seq(Values)
  BY <1>1, <1>2, TurnedIn
<1>4. PICK g : g = (store.head + k) % c
  OBVIOUS
<1>5. store' \in RingWith(c, t)
  <2>1. store' = [store EXCEPT !.head = g]
    BY <1>4
  <2> QED BY <1>1, <1>2, <1>4, <2>1, RingTurnIs
<1>6. /\ RingAt(c, t)' /\ Sequence!op = o /\ Sequence!arg = n /\ Sequence!Does(TRUE, t) /\ UNCHANGED store.capacity
  BY <1>3, <1>5, RingDoes
<1>7. Sequence!Turned(Items, k) = t
  BY <1>1, <1>2
<1> QED BY <1>2, <1>6, <1>7

LEMMA RingHeadIs ==
  ASSUME NEW c \in Nat, c > 0, NEW s, NEW r \in RingWith(c, s)
  PROVE  r.head \in Int
<1>1. PICK d \in Storages(Anything, c), h \in Heads(c), n \in 0 .. c, w \in Slots(Word) : r = RingOf(d, h, c, n, w)
  BY RingOut
<1> QED BY <1>1, RingFields DEF Heads, Slots

(* ring_rotate_left turns a full ring. *)
LEMMA RingRotateLeft ==
  ASSUME NEW c, NEW s, RingAt(c, s), NEW n \in Nat, ring_rotate_left(n)
  PROVE  Kept(c)
<1>1. /\ c \in Nat /\ s \in Seq(Values) /\ Len(s) \in 0 .. c /\ store \in RingWith(c, s)
      /\ store.length = Len(s) /\ store.capacity = c /\ Items = s
  BY RingView
<1>2. CASE Len(s) = 0
  <2>1. Stay("rotateFullLeft", n, TRUE)
    BY <1>1, <1>2 DEF ring_rotate_left
  <2>2. RingAt(c, s)' /\ Sequence!op = "rotateFullLeft" /\ Sequence!arg = n /\ Sequence!Does(TRUE, s) /\ UNCHANGED store.capacity
    BY <2>1, RingLooks
  <2>3. Items = <<>> /\ Sequence!Turned(Items, Sequence!arg) = s
    BY <1>1, <1>2, EmptySeq, TurnedNone
  <2>4. Sequence!Does(TRUE, Sequence!Turned(Items, Sequence!arg))
    BY <2>2, <2>3
  <2>5. Sequence!Rearrange
    BY <2>2, <2>3, <2>4 DEF Sequence!Rearrange
  <2> QED BY <2>2, <2>5 DEF Kept, Sequence!Next
<1>3. CASE Len(s) # 0 /\ Len(s) # c
  <2>1. store.length # 0 /\ store.length # store.capacity
    BY <1>1, <1>3
  <2>2. Stay("rotateFullLeft", n, FALSE)
    BY <2>1 DEF ring_rotate_left
  <2>3. /\ RingAt(c, s)' /\ Sequence!op = "rotateFullLeft" /\ Sequence!Looks(FALSE) /\ UNCHANGED store.capacity
        /\ Sequence!Room = c - Len(s)
    BY <2>2, RingLooks
  <2>4. ~(Items = <<>> \/ Sequence!Room = 0)
    BY <1>1, <1>3, <2>3, EmptySeq
  <2>5. Sequence!Rearrange
    BY <2>3, <2>4 DEF Sequence!Rearrange
  <2> QED BY <2>3, <2>5 DEF Kept, Sequence!Next
<1>4. CASE Len(s) # 0 /\ Len(s) = c
  <2>1. store.length # 0 /\ store.length = store.capacity
    BY <1>1, <1>4
  <2>2. /\ store' = [store EXCEPT !.head = (store.head + (n % store.length)) % store.capacity]
        /\ Answer("rotateFullLeft", n, TRUE)
    BY <2>1 DEF ring_rotate_left
  <2>0. c > 0
    BY <1>1, <1>4
  <2>3. (store.head + (n % c)) % c = (store.head + n) % c
    <3>1. PICK h \in Int : h = store.head
      BY <1>1, <2>0, RingHeadIs
    <3>2. PICK m \in Int : m = n
      OBVIOUS
    <3>3. (h + (m % c)) % c = (h + m) % c
      BY <1>1, <2>0, RemainderOfSum
    <3> QED BY <3>1, <3>2, <3>3
  <2>4. store' = [store EXCEPT !.head = (store.head + n) % c]
    BY <1>1, <1>4, <2>2, <2>3
  <2>5. /\ RingAt(c, Sequence!Turned(s, n))'
        /\ Sequence!op = "rotateFullLeft" /\ Sequence!arg = n /\ Sequence!Does(TRUE, Sequence!Turned(Items, n))
        /\ UNCHANGED store.capacity
    BY <1>4, <2>0, <2>2, <2>4, RingTurns
  <2>6. Items = <<>> \/ Sequence!Room = 0
    <3>1. Sequence!Room = c - Len(s)
      BY <1>1, RingView DEF Sequence!Room
    <3> QED BY <1>1, <1>4, <3>1
  <2>7. Sequence!Does(TRUE, Sequence!Turned(Items, Sequence!arg))
    BY <2>5
  <2>8. Sequence!Rearrange
    BY <2>5, <2>6, <2>7 DEF Sequence!Rearrange
  <2> QED BY <2>5, <2>8 DEF Kept, Sequence!Next
<1> QED BY <1>2, <1>3, <1>4

(* ring_rotate_right turns a full ring the other way. *)
LEMMA RingRotateRight ==
  ASSUME NEW c, NEW s, RingAt(c, s), NEW n \in Nat, ring_rotate_right(n)
  PROVE  Kept(c)
<1>1. /\ c \in Nat /\ s \in Seq(Values) /\ Len(s) \in 0 .. c /\ store \in RingWith(c, s)
      /\ store.length = Len(s) /\ store.capacity = c /\ Items = s
  BY RingView
<1>2. CASE Len(s) = 0
  <2>1. Stay("rotateFullRight", n, TRUE)
    BY <1>1, <1>2 DEF ring_rotate_right
  <2>2. RingAt(c, s)' /\ Sequence!op = "rotateFullRight" /\ Sequence!Does(TRUE, s) /\ UNCHANGED store.capacity
    BY <2>1, RingLooks
  <2>3. Items = <<>> /\ Sequence!Turned(Items, Sequence!arg * (Len(Items) - 1)) = s
    BY <1>1, <1>2, EmptySeq, TurnedNone
  <2>4. Sequence!Does(TRUE, Sequence!Turned(Items, Sequence!arg * (Len(Items) - 1)))
    BY <2>2, <2>3
  <2>5. Sequence!Rearrange
    BY <2>2, <2>3, <2>4 DEF Sequence!Rearrange
  <2> QED BY <2>2, <2>5 DEF Kept, Sequence!Next
<1>3. CASE Len(s) # 0 /\ Len(s) # c
  <2>1. store.length # 0 /\ store.length # store.capacity
    BY <1>1, <1>3
  <2>2. Stay("rotateFullRight", n, FALSE)
    BY <2>1 DEF ring_rotate_right
  <2>3. /\ RingAt(c, s)' /\ Sequence!op = "rotateFullRight" /\ Sequence!Looks(FALSE) /\ UNCHANGED store.capacity
        /\ Sequence!Room = c - Len(s)
    BY <2>2, RingLooks
  <2>4. ~(Items = <<>> \/ Sequence!Room = 0)
    BY <1>1, <1>3, <2>3, EmptySeq
  <2>5. Sequence!Rearrange
    BY <2>3, <2>4 DEF Sequence!Rearrange
  <2> QED BY <2>3, <2>5 DEF Kept, Sequence!Next
<1>4. CASE Len(s) # 0 /\ Len(s) = c
  <2>1. store.length # 0 /\ store.length = store.capacity
    BY <1>1, <1>4
  <2>2. /\ store' = [store EXCEPT !.head = (store.head + store.capacity - (n % store.length)) % store.capacity]
        /\ Answer("rotateFullRight", n, TRUE)
    BY <2>1 DEF ring_rotate_right
  <2>3. PICK k \in Nat : k = n * (c - 1)
    <3>1. PICK b \in Nat : b = c - 1
      BY <1>1, <1>4
    <3>2. n * b \in Nat
      OBVIOUS
    <3> QED BY <3>1, <3>2
  <2>0. c > 0
    BY <1>1, <1>4
  <2>4. (store.head + c - (n % c)) % c = (store.head + k) % c
    <3>1. PICK h \in Int : h = store.head
      BY <1>1, <2>0, RingHeadIs
    <3>2. (h + c - (n % c)) % c = (h + n * (c - 1)) % c
      BY <1>1, <2>0, RemainderBack
    <3> QED BY <2>3, <3>1, <3>2
  <2>5. store' = [store EXCEPT !.head = (store.head + k) % c]
    BY <1>1, <1>4, <2>2, <2>4
  <2>6. /\ RingAt(c, Sequence!Turned(s, k))'
        /\ Sequence!op = "rotateFullRight" /\ Sequence!arg = n /\ Sequence!Does(TRUE, Sequence!Turned(Items, k))
        /\ UNCHANGED store.capacity
    BY <1>1, <1>4, <2>0, <2>2, <2>5, RingTurns
  <2>7. Items = <<>> \/ Sequence!Room = 0
    <3>1. Sequence!Room = c - Len(s)
      BY <1>1, RingView DEF Sequence!Room
    <3> QED BY <1>1, <1>4, <3>1
  <2>8. Sequence!arg * (Len(Items) - 1) = k
    BY <1>1, <1>4, <2>3, <2>6
  <2>9. Sequence!Does(TRUE, Sequence!Turned(Items, Sequence!arg * (Len(Items) - 1)))
    BY <2>6, <2>8
  <2>10. Sequence!Rearrange
    BY <2>6, <2>7, <2>9 DEF Sequence!Rearrange
  <2> QED BY <2>6, <2>10 DEF Kept, Sequence!Next
<1> QED BY <1>2, <1>3, <1>4

(* ring_rebase changes where the items are and not what they are. *)
LEMMA RingRebase ==
  ASSUME NEW c, NEW s, RingAt(c, s), NEW n \in Nat, ring_rebase(n)
  PROVE  Kept(c)
<1>1. /\ c \in Nat /\ s \in Seq(Values) /\ Len(s) \in 0 .. c /\ store \in RingWith(c, s)
      /\ store.length = Len(s) /\ Items = s /\ RingItems(store) = s
  BY RingView DEF RingWith
<1>2. PICK answer \in BOOLEAN : answer <=> Len(s) <= n
  OBVIOUS
<1>3. /\ RingAt(c, s)' /\ Sequence!op = "rebase" /\ Sequence!arg = n /\ Sequence!Does(answer, s)
      /\ UNCHANGED store.capacity
  <2>1. CASE store.length > n
    <3>1. Stay("rebase", n, FALSE)
      BY <2>1 DEF ring_rebase
    <3>2. ~(Len(s) <= n)
      BY <1>1, <2>1
    <3>3. answer = FALSE
      BY <1>2, <3>2
    <3> QED BY <3>1, <3>3, RingLooks
  <2>2. CASE ~(store.length > n)
    <3>1. store' = [store EXCEPT !.head = 0, !.data = Laid(store.data, s, Len(s))]
      BY <1>1, <2>2 DEF ring_rebase, Laid
    <3>2. Answer("rebase", n, TRUE)
      BY <2>2 DEF ring_rebase
    <3>3. store' \in RingWith(c, s)
      BY <1>1, <3>1, RingRebaseIs
    <3>4. Len(s) <= n
      BY <1>1, <2>2
    <3>5. answer = TRUE
      BY <1>2, <3>4
    <3> QED BY <1>1, <3>2, <3>3, <3>5, RingDoes
  <2> QED BY <2>1, <2>2
<1>4. (Len(Items) <= Sequence!arg) = answer
  BY <1>1, <1>2, <1>3
<1>5. Sequence!Looks(Len(Items) <= Sequence!arg)
  BY <1>1, <1>3, <1>4 DEF Sequence!Looks
<1>6. Sequence!Look
  BY <1>3, <1>5 DEF Sequence!Look
<1> QED BY <1>3, <1>6 DEF Kept, Sequence!Next

(* ring_contiguous reports every item once and in order. *)
LEMMA RingContiguous ==
  ASSUME NEW c, NEW s, RingAt(c, s), ring_contiguous
  PROVE  Kept(c)
<1>1. c \in Nat /\ store \in RingWith(c, s) /\ Items = s
  BY RingView
<1>2. Stay("contents", 0, s)
  BY <1>1, RingRunsAre DEF ring_contiguous
<1>3. RingAt(c, s)' /\ Sequence!op = "contents" /\ Sequence!Looks(s) /\ UNCHANGED store.capacity
  BY <1>2, RingLooks
<1>4. Sequence!Look
  BY <1>1, <1>3 DEF Sequence!Look
<1> QED BY <1>3, <1>4 DEF Kept, Sequence!Next

(* ring_copy_newest_into copies the last items in order. *)
LEMMA RingCopyNewest ==
  ASSUME NEW c, NEW s, RingAt(c, s), NEW n \in Nat, ring_copy_newest_into(n)
  PROVE  Kept(c)
<1>1. c \in Nat /\ store \in RingWith(c, s) /\ Items = s
  BY RingView
<1>2. PICK m : m = Smaller(store.length, n)
  OBVIOUS
<1>3. PICK t : t = [i \in 1 .. m |-> store.data[RingSlot(store, (store.length - m) + i - 1)]]
  OBVIOUS
<1>4. Stay("lasts", n, t)
  BY <1>2, <1>3 DEF ring_copy_newest_into
<1>5. t = Sequence!Lasts(s, n)
  BY <1>1, <1>2, <1>3, RingNewestAre
<1>6. RingAt(c, s)' /\ Sequence!op = "lasts" /\ Sequence!arg = n /\ Sequence!Looks(t) /\ UNCHANGED store.capacity
  BY <1>4, RingLooks
<1>7. Sequence!Looks(Sequence!Lasts(Items, Sequence!arg))
  BY <1>1, <1>5, <1>6
<1>8. Sequence!Look
  BY <1>6, <1>7 DEF Sequence!Look
<1> QED BY <1>6, <1>8 DEF Kept, Sequence!Next

(* A new ring holds nothing. *)
LEMMA RingStarts ==
  ASSUME RingInit
  PROVE  \E c : RingAt(c, <<>>)
<1>1. PICK n \in Capacities : store = [data |-> [s \in Slots(n) |-> Junk], capacity |-> n, length |-> 0, head |-> 0, overwritten |-> 0]
  BY DEF RingInit
<1>2. PICK d : d = [s \in Slots(n) |-> Junk]
  OBVIOUS
<1>3. d \in Storages(Anything, n)
  BY <1>2 DEF Storages, Anything
<1>4. n \in Nat /\ 0 \in Heads(n) /\ 0 \in 0 .. n /\ 0 \in Slots(Word)
  BY ContainerAssumption DEF Heads, Slots
<1>5. store = RingOf(d, 0, n, 0, 0)
  BY <1>1, <1>2 DEF RingOf
<1>6. store \in RingWith(n, <<>>)
  BY <1>3, <1>4, <1>5, RingIn, CircleNone
<1>7. <<>> \in Seq(Values)
  BY EmptySeq
<1> QED BY <1>6, <1>7 DEF RingAt, RingInit

(* Every call of a ring is one of a bounded sequence. *)
LEMMA RingStep ==
  ASSUME NEW c, NEW s, RingAt(c, s), RingNext
  PROVE  Kept(c)
<1>1. ASSUME NEW v \in Values, ring_try_push(v) \/ ring_push(v) \/ \E i \in Counts : ring_set(i, v)
      PROVE  Kept(c)
  BY <1>1, CountsAreNumbers, RingTryPush, RingPush, RingSet
<1>2. ASSUME NEW v \in Values, NEW w \in Values, ring_try_push_many(<<v, w>>) \/ ring_push_many(<<v, w>>)
      PROVE  Kept(c)
  <2>0. <<v, w>> \in Seq(Values)
    OBVIOUS
  <2>1. PICK vs \in Seq(Values) : vs = <<v, w>>
    BY <2>0
  <2>2. ring_try_push_many(vs) \/ ring_push_many(vs)
    BY <1>2, <2>1
  <2> QED BY <2>2, RingTryPushMany, RingPushMany
<1>3. ASSUME NEW n \in Counts,
             \/ ring_drop_oldest(n) \/ ring_keep_newest(n) \/ ring_rotate_left(n) \/ ring_rotate_right(n)
             \/ ring_rebase(n) \/ ring_copy_newest_into(n)
      PROVE  Kept(c)
  <2>1. n \in Nat
    BY CountsAreNumbers
  <2> QED BY <1>3, <2>1, RingDropOldest, RingKeepNewest, RingRotateLeft, RingRotateRight, RingRebase, RingCopyNewest
<1>4. CASE ring_pop_oldest_or \/ ring_pop_newest_or \/ ring_clear \/ ring_reset \/ ring_contiguous
  BY <1>4, RingPopOldest, RingPopNewest, RingClear, RingContiguous
<1> QED BY <1>1, <1>2, <1>3, <1>4 DEF RingNext

(* The inductive invariant: a ring holds a sequence of values. *)
RingInv == object = "ring" => \E c, s : RingAt(c, s)

LEMMA RingInvInit == Init => RingInv
BY RingStarts DEF Init, RingInv, RingInit, DequeInit, ChannelInit, PoolInit, CacheInit, HeapInit, PqInit

LEMMA RingInvStep ==
  ASSUME RingInv, [Next]_vars
  PROVE  RingInv' /\ (object = "ring" => vars' = vars \/ Sequence!Next)
<1>1. CASE UNCHANGED vars
  <2>1. ASSUME object' = "ring"
        PROVE  \E c, s : RingAt(c, s)'
    <3>1. object = "ring" /\ object' = object /\ store' = store
      BY <1>1, <2>1 DEF vars
    <3>2. PICK c, s : RingAt(c, s)
      BY <3>1 DEF RingInv
    <3>3. RingAt(c, s)'
      BY <3>1, <3>2 DEF RingAt
    <3> QED BY <3>3
  <2> QED BY <1>1, <2>1 DEF RingInv
<1>2. CASE Next
  <2>1. CASE object = "ring"
    <3>1. PICK c, s : RingAt(c, s)
      BY <2>1 DEF RingInv
    <3>2. RingNext
      BY <1>2, <2>1 DEF Next, DequeNext, ChannelNext, PoolNext, CacheNext, HeapNext, PqNext
    <3>3. Sequence!Next /\ \E t : RingAt(c, t)'
      BY <3>1, <3>2, RingStep DEF Kept
    <3> QED BY <3>3 DEF RingInv
  <2>2. CASE object # "ring"
    <3>1. object' # "ring"
      BY <1>2, <2>2, KindsStay
    <3> QED BY <2>2, <3>1 DEF RingInv
  <2> QED BY <2>1, <2>2
<1> QED BY <1>1, <1>2

LEMMA RingAlwaysKept == Spec => []RingInv
<1>1. Init => RingInv
  BY RingInvInit
<1>2. RingInv /\ [Next]_vars => RingInv'
  BY RingInvStep
<1> QED BY <1>1, <1>2, PTL DEF Spec

(* Whatever the calls before and wherever the head is in its storage, each *)
(* call of Lib/std/ring.nqr answers and changes a ring of any capacity as  *)
(* the same call does a plain bounded sequence: none loses, duplicates or  *)
(* reorders an item, but for the oldest that ring_push and ring_push_many  *)
(* overwrite in a full ring.                                               *)
THEOREM RingKeepsItsSequence == Spec => [][object = "ring" => Sequence!Next]_vars
<1>1. RingInv /\ [Next]_vars => [object = "ring" => Sequence!Next]_vars
  BY RingInvStep
<1> QED BY <1>1, RingAlwaysKept, PTL DEF Spec

(* ring_invariant holds after every call, and no item of a ring was read   *)
(* from a slot that was never written.                                     *)
THEOREM RingInvariantAlways == Spec => [](object = "ring" => RingTypeOK)
<1>1. ASSUME NEW c, NEW s, RingAt(c, s)
      PROVE  RingTypeOK
  <2>1. /\ c \in Capacities /\ c \in Nat /\ s \in Seq(Values) /\ store \in RingWith(c, s) /\ store.length = Len(s)
        /\ RingItems(store) = s
    BY <1>1, RingView DEF RingAt, RingWith
  <2>2. PICK d \in Storages(Anything, c), h \in Heads(c), n \in 0 .. c, w \in Slots(Word) : store = RingOf(d, h, c, n, w)
    BY <2>1, RingOut
  <2>3. store.data = d /\ store.capacity = c /\ store.length = n /\ store.head = h /\ store.overwritten = w
    BY <2>2, RingFields
  <2>4. Junk \notin {RingItems(store)[i] : i \in 1 .. store.length}
    <3>1. \A i \in 1 .. Len(s) : s[i] \in Values
      BY <2>1, ElementOfSeq
    <3> QED BY <2>1, <3>1, ContainerAssumption
  <2> QED BY <2>1, <2>3, <2>4 DEF RingTypeOK, Storages, Heads, Anything
<1>2. RingInv => (object = "ring" => RingTypeOK)
  BY <1>1 DEF RingInv
<1> QED BY <1>2, RingAlwaysKept, PTL

-----------------------------------------------------------------------------
(* The channel: what its functions do to its values and counters. *)

(* The fields of a channel. *)
ChannelOf(d, h, c, n, cl, se, re, rj, em) ==
  [data |-> d, capacity |-> c, length |-> n, head |-> h, closed |-> cl,
   sent |-> se, received |-> re, rejected |-> rj, empty |-> em]
ChannelRecords(c) ==
  [data : Storages(Anything, c), capacity : {c}, length : 0 .. c, head : Heads(c), closed : BOOLEAN,
   sent : Slots(Word), received : Slots(Word), rejected : Slots(Word), empty : Slots(Word)]

(* The channels of c slots that hold the sequence s and are closed or not. *)
ChannelWith(c, cl, s) == {r \in ChannelRecords(c) : ChannelItems(r) = s /\ r.closed = cl}

LEMMA ChannelIsCircle ==
  ASSUME NEW r
  PROVE  ChannelItems(r) = Circle(r.data, r.head, r.capacity, r.length)
BY DEF ChannelItems, ChannelSlot, Circle

LEMMA ChannelFields ==
  ASSUME NEW d, NEW h, NEW c, NEW n, NEW cl, NEW se, NEW re, NEW rj, NEW em, NEW r, r = ChannelOf(d, h, c, n, cl, se, re, rj, em)
  PROVE  /\ r.data = d /\ r.capacity = c /\ r.length = n /\ r.head = h /\ r.closed = cl
         /\ r.sent = se /\ r.received = re /\ r.rejected = rj /\ r.empty = em
BY DEF ChannelOf

(* A record over a circular buffer holds the values of the buffer, ... *)
LEMMA ChannelIn ==
  ASSUME NEW c \in Nat, NEW d \in Storages(Anything, c), NEW h \in Heads(c), NEW n \in 0 .. c, NEW cl \in BOOLEAN,
         NEW se \in Slots(Word), NEW re \in Slots(Word), NEW rj \in Slots(Word), NEW em \in Slots(Word)
  PROVE  ChannelOf(d, h, c, n, cl, se, re, rj, em) \in ChannelWith(c, cl, Circle(d, h, c, n))
<1>1. PICK r : r = ChannelOf(d, h, c, n, cl, se, re, rj, em)
  OBVIOUS
<1>2. r \in ChannelRecords(c)
  BY <1>1 DEF ChannelOf, ChannelRecords
<1>3. r.data = d /\ r.capacity = c /\ r.length = n /\ r.head = h /\ r.closed = cl
  BY <1>1, ChannelFields
<1>4. ChannelItems(r) = Circle(d, h, c, n)
  BY <1>3, ChannelIsCircle
<1> QED BY <1>1, <1>2, <1>3, <1>4 DEF ChannelWith

(* ... and every channel is such a record. *)
LEMMA ChannelOut ==
  ASSUME NEW c \in Nat, NEW cl, NEW s, NEW r \in ChannelWith(c, cl, s)
  PROVE  \E d \in Storages(Anything, c), h \in Heads(c), n \in 0 .. c,
            se \in Slots(Word), re \in Slots(Word), rj \in Slots(Word), em \in Slots(Word) :
           /\ r = ChannelOf(d, h, c, n, cl, se, re, rj, em) /\ s = Circle(d, h, c, n)
           /\ s \in Seq(Anything) /\ Len(s) = n /\ cl \in BOOLEAN
<1>1. r \in ChannelRecords(c) /\ s = ChannelItems(r) /\ r.closed = cl
  BY DEF ChannelWith
<1>2. PICK d \in Storages(Anything, c), h \in Heads(c), n \in 0 .. c,
          se \in Slots(Word), re \in Slots(Word), rj \in Slots(Word), em \in Slots(Word) :
        r = ChannelOf(d, h, c, n, cl, se, re, rj, em)
  BY <1>1 DEF ChannelRecords, ChannelOf
<1>3. r.data = d /\ r.capacity = c /\ r.length = n /\ r.head = h
  BY <1>2, ChannelFields
<1>4. s = Circle(d, h, c, n)
  BY <1>1, <1>3, ChannelIsCircle
<1>5. s \in Seq(Anything) /\ Len(s) = n /\ cl \in BOOLEAN
  <2>1. cl \in BOOLEAN
    BY <1>1 DEF ChannelRecords
  <2> QED BY <1>4, <2>1, CircleSeq
<1> QED BY <1>2, <1>4, <1>5

(* ... and have delivered or still hold all but k of the values sent. *)
Counted(c, cl, s, k) == {r \in ChannelWith(c, cl, s) : ChannelDropCount(r) = k}

LEMMA CountIs ==
  ASSUME NEW d, NEW h, NEW c, NEW n, NEW cl, NEW se, NEW re, NEW rj, NEW em, NEW r, r = ChannelOf(d, h, c, n, cl, se, re, rj, em)
  PROVE  ChannelDropCount(r) = (se - re - n) % Word
BY ChannelFields DEF ChannelDropCount

LEMMA NextCount ==
  ASSUME NEW w \in Slots(Word)
  PROVE  (w + 1) % Word \in Slots(Word)
BY ContainerAssumption DEF Slots

(* A value that is sent is appended and counted. *)
LEMMA ChannelSentIs ==
  ASSUME NEW c \in Nat, NEW cl, NEW s, NEW k, NEW r \in Counted(c, cl, s, k), Len(s) < c, NEW v \in Anything
  PROVE  ChannelSent(r, v) \in Counted(c, cl, Append(s, v), k)
<1>0. r \in ChannelWith(c, cl, s) /\ ChannelDropCount(r) = k
  BY DEF Counted
<1>1. PICK d \in Storages(Anything, c), h \in Heads(c), n \in 0 .. c,
          se \in Slots(Word), re \in Slots(Word), rj \in Slots(Word), em \in Slots(Word) :
        r = ChannelOf(d, h, c, n, cl, se, re, rj, em) /\ s = Circle(d, h, c, n) /\ Len(s) = n /\ cl \in BOOLEAN
  BY <1>0, ChannelOut
<1>2. n < c
  BY <1>1
<1>3. PICK g : g = (h + n) % c
  OBVIOUS
<1>4. g \in Slots(c) /\ Circle(Put(d, g, v), h, c, n + 1) = Append(s, v)
  BY <1>1, <1>2, <1>3, CircleAppended
<1>5. Put(d, g, v) \in Storages(Anything, c) /\ n + 1 \in 0 .. c
  BY <1>2, <1>4 DEF Storages, Put
<1>6. PICK up \in Slots(Word) : up = (se + 1) % Word
  <2>1. (se + 1) % Word \in Slots(Word)
    BY NextCount
  <2> QED BY <2>1
<1>7. ChannelSent(r, v) = ChannelOf(Put(d, g, v), h, c, n + 1, cl, up, re, rj, em)
  <2>1. r.data = d /\ r.capacity = c /\ r.length = n /\ r.head = h /\ r.sent = se
    BY <1>1, ChannelFields
  <2>2. ChannelSent(r, v) = [r EXCEPT !.data = Put(d, g, v), !.length = n + 1, !.sent = up]
    <3>1. ChannelSlot(r, r.length) = g
      BY <1>3, <2>1 DEF ChannelSlot
    <3>2. ChannelSent(r, v) = [r EXCEPT !.data = Put(r.data, g, v), !.length = r.length + 1, !.sent = (r.sent + 1) % Word]
      BY <3>1 DEF ChannelSent, Put
    <3> QED BY <1>6, <2>1, <3>2
  <2> QED BY <1>1, <2>2 DEF ChannelOf
<1>8. ChannelSent(r, v) \in ChannelWith(c, cl, Append(s, v))
  <2>1. PICK m \in 0 .. c : m = n + 1
    BY <1>5
  <2>2. PICK e \in Storages(Anything, c) : e = Put(d, g, v)
    BY <1>5
  <2>3. ChannelOf(e, h, c, m, cl, up, re, rj, em) \in ChannelWith(c, cl, Circle(e, h, c, m))
    BY <1>1, ChannelIn
  <2> QED BY <1>1, <1>4, <1>7, <2>1, <2>2, <2>3
<1>9. ChannelDropCount(ChannelSent(r, v)) = k
  <2>1. k = (se - re - n) % Word
    BY <1>0, <1>1, CountIs
  <2>2. ChannelDropCount(ChannelSent(r, v)) = (up - re - (n + 1)) % Word
    BY <1>7, CountIs
  <2>3. PICK a \in Int, b \in Int : a = 0 - re - (n + 1) /\ b = se + 1
    BY ContainerAssumption DEF Slots
  <2>4. (a + (b % Word)) % Word = (a + b) % Word
    <3>1. PICK m \in Nat : m = Word /\ m > 0
      BY ContainerAssumption
    <3>2. (a + (b % m)) % m = (a + b) % m
      BY <3>1, RemainderOfSum
    <3> QED BY <3>1, <3>2
  <2>5. a + b = se - re - n /\ a + up = up - re - (n + 1)
    BY <2>3, ContainerAssumption DEF Slots
  <2> QED BY <1>6, <2>1, <2>2, <2>3, <2>4, <2>5
<1> QED BY <1>8, <1>9 DEF Counted

(* A refusal is counted apart and moves nothing. *)
LEMMA ChannelNotedIs ==
  ASSUME NEW c \in Nat, NEW cl, NEW s, NEW k, NEW r \in Counted(c, cl, s, k)
  PROVE  ChannelRejected(r) \in Counted(c, cl, s, k) /\ ChannelEmpty(r) \in Counted(c, cl, s, k)
<1>0. r \in ChannelWith(c, cl, s) /\ ChannelDropCount(r) = k
  BY DEF Counted
<1>1. PICK d \in Storages(Anything, c), h \in Heads(c), n \in 0 .. c,
          se \in Slots(Word), re \in Slots(Word), rj \in Slots(Word), em \in Slots(Word) :
        r = ChannelOf(d, h, c, n, cl, se, re, rj, em) /\ s = Circle(d, h, c, n) /\ cl \in BOOLEAN
  BY <1>0, ChannelOut
<1>2. r.rejected = rj /\ r.empty = em
  BY <1>1, ChannelFields
<1>3. PICK a \in Slots(Word), b \in Slots(Word) : a = (rj + 1) % Word /\ b = (em + 1) % Word
  BY NextCount
<1>4. ChannelRejected(r) = ChannelOf(d, h, c, n, cl, se, re, a, em)
  <2>1. ChannelRejected(r) = [r EXCEPT !.rejected = a]
    BY <1>2, <1>3 DEF ChannelRejected
  <2> QED BY <1>1, <2>1 DEF ChannelOf
<1>5. ChannelEmpty(r) = ChannelOf(d, h, c, n, cl, se, re, rj, b)
  <2>1. ChannelEmpty(r) = [r EXCEPT !.empty = b]
    BY <1>2, <1>3 DEF ChannelEmpty
  <2> QED BY <1>1, <2>1 DEF ChannelOf
<1>6. k = (se - re - n) % Word /\ ChannelDropCount(ChannelRejected(r)) = k /\ ChannelDropCount(ChannelEmpty(r)) = k
  BY <1>0, <1>1, <1>4, <1>5, CountIs
<1>7. ChannelRejected(r) \in ChannelWith(c, cl, s)
  BY <1>1, <1>4, ChannelIn
<1>8. ChannelEmpty(r) \in ChannelWith(c, cl, s)
  BY <1>1, <1>5, ChannelIn
<1> QED BY <1>6, <1>7, <1>8 DEF Counted

LEMMA ChannelDroppedOf ==
  ASSUME NEW d, NEW h, NEW c, NEW n, NEW cl, NEW se, NEW re, NEW rj, NEW em,
         NEW r, r = ChannelOf(d, h, c, n, cl, se, re, rj, em), NEW m, NEW g, g = HeadAfter(h, m, n, c)
  PROVE  ChannelDropped(r, m) = ChannelOf(d, g, c, n - m, cl, se, re, rj, em)
<1>1. r.capacity = c /\ r.length = n /\ r.head = h
  BY ChannelFields
<1>2. ChannelDropped(r, m) = [r EXCEPT !.length = n - m, !.head = IF m = n THEN 0 ELSE ChannelSlot(r, m)]
  BY <1>1 DEF ChannelDropped
<1>3. (IF m = n THEN 0 ELSE ChannelSlot(r, m)) = g
  BY <1>1 DEF ChannelSlot, HeadAfter
<1>4. ChannelDropped(r, m) = [r EXCEPT !.length = n - m, !.head = g]
  BY <1>2, <1>3
<1> QED BY <1>4 DEF ChannelOf

(* The oldest values go by moving the head. *)
LEMMA ChannelDroppedIs ==
  ASSUME NEW c \in Nat, NEW cl, NEW s, NEW r \in ChannelWith(c, cl, s), NEW m \in 0 .. Len(s)
  PROVE  ChannelDropped(r, m) \in ChannelWith(c, cl, SubSeq(s, m + 1, Len(s)))
<1>1. PICK d \in Storages(Anything, c), h \in Heads(c), n \in 0 .. c,
          se \in Slots(Word), re \in Slots(Word), rj \in Slots(Word), em \in Slots(Word) :
        r = ChannelOf(d, h, c, n, cl, se, re, rj, em) /\ s = Circle(d, h, c, n) /\ n = Len(s) /\ cl \in BOOLEAN
  BY ChannelOut
<1>2. m \in 0 .. n
  BY <1>1
<1>3. PICK g : g = HeadAfter(h, m, n, c)
  OBVIOUS
<1>5. g \in Heads(c) /\ n - m \in 0 .. c /\ Circle(d, g, c, n - m) = SubSeq(Circle(d, h, c, n), m + 1, n)
  BY <1>2, <1>3, CircleDropped, Zenon
<1>6. PICK k \in 0 .. c : k = n - m
  BY <1>5
<1>7. ChannelDropped(r, m) = ChannelOf(d, g, c, k, cl, se, re, rj, em)
  BY <1>1, <1>3, <1>6, ChannelDroppedOf
<1>4. ChannelOf(d, g, c, k, cl, se, re, rj, em) \in ChannelWith(c, cl, Circle(d, g, c, k))
  BY <1>1, <1>5, ChannelIn
<1> QED BY <1>1, <1>4, <1>5, <1>6, <1>7

(* A value that is received is the first and is counted. *)
LEMMA ChannelReceivedIs ==
  ASSUME NEW c \in Nat, NEW cl, NEW s, NEW k, NEW r \in Counted(c, cl, s, k), Len(s) > 0
  PROVE  ChannelReceived(r) \in Counted(c, cl, SubSeq(s, 2, Len(s)), k)
<1>0. r \in ChannelWith(c, cl, s) /\ ChannelDropCount(r) = k
  BY DEF Counted
<1>1. PICK d \in Storages(Anything, c), h \in Heads(c), n \in 0 .. c,
          se \in Slots(Word), re \in Slots(Word), rj \in Slots(Word), em \in Slots(Word) :
        r = ChannelOf(d, h, c, n, cl, se, re, rj, em) /\ s = Circle(d, h, c, n) /\ n = Len(s) /\ cl \in BOOLEAN
  BY <1>0, ChannelOut
<1>2. PICK one \in 0 .. n : one = 1
  BY <1>1
<1>3. PICK g \in Heads(c), l \in 0 .. c :
         /\ l = n - one /\ ChannelDropped(r, one) = ChannelOf(d, g, c, l, cl, se, re, rj, em)
         /\ Circle(d, g, c, l) = SubSeq(Circle(d, h, c, n), one + 1, n)
  <2>1. PICK g : g = HeadAfter(h, one, n, c)
    OBVIOUS
  <2>2. g \in Heads(c) /\ n - one \in 0 .. c /\ Circle(d, g, c, n - one) = SubSeq(Circle(d, h, c, n), one + 1, n)
    BY <2>1, CircleDropped, Zenon
  <2>3. ChannelDropped(r, one) = ChannelOf(d, g, c, n - one, cl, se, re, rj, em)
    BY <1>1, <2>1, ChannelDroppedOf
  <2> QED BY <2>2, <2>3
<1>4. l = n - 1 /\ ChannelDropped(r, 1) = ChannelOf(d, g, c, l, cl, se, re, rj, em) /\ one + 1 = 2
  BY <1>2, <1>3
<1>5. Circle(d, g, c, l) = SubSeq(s, 2, Len(s))
  BY <1>1, <1>3, <1>4
<1>6. PICK up \in Slots(Word) : up = (re + 1) % Word
  <2>1. (re + 1) % Word \in Slots(Word)
    BY NextCount
  <2> QED BY <2>1
<1>7. ChannelReceived(r) = ChannelOf(d, g, c, l, cl, se, up, rj, em)
  <2>1. PICK q : q = ChannelDropped(r, 1)
    OBVIOUS
  <2>2. q = ChannelOf(d, g, c, l, cl, se, re, rj, em) /\ q.received = re
    BY <1>4, <2>1, ChannelFields
  <2>3. ChannelReceived(r) = [q EXCEPT !.received = (q.received + 1) % Word]
    BY <2>1 DEF ChannelReceived
  <2>4. ChannelReceived(r) = [q EXCEPT !.received = up]
    BY <1>6, <2>2, <2>3
  <2> QED BY <2>2, <2>4 DEF ChannelOf
<1>8. ChannelReceived(r) \in ChannelWith(c, cl, SubSeq(s, 2, Len(s)))
  <2>1. ChannelOf(d, g, c, l, cl, se, up, rj, em) \in ChannelWith(c, cl, Circle(d, g, c, l))
    BY <1>1, ChannelIn
  <2> QED BY <1>5, <1>7, <2>1
<1>9. ChannelDropCount(ChannelReceived(r)) = k
  <2>1. k = (se - re - n) % Word
    BY <1>0, <1>1, CountIs
  <2>2. ChannelDropCount(ChannelReceived(r)) = (se - up - l) % Word
    BY <1>7, CountIs
  <2>3. PICK a \in Int, b \in Int : a = se - l /\ b = re + 1
    BY ContainerAssumption DEF Slots
  <2>4. (a - (b % Word)) % Word = (a - b) % Word
    <3>1. PICK m \in Nat : m = Word /\ m > 0
      BY ContainerAssumption
    <3>2. (a - (b % m)) % m = (a - b) % m
      BY <3>1, RemainderOfDifference
    <3> QED BY <3>1, <3>2
  <2>5. a - b = se - re - n /\ a - up = se - up - l
    BY <1>4, <2>3, ContainerAssumption DEF Slots
  <2> QED BY <1>6, <2>1, <2>2, <2>3, <2>4, <2>5
<1> QED BY <1>8, <1>9 DEF Counted

ChannelSendLoop(r, vs, n, f) == f = [k \in 0 .. n |-> IF k = 0 THEN r ELSE ChannelSent(f[k - 1], vs[k])]

(* The loop of channel_try_send_many appends and counts each value. *)
LEMMA ChannelSendManyIs ==
  ASSUME NEW c \in Nat, NEW cl, NEW s, NEW w, NEW r \in Counted(c, cl, s, w), NEW vs \in Seq(Anything),
         NEW n \in 0 .. Len(vs), Len(s) + n <= c
  PROVE  ChannelSentAll(r, vs, n) \in Counted(c, cl, s \o SubSeq(vs, 1, n), w)
<1>1. s \in Seq(Anything) /\ Len(s) \in Nat /\ Len(vs) \in Nat
  <2>1. r \in ChannelWith(c, cl, s)
    BY DEF Counted
  <2> QED BY <2>1, ChannelOut, LenProperties
<1> DEFINE D == [k \in 0 .. n |-> Counted(c, cl, s \o SubSeq(vs, 1, k), w)]
           Step == [p \in (UNION {D[k] : k \in 0 .. n}) \X (1 .. n) |-> ChannelSent(p[1], vs[p[2]])]
<1>2. r \in D[0]
  <2>1. s \o SubSeq(vs, 1, 0) = s
    BY <1>1, NoMore
  <2>2. 0 \in 0 .. n
    BY <1>1
  <2> QED BY <2>1, <2>2
<1>3. ASSUME NEW k \in 1 .. n, NEW q \in D[k - 1]
      PROVE  ChannelSent(q, vs[k]) \in D[k]
  <2>1. k \in 1 .. Len(vs) /\ k - 1 \in 0 .. n /\ k \in 0 .. n
    BY <1>1
  <2>2. PICK t : t = s \o SubSeq(vs, 1, k - 1)
    OBVIOUS
  <2>3. PICK v \in Anything : v = vs[k]
    BY <2>1, ElementOfSeq
  <2>4. q \in Counted(c, cl, t, w)
    BY <2>1, <2>2
  <2>5. Len(t) < c
    BY <1>1, <2>1, <2>2, OneMore
  <2>6. ChannelSent(q, v) \in Counted(c, cl, Append(t, v), w)
    BY <2>4, <2>5, ChannelSentIs
  <2>7. Append(t, v) = s \o SubSeq(vs, 1, k)
    BY <1>1, <2>1, <2>2, <2>3, OneMore
  <2> QED BY <2>1, <2>3, <2>6, <2>7
<1>4. \A k \in 1 .. n : \A q \in D[k - 1] : Step[<<q, k>>] = ChannelSent(q, vs[k])
  <2> SUFFICES ASSUME NEW k \in 1 .. n, NEW q \in D[k - 1] PROVE Step[<<q, k>>] = ChannelSent(q, vs[k])
    OBVIOUS
  <2>1. k - 1 \in 0 .. n
    BY <1>1
  <2>2. <<q, k>> \in (UNION {D[j] : j \in 0 .. n}) \X (1 .. n)
    BY <2>1
  <2> QED BY <2>2
<1> HIDE DEF D, Step
<1>5. PICK f : Runs(D, r, Step, n, f)
  <2>1. Leads(D, Step, n)
    BY <1>3, <1>4 DEF Leads
  <2>2. n \in Nat
    BY <1>1
  <2> QED BY <1>2, <2>1, <2>2, LoopRuns
<1>6. ChannelSendLoop(r, vs, n, f)
  <2>1. f = [k \in 0 .. n |-> f[k]] /\ f[0] = r
    BY <1>5 DEF Runs
  <2>2. ASSUME NEW k \in 1 .. n
        PROVE  f[k] = ChannelSent(f[k - 1], vs[k])
    BY <1>4, <1>5 DEF Runs
  <2>3. \A k \in 0 .. n : f[k] = IF k = 0 THEN r ELSE ChannelSent(f[k - 1], vs[k])
    <3>1. \A k \in 0 .. n : k = 0 \/ k \in 1 .. n
      BY <1>1
    <3> QED BY <2>1, <2>2, <3>1
  <2> QED BY <2>1, <2>3 DEF ChannelSendLoop
<1>7. PICK g : g = CHOOSE h : ChannelSendLoop(r, vs, n, h)
  OBVIOUS
<1>8. ChannelSendLoop(r, vs, n, g)
  BY <1>6, <1>7
<1>9. ChannelSentAll(r, vs, n) = g[n]
  BY <1>7 DEF ChannelSentAll, Loop, ChannelSendLoop
<1>10. g[0] = r /\ \A k \in 1 .. n : g[k] = ChannelSent(g[k - 1], vs[k])
  BY <1>1, <1>8 DEF ChannelSendLoop
<1>11. \A k \in 0 .. n : g[k] \in D[k]
  <2> DEFINE S == {k \in 0 .. n : g[k] \in D[k]}
  <2>1. 0 \in S
    BY <1>1, <1>2, <1>10
  <2>2. \A k \in 1 .. n : k - 1 \in S => k \in S
    <3> SUFFICES ASSUME NEW k \in 1 .. n, k - 1 \in S PROVE k \in S
      OBVIOUS
    <3>1. PICK q \in D[k - 1] : q = g[k - 1]
      OBVIOUS
    <3>2. g[k] = ChannelSent(q, vs[k])
      BY <1>10, <3>1
    <3>3. k \in 0 .. n
      BY <1>1
    <3> QED BY <1>3, <3>2, <3>3
  <2>3. n \in Nat
    BY <1>1
  <2> HIDE DEF S
  <2>4. \A k \in 0 .. n : k \in S
    BY <2>1, <2>2, <2>3, UpTo
  <2> QED BY <2>4 DEF S
<1>12. n \in 0 .. n
  BY <1>1
<1> QED BY <1>9, <1>11, <1>12 DEF D

ChannelReceiveLoop(r, n, f) == f = [k \in 0 .. n |-> IF k = 0 THEN r ELSE ChannelReceived(f[k - 1])]

(* The loop of channel_receive_many takes and counts each value. *)
LEMMA ChannelReceiveManyIs ==
  ASSUME NEW c \in Nat, NEW cl, NEW s, NEW w, NEW r \in Counted(c, cl, s, w), NEW n \in 0 .. Len(s)
  PROVE  ChannelReceivedMany(r, n) \in Counted(c, cl, SubSeq(s, n + 1, Len(s)), w)
<1>1. s \in Seq(Anything) /\ Len(s) \in Nat
  <2>1. r \in ChannelWith(c, cl, s)
    BY DEF Counted
  <2> QED BY <2>1, ChannelOut, LenProperties
<1> DEFINE D == [k \in 0 .. n |-> Counted(c, cl, SubSeq(s, k + 1, Len(s)), w)]
           Step == [p \in (UNION {D[k] : k \in 0 .. n}) \X (1 .. n) |-> ChannelReceived(p[1])]
<1>2. r \in D[0]
  <2>1. SubSeq(s, 0 + 1, Len(s)) = s
    BY <1>1, SubSeqFull
  <2>2. 0 \in 0 .. n
    BY <1>1
  <2> QED BY <2>1, <2>2
<1>3. ASSUME NEW k \in 1 .. n, NEW q \in D[k - 1]
      PROVE  ChannelReceived(q) \in D[k]
  <2>1. k \in 1 .. Len(s) /\ k - 1 \in 0 .. n /\ k \in 0 .. n
    BY <1>1
  <2>2. PICK p : p = SubSeq(s, (k - 1) + 1, Len(s))
    OBVIOUS
  <2>3. q \in Counted(c, cl, p, w)
    BY <2>1, <2>2
  <2>4. Len(p) > 0 /\ SubSeq(p, 2, Len(p)) = SubSeq(s, k + 1, Len(s))
    BY <1>1, <2>1, <2>2, RestOfRest
  <2>5. ChannelReceived(q) \in Counted(c, cl, SubSeq(p, 2, Len(p)), w)
    BY <2>3, <2>4, ChannelReceivedIs
  <2> QED BY <2>1, <2>4, <2>5
<1>4. \A k \in 1 .. n : \A q \in D[k - 1] : Step[<<q, k>>] = ChannelReceived(q)
  <2> SUFFICES ASSUME NEW k \in 1 .. n, NEW q \in D[k - 1] PROVE Step[<<q, k>>] = ChannelReceived(q)
    OBVIOUS
  <2>1. k - 1 \in 0 .. n
    BY <1>1
  <2>2. <<q, k>> \in (UNION {D[j] : j \in 0 .. n}) \X (1 .. n)
    BY <2>1
  <2> QED BY <2>2
<1> HIDE DEF D, Step
<1>5. PICK f : Runs(D, r, Step, n, f)
  <2>1. Leads(D, Step, n)
    BY <1>3, <1>4 DEF Leads
  <2>2. n \in Nat
    BY <1>1
  <2> QED BY <1>2, <2>1, <2>2, LoopRuns
<1>6. ChannelReceiveLoop(r, n, f)
  <2>1. f = [k \in 0 .. n |-> f[k]] /\ f[0] = r
    BY <1>5 DEF Runs
  <2>2. ASSUME NEW k \in 1 .. n
        PROVE  f[k] = ChannelReceived(f[k - 1])
    BY <1>4, <1>5 DEF Runs
  <2>3. \A k \in 0 .. n : f[k] = IF k = 0 THEN r ELSE ChannelReceived(f[k - 1])
    <3>1. \A k \in 0 .. n : k = 0 \/ k \in 1 .. n
      BY <1>1
    <3> QED BY <2>1, <2>2, <3>1
  <2> QED BY <2>1, <2>3 DEF ChannelReceiveLoop
<1>7. PICK g : g = CHOOSE h : ChannelReceiveLoop(r, n, h)
  OBVIOUS
<1>8. ChannelReceiveLoop(r, n, g)
  BY <1>6, <1>7
<1>9. ChannelReceivedMany(r, n) = g[n]
  BY <1>7 DEF ChannelReceivedMany, Iterate, ChannelReceiveLoop
<1>10. g[0] = r /\ \A k \in 1 .. n : g[k] = ChannelReceived(g[k - 1])
  BY <1>1, <1>8 DEF ChannelReceiveLoop
<1>11. \A k \in 0 .. n : g[k] \in D[k]
  <2> DEFINE S == {k \in 0 .. n : g[k] \in D[k]}
  <2>1. 0 \in S
    BY <1>1, <1>2, <1>10
  <2>2. \A k \in 1 .. n : k - 1 \in S => k \in S
    <3> SUFFICES ASSUME NEW k \in 1 .. n, k - 1 \in S PROVE k \in S
      OBVIOUS
    <3>1. PICK q \in D[k - 1] : q = g[k - 1]
      OBVIOUS
    <3>2. g[k] = ChannelReceived(q)
      BY <1>10, <3>1
    <3>3. k \in 0 .. n
      BY <1>1
    <3> QED BY <1>3, <3>2, <3>3
  <2>3. n \in Nat
    BY <1>1
  <2> HIDE DEF S
  <2>4. \A k \in 0 .. n : k \in S
    BY <2>1, <2>2, <2>3, UpTo
  <2> QED BY <2>4 DEF S
<1>12. n \in 0 .. n
  BY <1>1
<1> QED BY <1>9, <1>11, <1>12 DEF D

-----------------------------------------------------------------------------
(* The channel: each call is the same call of a bounded sequence. *)

(* The channel of this state, its capacity, whether it is closed, and the  *)
(* sequence it holds.                                                      *)
ChannelAt(c, cl, s) == object = "channel" /\ c \in Capacities /\ s \in Seq(Values) /\ store \in ChannelWith(c, cl, s)

(* What the step of a channel shows of its sequence. *)
LEMMA ChannelView ==
  ASSUME NEW c, NEW cl, NEW s, ChannelAt(c, cl, s)
  PROVE  /\ c \in Nat /\ s \in Seq(Values) /\ s \in Seq(Anything) /\ Len(s) \in 0 .. c /\ cl \in BOOLEAN
         /\ store \in ChannelWith(c, cl, s) /\ store \in Counted(c, cl, s, ChannelDropCount(store))
         /\ store.length = Len(s) /\ store.capacity = c /\ store.closed = cl /\ Items = s
         /\ (object = "channel" /\ store.closed) = cl /\ Sequence!Room = IF cl THEN 0 ELSE c - Len(s)
<1>1. c \in Nat /\ s \in Seq(Values) /\ store \in ChannelWith(c, cl, s) /\ object = "channel"
  BY ContainerAssumption DEF ChannelAt
<1>2. PICK d \in Storages(Anything, c), h \in Heads(c), n \in 0 .. c,
          se \in Slots(Word), re \in Slots(Word), rj \in Slots(Word), em \in Slots(Word) :
        /\ store = ChannelOf(d, h, c, n, cl, se, re, rj, em)
        /\ s \in Seq(Anything) /\ n = Len(s) /\ cl \in BOOLEAN
  BY <1>1, ChannelOut
<1>3. store.length = Len(s) /\ store.capacity = c /\ store.closed = cl
  BY <1>2, ChannelFields
<1>4. Items = s
  <2>1. ChannelItems(store) = s
    BY <1>1 DEF ChannelWith
  <2> QED BY <1>1, <2>1 DEF Items
<1>5. (object = "channel" /\ store.closed) = cl
  BY <1>1, <1>2, <1>3
<1>6. Sequence!Room = IF cl THEN 0 ELSE c - Len(s)
  BY <1>3, <1>4, <1>5 DEF Sequence!Room
<1>7. store \in Counted(c, cl, s, ChannelDropCount(store))
  BY <1>1 DEF Counted
<1> QED BY <1>1, <1>2, <1>3, <1>4, <1>5, <1>6, <1>7

(* A call after which the channel holds t and is closed or not. *)
LEMMA ChannelShows ==
  ASSUME NEW c, NEW cl, NEW s, NEW cm, NEW t \in Seq(Values), ChannelAt(c, cl, s), store' \in ChannelWith(c, cm, t),
         NEW o, NEW a, NEW answer, Answer(o, a, answer)
  PROVE  /\ ChannelAt(c, cm, t)' /\ Sequence!op = o /\ Sequence!arg = a /\ call'[3] = answer /\ Items' = t
         /\ UNCHANGED store.capacity /\ (object = "channel" /\ store.closed)' = cm
<1>1. c \in Nat /\ c \in Capacities /\ object = "channel" /\ store.capacity = c
  BY ChannelView DEF ChannelAt
<1>2. object' = "channel" /\ call' = <<o, a, answer>>
  BY <1>1 DEF Answer
<1>3. ChannelAt(c, cm, t)'
  BY <1>1, <1>2 DEF ChannelAt
<1>4. store'.capacity = c /\ store'.closed = cm /\ cm \in BOOLEAN
  <2>1. PICK d \in Storages(Anything, c), h \in Heads(c), n \in 0 .. c,
            se \in Slots(Word), re \in Slots(Word), rj \in Slots(Word), em \in Slots(Word) :
          store' = ChannelOf(d, h, c, n, cm, se, re, rj, em) /\ cm \in BOOLEAN
    BY <1>1, ChannelOut
  <2> QED BY <2>1, ChannelFields
<1>5. Items' = t
  <2>1. ChannelItems(store') = t
    BY DEF ChannelWith
  <2>2. ChannelItems(store)' = ChannelItems(store')
    BY DEF ChannelItems, ChannelSlot
  <2> QED BY <1>2, <2>1, <2>2 DEF Items
<1>6. (object = "channel" /\ store.closed)' = cm
  BY <1>2, <1>4
<1>7. Sequence!op = o /\ Sequence!arg = a /\ call'[3] = answer
  BY <1>2 DEF Sequence!op, Sequence!arg
<1> QED BY <1>1, <1>3, <1>4, <1>5, <1>6, <1>7

(* A call that neither closes nor opens the channel. *)
LEMMA ChannelDoes ==
  ASSUME NEW c, NEW cl, NEW s, NEW t \in Seq(Values), ChannelAt(c, cl, s), store' \in ChannelWith(c, cl, t),
         NEW o, NEW a, NEW answer, Answer(o, a, answer)
  PROVE  /\ ChannelAt(c, cl, t)' /\ Sequence!op = o /\ Sequence!arg = a /\ Sequence!Does(answer, t)
         /\ UNCHANGED store.capacity
<1>1. (object = "channel" /\ store.closed) = cl
  BY ChannelView
<1>2. /\ ChannelAt(c, cl, t)' /\ Sequence!op = o /\ Sequence!arg = a /\ call'[3] = answer /\ Items' = t
      /\ UNCHANGED store.capacity /\ (object = "channel" /\ store.closed)' = cl
  BY ChannelShows
<1>3. UNCHANGED (object = "channel" /\ store.closed)
  BY <1>1, <1>2
<1>4. Sequence!Does(answer, t)
  BY <1>2, <1>3 DEF Sequence!Does
<1> QED BY <1>2, <1>4

(* The step is one of a bounded sequence, counts every value, and leaves a *)
(* channel that holds one.                                                 *)
ChannelKept(c) == Sequence!Next /\ Delivers /\ \E cl, t : ChannelAt(c, cl, t)'

(* A call that loses no value, ... *)
LEMMA ChannelDelivers ==
  ASSUME NEW c, NEW cl, NEW s, store' \in Counted(c, cl, s, ChannelDropCount(store))
  PROVE  Delivers /\ store' \in ChannelWith(c, cl, s)
BY DEF Counted, Delivers

(* ... and one of those that may. *)
LEMMA ChannelDrops ==
  ASSUME NEW o, NEW a, NEW answer, Answer(o, a, answer), o \in {"clear", "dropFirst", "keepLast", "reset"}
  PROVE  Delivers
BY DEF Answer, Delivers

(* A call after which the channel holds t and has lost nothing. *)
LEMMA ChannelGoesOn ==
  ASSUME NEW c, NEW cl, NEW s, NEW t \in Seq(Values), ChannelAt(c, cl, s),
         store' \in Counted(c, cl, t, ChannelDropCount(store)),
         NEW o, NEW a, NEW answer, Answer(o, a, answer)
  PROVE  /\ ChannelAt(c, cl, t)' /\ Sequence!op = o /\ Sequence!arg = a /\ Sequence!Does(answer, t)
         /\ UNCHANGED store.capacity /\ Delivers
<1>1. Delivers /\ store' \in ChannelWith(c, cl, t)
  BY ChannelDelivers
<1> QED BY <1>1, ChannelDoes

(* A call that changes nothing. *)
LEMMA ChannelLooks ==
  ASSUME NEW c, NEW cl, NEW s, ChannelAt(c, cl, s), NEW o, NEW a, NEW answer, Stay(o, a, answer)
  PROVE  /\ ChannelAt(c, cl, s)' /\ Sequence!op = o /\ Sequence!arg = a /\ Sequence!Does(answer, s)
         /\ UNCHANGED store.capacity /\ Delivers
<1>1. s \in Seq(Values) /\ store' \in Counted(c, cl, s, ChannelDropCount(store)) /\ Answer(o, a, answer)
  BY ChannelView DEF Stay
<1> QED BY <1>1, ChannelGoesOn

(* channel_try_send appends where there is room in an open channel. *)
LEMMA ChannelTrySend ==
  ASSUME NEW c, NEW cl, NEW s, ChannelAt(c, cl, s), NEW v \in Values, channel_try_send(v)
  PROVE  ChannelKept(c)
<1>1. /\ c \in Nat /\ s \in Seq(Values) /\ Len(s) \in 0 .. c /\ cl \in BOOLEAN
      /\ store \in Counted(c, cl, s, ChannelDropCount(store))
      /\ store.length = Len(s) /\ store.capacity = c /\ store.closed = cl /\ Items = s
      /\ Sequence!Room = IF cl THEN 0 ELSE c - Len(s)
  BY ChannelView
<1>2. CASE ~cl /\ Len(s) < c
  <2>1. store' = ChannelSent(store, v) /\ Answer("append", v, TRUE)
    BY <1>1, <1>2 DEF channel_try_send, channel_can_send
  <2>2. PICK t : t = Append(s, v)
    OBVIOUS
  <2>3. t \in Seq(Values)
    BY <1>1, <2>2, AppendIs
  <2>4. store' \in Counted(c, cl, t, ChannelDropCount(store))
    BY <1>1, <1>2, <2>1, <2>2, ChannelSentIs DEF Anything
  <2>5. /\ ChannelAt(c, cl, t)' /\ Sequence!op = "append" /\ Sequence!arg = v /\ Sequence!Does(TRUE, t)
        /\ UNCHANGED store.capacity /\ Delivers
    BY <2>1, <2>3, <2>4, ChannelGoesOn
  <2>6. Sequence!Room > 0 /\ Append(Items, Sequence!arg) = t
    BY <1>1, <1>2, <2>2, <2>5
  <2>7. Sequence!Does(TRUE, Append(Items, Sequence!arg))
    BY <2>5, <2>6
  <2>8. Sequence!AddItems
    BY <2>5, <2>6, <2>7 DEF Sequence!AddItems
  <2> QED BY <2>5, <2>8 DEF ChannelKept, Sequence!Next
<1>3. CASE ~(~cl /\ Len(s) < c)
  <2>1. store' = ChannelRejected(store) /\ Answer("append", v, FALSE)
    BY <1>1, <1>3 DEF channel_try_send, channel_can_send
  <2>2. store' \in Counted(c, cl, s, ChannelDropCount(store))
    BY <1>1, <2>1, ChannelNotedIs
  <2>3. /\ ChannelAt(c, cl, s)' /\ Sequence!op = "append" /\ Sequence!Does(FALSE, s)
        /\ UNCHANGED store.capacity /\ Delivers
    BY <1>1, <2>1, <2>2, ChannelGoesOn
  <2>4. ~(Sequence!Room > 0)
    BY <1>1, <1>3
  <2>5. Sequence!Looks(FALSE)
    BY <1>1, <2>3 DEF Sequence!Looks
  <2>6. Sequence!AddItems
    BY <2>3, <2>4, <2>5 DEF Sequence!AddItems
  <2> QED BY <2>3, <2>6 DEF ChannelKept, Sequence!Next
<1> QED BY <1>2, <1>3

(* channel_try_send_many appends as many values as an open channel has     *)
(* room for.                                                               *)
LEMMA ChannelTrySendMany ==
  ASSUME NEW c, NEW cl, NEW s, ChannelAt(c, cl, s), NEW vs \in Seq(Values), channel_try_send_many(vs)
  PROVE  ChannelKept(c)
<1>1. /\ c \in Nat /\ s \in Seq(Values) /\ Len(s) \in 0 .. c /\ cl \in BOOLEAN
      /\ store \in Counted(c, cl, s, ChannelDropCount(store))
      /\ store.length = Len(s) /\ store.capacity = c /\ store.closed = cl /\ Items = s
      /\ Sequence!Room = IF cl THEN 0 ELSE c - Len(s)
  BY ChannelView
<1>2. PICK room \in Nat : room = Sequence!Room
  BY <1>1
<1>3. PICK n : n = Smaller(Len(vs), room)
  OBVIOUS
<1>4. n \in 0 .. Len(vs) /\ n <= room /\ Sequence!Firsts(vs, room) = SubSeq(vs, 1, n) /\ Len(Sequence!Firsts(vs, room)) = n
  BY <1>3, FirstsShort
<1>5. n = IF store.closed THEN 0 ELSE Smaller(Len(vs), store.capacity - store.length)
  <2>1. CASE cl
    <3>1. room = 0
      BY <1>1, <1>2, <2>1
    <3>2. n = 0
      BY <1>4, <3>1, LenProperties
    <3> QED BY <1>1, <2>1, <3>2
  <2>2. CASE ~cl
    <3>1. room = c - Len(s)
      BY <1>1, <1>2, <2>2
    <3> QED BY <1>1, <1>3, <2>2, <3>1
  <2> QED BY <2>1, <2>2
<1>6. PICK after : after = ChannelSentAll(store, vs, n)
  OBVIOUS
<1>7. store' = (IF n < Len(vs) THEN ChannelRejected(after) ELSE after) /\ Answer("appendAll", vs, n)
  BY <1>5, <1>6 DEF channel_try_send_many
<1>8. PICK some : some = Sequence!Firsts(vs, room)
  OBVIOUS
<1>9. some \in Seq(Values) /\ s \o some \in Seq(Values)
  <2>1. some \in Seq(Values)
    BY <1>8, PartsIn
  <2> QED BY <1>1, <2>1, ConcatProperties
<1>10. after \in Counted(c, cl, s \o some, ChannelDropCount(store))
  <2>1. vs \in Seq(Anything)
    BY SeqOfMore DEF Anything
  <2>2. Len(s) + n <= c
    <3>1. room <= c - Len(s)
      BY <1>1, <1>2
    <3> QED BY <1>1, <1>4, <3>1, LenProperties
  <2>3. after \in Counted(c, cl, s \o SubSeq(vs, 1, n), ChannelDropCount(store))
    BY <1>1, <1>4, <1>6, <2>1, <2>2, ChannelSendManyIs
  <2> QED BY <1>4, <1>8, <2>3
<1>11. store' \in Counted(c, cl, s \o some, ChannelDropCount(store))
  <2>1. ChannelRejected(after) \in Counted(c, cl, s \o some, ChannelDropCount(store))
    BY <1>1, <1>10, ChannelNotedIs
  <2> QED BY <1>7, <1>10, <2>1
<1>12. PICK t : t = s \o some
  OBVIOUS
<1>13. /\ ChannelAt(c, cl, t)' /\ Sequence!op = "appendAll" /\ Sequence!arg = vs
       /\ Sequence!Does(n, t) /\ UNCHANGED store.capacity /\ Delivers
  BY <1>7, <1>9, <1>11, <1>12, ChannelGoesOn
<1>14. Sequence!Firsts(Sequence!arg, Sequence!Room) = some /\ Len(some) = n /\ Items \o some = t
  BY <1>1, <1>2, <1>4, <1>8, <1>12, <1>13
<1>15. Sequence!AddItems
  <2>1. Sequence!Does(Len(some), Items \o some)
    BY <1>13, <1>14
  <2> QED BY <1>13, <1>14, <2>1 DEF Sequence!AddItems
<1> QED BY <1>13, <1>15 DEF ChannelKept, Sequence!Next

(* The value that waited longest. *)
LEMMA ChannelFirstIs ==
  ASSUME NEW c \in Nat, NEW cl, NEW s, NEW r \in ChannelWith(c, cl, s), Len(s) > 0
  PROVE  r.data[r.head] = s[1]
<1>1. PICK d \in Storages(Anything, c), h \in Heads(c), n \in 0 .. c,
          se \in Slots(Word), re \in Slots(Word), rj \in Slots(Word), em \in Slots(Word) :
        r = ChannelOf(d, h, c, n, cl, se, re, rj, em) /\ s = Circle(d, h, c, n) /\ n = Len(s)
  BY ChannelOut
<1>2. r.data = d /\ r.head = h
  BY <1>1, ChannelFields
<1>3. h \in 0 .. c - 1 /\ 1 \in 1 .. n
  BY <1>1 DEF Heads, Slots
<1>4. s[1] = d[Place(h, 1 - 1, c)] /\ Place(h, 1 - 1, c) = h
  <2>1. s[1] = d[Place(h, 1 - 1, c)]
    BY <1>1, <1>3, CircleItem
  <2> QED BY <2>1, <1>3 DEF Place
<1> QED BY <1>2, <1>4

(* channel_try_receive takes the first value. *)
LEMMA ChannelTryReceive ==
  ASSUME NEW c, NEW cl, NEW s, ChannelAt(c, cl, s), channel_try_receive
  PROVE  ChannelKept(c)
<1>1. /\ c \in Nat /\ s \in Seq(Values) /\ Len(s) \in 0 .. c /\ cl \in BOOLEAN
      /\ store \in ChannelWith(c, cl, s) /\ store \in Counted(c, cl, s, ChannelDropCount(store))
      /\ store.length = Len(s) /\ Items = s
  BY ChannelView
<1>2. CASE Len(s) > 0
  <2>1. store.length # 0
    BY <1>1, <1>2
  <2>2. store' = ChannelReceived(store) /\ Answer("takeFirst", 0, <<store.data[store.head]>>)
    BY <2>1 DEF channel_try_receive
  <2>3. PICK t : t = Sequence!Without(s, 1)
    OBVIOUS
  <2>4. t = SubSeq(s, 2, Len(s)) /\ Sequence!Firsts(s, 1) = <<s[1]>>
    BY <1>1, <1>2, <2>3, EndsAre
  <2>5. t \in Seq(Values)
    BY <1>1, <2>3, PartsIn
  <2>6. store' \in Counted(c, cl, t, ChannelDropCount(store))
    BY <1>1, <1>2, <2>2, <2>4, ChannelReceivedIs
  <2>7. store.data[store.head] = s[1]
    BY <1>1, <1>2, ChannelFirstIs
  <2>8. /\ ChannelAt(c, cl, t)' /\ Sequence!op = "takeFirst" /\ Sequence!Does(<<store.data[store.head]>>, t)
        /\ UNCHANGED store.capacity /\ Delivers
    BY <2>2, <2>5, <2>6, ChannelGoesOn
  <2>9. Sequence!Firsts(Items, 1) = <<store.data[store.head]>> /\ Sequence!Without(Items, 1) = t
    BY <1>1, <2>3, <2>4, <2>7
  <2>10. Sequence!Does(Sequence!Firsts(Items, 1), Sequence!Without(Items, 1))
    BY <2>8, <2>9
  <2>11. Sequence!RemoveItems
    BY <2>8, <2>10 DEF Sequence!RemoveItems
  <2> QED BY <2>8, <2>11 DEF ChannelKept, Sequence!Next
<1>3. CASE Len(s) = 0
  <2>1. store.length = 0
    BY <1>1, <1>3
  <2>2. store' = ChannelEmpty(store) /\ Answer("takeFirst", 0, <<>>)
    BY <2>1 DEF channel_try_receive
  <2>6. store' \in Counted(c, cl, s, ChannelDropCount(store))
    BY <1>1, <2>2, ChannelNotedIs
  <2>3. /\ ChannelAt(c, cl, s)' /\ Sequence!op = "takeFirst" /\ Sequence!Does(<<>>, s)
        /\ UNCHANGED store.capacity /\ Delivers
    BY <1>1, <2>2, <2>6, ChannelGoesOn
  <2>4. Sequence!Firsts(Items, 1) = <<>> /\ Sequence!Without(Items, 1) = s
    <3>1. s = <<>> /\ 1 >= Len(s)
      BY <1>1, <1>3, EmptySeq
    <3> QED BY <1>1, <3>1, FirstsAre, WithoutIs
  <2>5. Sequence!Does(Sequence!Firsts(Items, 1), Sequence!Without(Items, 1))
    BY <2>3, <2>4
  <2>7. Sequence!RemoveItems
    BY <2>3, <2>5 DEF Sequence!RemoveItems
  <2> QED BY <2>3, <2>7 DEF ChannelKept, Sequence!Next
<1> QED BY <1>1, <1>2, <1>3

(* channel_receive_many takes the first values in order. *)
LEMMA ChannelReceiveMany ==
  ASSUME NEW c, NEW cl, NEW s, ChannelAt(c, cl, s), NEW n \in Nat, channel_receive_many(n)
  PROVE  ChannelKept(c)
<1>1. /\ c \in Nat /\ s \in Seq(Values) /\ Len(s) \in 0 .. c /\ cl \in BOOLEAN
      /\ store \in ChannelWith(c, cl, s) /\ store \in Counted(c, cl, s, ChannelDropCount(store))
      /\ store.length = Len(s) /\ Items = s
  BY ChannelView
<1>2. PICK m \in 0 .. Len(s) : m = Smaller(n, store.length) /\ m = Sequence!Least(n, Len(s))
  <2>1. PICK l \in Nat : l = Len(s) /\ l = store.length
    BY <1>1
  <2>2. Smaller(n, l) = Sequence!Least(n, l) /\ Smaller(n, l) \in 0 .. l
    BY <2>1, LeastIsSmaller
  <2> QED BY <2>1, <2>2
<1>3. PICK after : after = ChannelReceivedMany(store, m)
  OBVIOUS
<1>4. /\ store' = (IF m < n THEN ChannelEmpty(after) ELSE after)
      /\ Answer("takeMany", n, SubSeq(ChannelItems(store), 1, m))
  BY <1>2, <1>3 DEF channel_receive_many
<1>5. PICK t : t = Sequence!Without(s, n)
  OBVIOUS
<1>6. t \in Seq(Values)
  BY <1>1, <1>5, PartsIn
<1>7. t = SubSeq(s, m + 1, Len(s)) /\ Sequence!Firsts(s, n) = SubSeq(s, 1, m)
  BY <1>2, <1>5 DEF Sequence!Without, Sequence!Firsts
<1>8. after \in Counted(c, cl, t, ChannelDropCount(store))
  BY <1>1, <1>3, <1>7, ChannelReceiveManyIs
<1>9. store' \in Counted(c, cl, t, ChannelDropCount(store))
  <2>1. ChannelEmpty(after) \in Counted(c, cl, t, ChannelDropCount(store))
    BY <1>1, <1>8, ChannelNotedIs
  <2> QED BY <1>4, <1>8, <2>1
<1>10. PICK some : some = SubSeq(s, 1, m)
  OBVIOUS
<1>11. Answer("takeMany", n, some)
  BY <1>1, <1>4, <1>10 DEF ChannelWith
<1>12. /\ ChannelAt(c, cl, t)' /\ Sequence!op = "takeMany" /\ Sequence!arg = n /\ Sequence!Does(some, t)
       /\ UNCHANGED store.capacity /\ Delivers
  BY <1>6, <1>9, <1>11, ChannelGoesOn
<1>13. Sequence!Firsts(Items, Sequence!arg) = some /\ Sequence!Without(Items, Sequence!arg) = t
  BY <1>1, <1>5, <1>7, <1>10, <1>12
<1>14. Sequence!Does(Sequence!Firsts(Items, Sequence!arg), Sequence!Without(Items, Sequence!arg))
  BY <1>12, <1>13
<1>15. Sequence!RemoveItems
  BY <1>12, <1>14 DEF Sequence!RemoveItems
<1> QED BY <1>12, <1>15 DEF ChannelKept, Sequence!Next

(* channel_drop_oldest drops the first values. *)
LEMMA ChannelDropOldest ==
  ASSUME NEW c, NEW cl, NEW s, ChannelAt(c, cl, s), NEW n \in Nat, channel_drop_oldest(n)
  PROVE  ChannelKept(c)
<1>1. /\ c \in Nat /\ s \in Seq(Values) /\ Len(s) \in 0 .. c /\ store \in ChannelWith(c, cl, s)
      /\ store.length = Len(s) /\ Items = s
  BY ChannelView
<1>2. PICK m \in 0 .. Len(s) : m = Smaller(n, store.length) /\ m = Sequence!Least(n, Len(s))
  <2>1. PICK l \in Nat : l = Len(s) /\ l = store.length
    BY <1>1
  <2>2. Smaller(n, l) = Sequence!Least(n, l) /\ Smaller(n, l) \in 0 .. l
    BY <2>1, LeastIsSmaller
  <2> QED BY <2>1, <2>2
<1>3. store' = (IF store.length = 0 THEN store ELSE ChannelDropped(store, m)) /\ Answer("dropFirst", n, m)
  BY <1>2 DEF channel_drop_oldest
<1>4. PICK t : t = Sequence!Without(s, n)
  OBVIOUS
<1>5. t \in Seq(Values)
  BY <1>1, <1>4, PartsIn
<1>6. t = SubSeq(s, m + 1, Len(s))
  BY <1>2, <1>4 DEF Sequence!Without
<1>7. store' \in ChannelWith(c, cl, t)
  <2>1. CASE Len(s) = 0
    <3>1. s = <<>> /\ n >= Len(s)
      BY <1>1, <2>1, EmptySeq
    <3>2. t = s
      BY <1>1, <1>4, <3>1, WithoutIs
    <3> QED BY <1>1, <1>3, <2>1, <3>2
  <2>2. CASE Len(s) # 0
    BY <1>1, <1>3, <1>6, <2>2, ChannelDroppedIs
  <2> QED BY <2>1, <2>2
<1>8. /\ ChannelAt(c, cl, t)' /\ Sequence!op = "dropFirst" /\ Sequence!arg = n /\ Sequence!Does(m, t)
      /\ UNCHANGED store.capacity
  BY <1>3, <1>5, <1>7, ChannelDoes
<1>9. Sequence!Least(Sequence!arg, Len(Items)) = m /\ Sequence!Without(Items, Sequence!arg) = t
  BY <1>1, <1>2, <1>4, <1>8
<1>10. Sequence!Does(Sequence!Least(Sequence!arg, Len(Items)), Sequence!Without(Items, Sequence!arg))
  BY <1>8, <1>9
<1>11. Sequence!RemoveItems
  BY <1>8, <1>10 DEF Sequence!RemoveItems
<1>12. Delivers
  BY <1>3, ChannelDrops
<1> QED BY <1>8, <1>11, <1>12 DEF ChannelKept, Sequence!Next

(* channel_keep_newest keeps the last values. *)
LEMMA ChannelKeepNewest ==
  ASSUME NEW c, NEW cl, NEW s, ChannelAt(c, cl, s), NEW n \in Nat, channel_keep_newest(n)
  PROVE  ChannelKept(c)
<1>1. /\ c \in Nat /\ s \in Seq(Values) /\ Len(s) \in 0 .. c /\ store \in ChannelWith(c, cl, s)
      /\ store.length = Len(s) /\ Items = s
  BY ChannelView
<1>2. CASE n >= Len(s)
  <2>1. Stay("keepLast", n, store.length)
    BY <1>1, <1>2 DEF channel_keep_newest
  <2>2. /\ ChannelAt(c, cl, s)' /\ Sequence!op = "keepLast" /\ Sequence!arg = n /\ Sequence!Does(store.length, s)
        /\ UNCHANGED store.capacity /\ Delivers
    BY <2>1, ChannelLooks
  <2>3. Sequence!Least(n, Len(s)) = Len(s) /\ Sequence!Lasts(s, n) = s
    BY <1>1, <1>2, LastsAre DEF Sequence!Least
  <2>4. Sequence!Least(Sequence!arg, Len(Items)) = store.length /\ Sequence!Lasts(Items, Sequence!arg) = s
    BY <1>1, <2>2, <2>3
  <2>5. Sequence!Does(Sequence!Least(Sequence!arg, Len(Items)), Sequence!Lasts(Items, Sequence!arg))
    BY <2>2, <2>4
  <2>6. Sequence!RemoveItems
    BY <2>2, <2>5 DEF Sequence!RemoveItems
  <2> QED BY <2>2, <2>6 DEF ChannelKept, Sequence!Next
<1>3. CASE ~(n >= Len(s))
  <2>1. PICK m \in 0 .. Len(s) : m = Len(s) - n
    BY <1>1, <1>3
  <2>2. store' = ChannelDropped(store, m) /\ Answer("keepLast", n, n)
    BY <1>1, <1>3, <2>1 DEF channel_keep_newest
  <2>3. PICK t : t = Sequence!Lasts(s, n)
    OBVIOUS
  <2>4. t \in Seq(Values)
    BY <1>1, <2>3, PartsIn
  <2>5. t = SubSeq(s, m + 1, Len(s))
    BY <1>1, <1>3, <2>1, <2>3, LastsAre
  <2>6. store' \in ChannelWith(c, cl, t)
    BY <1>1, <2>2, <2>5, ChannelDroppedIs
  <2>7. /\ ChannelAt(c, cl, t)' /\ Sequence!op = "keepLast" /\ Sequence!arg = n /\ Sequence!Does(n, t)
        /\ UNCHANGED store.capacity
    BY <2>2, <2>4, <2>6, ChannelDoes
  <2>8. Sequence!Least(n, Len(s)) = n
    BY <1>1, <1>3 DEF Sequence!Least
  <2>9. Sequence!Least(Sequence!arg, Len(Items)) = n /\ Sequence!Lasts(Items, Sequence!arg) = t
    BY <1>1, <2>3, <2>7, <2>8
  <2>10. Sequence!Does(Sequence!Least(Sequence!arg, Len(Items)), Sequence!Lasts(Items, Sequence!arg))
    BY <2>7, <2>9
  <2>11. Sequence!RemoveItems
    BY <2>7, <2>10 DEF Sequence!RemoveItems
  <2>12. Delivers
    BY <2>2, ChannelDrops
  <2> QED BY <2>7, <2>11, <2>12 DEF ChannelKept, Sequence!Next
<1> QED BY <1>2, <1>3

(* A channel that changes nothing but whether it is closed. *)
LEMMA ChannelShutIs ==
  ASSUME NEW c \in Nat, NEW cl, NEW s, NEW k, NEW r \in Counted(c, cl, s, k), NEW cm \in BOOLEAN,
         NEW q, q = [r EXCEPT !.closed = cm]
  PROVE  q \in Counted(c, cm, s, k)
<1>0. r \in ChannelWith(c, cl, s) /\ ChannelDropCount(r) = k
  BY DEF Counted
<1>1. PICK d \in Storages(Anything, c), h \in Heads(c), n \in 0 .. c,
          se \in Slots(Word), re \in Slots(Word), rj \in Slots(Word), em \in Slots(Word) :
        r = ChannelOf(d, h, c, n, cl, se, re, rj, em) /\ s = Circle(d, h, c, n)
  BY <1>0, ChannelOut
<1>2. q = ChannelOf(d, h, c, n, cm, se, re, rj, em)
  BY <1>1 DEF ChannelOf
<1>3. q \in ChannelWith(c, cm, s)
  BY <1>1, <1>2, ChannelIn
<1>4. ChannelDropCount(q) = k
  BY <1>0, <1>1, <1>2, CountIs
<1> QED BY <1>3, <1>4 DEF Counted

(* channel_close refuses what is sent later and keeps what is there. *)
LEMMA ChannelClose ==
  ASSUME NEW c, NEW cl, NEW s, ChannelAt(c, cl, s), channel_close
  PROVE  ChannelKept(c)
<1>1. /\ c \in Nat /\ s \in Seq(Values) /\ cl \in BOOLEAN
      /\ store \in Counted(c, cl, s, ChannelDropCount(store)) /\ store.closed = cl /\ Items = s
      /\ (object = "channel" /\ store.closed) = cl
  BY ChannelView
<1>2. PICK answer \in BOOLEAN : answer <=> ~cl
  OBVIOUS
<1>3. store' \in Counted(c, TRUE, s, ChannelDropCount(store)) /\ Answer("close", 0, answer)
  <2>1. CASE cl
    <3>1. Stay("close", 0, FALSE) /\ answer = FALSE /\ cl = TRUE
      BY <1>1, <1>2, <2>1 DEF channel_close
    <3> QED BY <1>1, <3>1 DEF Stay
  <2>2. CASE ~cl
    <3>1. store' = [store EXCEPT !.closed = TRUE] /\ Answer("close", 0, TRUE) /\ answer = TRUE
      BY <1>1, <1>2, <2>2 DEF channel_close
    <3> QED BY <1>1, <3>1, ChannelShutIs
  <2> QED BY <2>1, <2>2
<1>4. Delivers /\ store' \in ChannelWith(c, TRUE, s)
  BY <1>3, ChannelDelivers
<1>5. /\ ChannelAt(c, TRUE, s)' /\ Sequence!op = "close" /\ call'[3] = answer /\ Items' = s
      /\ UNCHANGED store.capacity /\ (object = "channel" /\ store.closed)' = TRUE
  BY <1>1, <1>3, <1>4, ChannelShows
<1>6. Sequence!Close
  BY <1>1, <1>2, <1>5 DEF Sequence!Close
<1> QED BY <1>4, <1>5, <1>6 DEF ChannelKept, Sequence!Next

(* channel_reopen_if_empty opens a channel that holds nothing. *)
LEMMA ChannelReopen ==
  ASSUME NEW c, NEW cl, NEW s, ChannelAt(c, cl, s), channel_reopen_if_empty
  PROVE  ChannelKept(c)
<1>1. /\ c \in Nat /\ s \in Seq(Values) /\ Len(s) \in Nat /\ cl \in BOOLEAN /\ store.length = Len(s)
      /\ store \in Counted(c, cl, s, ChannelDropCount(store)) /\ store.closed = cl /\ Items = s
      /\ (object = "channel" /\ store.closed) = cl
  BY ChannelView
<1>0. Len(s) = 0 <=> s = <<>>
  BY <1>1, EmptySeq
<1>2. PICK answer \in BOOLEAN : answer <=> cl /\ s = <<>>
  OBVIOUS
<1>3. PICK cm \in BOOLEAN : cm <=> cl /\ s # <<>>
  OBVIOUS
<1>7. store' \in Counted(c, cm, s, ChannelDropCount(store)) /\ Answer("reopen", 0, answer)
  <2>1. CASE cl /\ s = <<>>
    <3>1. store' = [store EXCEPT !.closed = FALSE] /\ Answer("reopen", 0, TRUE) /\ answer = TRUE /\ cm = FALSE
      BY <1>0, <1>1, <1>2, <1>3, <2>1 DEF channel_reopen_if_empty
    <3> QED BY <1>1, <3>1, ChannelShutIs
  <2>2. CASE ~(cl /\ s = <<>>)
    <3>1. Stay("reopen", 0, FALSE) /\ answer = FALSE /\ cm = cl
      BY <1>0, <1>1, <1>2, <1>3, <2>2 DEF channel_reopen_if_empty
    <3> QED BY <1>1, <3>1 DEF Stay
  <2> QED BY <2>1, <2>2
<1>4. Delivers /\ store' \in ChannelWith(c, cm, s)
  BY <1>7, ChannelDelivers
<1>5. /\ ChannelAt(c, cm, s)' /\ Sequence!op = "reopen" /\ call'[3] = answer /\ Items' = s
      /\ UNCHANGED store.capacity /\ (object = "channel" /\ store.closed)' = cm
  BY <1>1, <1>7, <1>4, ChannelShows
<1>6. Sequence!Close
  <2>1. call'[3] = ((object = "channel" /\ store.closed) /\ Items = <<>>)
    BY <1>1, <1>2, <1>5
  <2>2. (object = "channel" /\ store.closed)' = ((object = "channel" /\ store.closed) /\ Items # <<>>)
    BY <1>1, <1>3, <1>5
  <2> QED BY <1>1, <1>5, <2>1, <2>2 DEF Sequence!Close
<1> QED BY <1>4, <1>5, <1>6 DEF ChannelKept, Sequence!Next

(* A channel that lost what it held. *)
LEMMA ChannelClearedIs ==
  ASSUME NEW c \in Nat, NEW cl, NEW s, NEW r \in ChannelWith(c, cl, s), NEW q, q = [r EXCEPT !.length = 0, !.head = 0]
  PROVE  q \in ChannelWith(c, cl, <<>>)
<1>1. PICK d \in Storages(Anything, c), h \in Heads(c), n \in 0 .. c,
          se \in Slots(Word), re \in Slots(Word), rj \in Slots(Word), em \in Slots(Word) :
        r = ChannelOf(d, h, c, n, cl, se, re, rj, em) /\ cl \in BOOLEAN
  BY ChannelOut
<1>2. 0 \in Heads(c) /\ 0 \in 0 .. c /\ Circle(d, 0, c, 0) = <<>>
  BY CircleNone DEF Heads, Slots
<1>3. q = ChannelOf(d, 0, c, 0, cl, se, re, rj, em)
  BY <1>1 DEF ChannelOf
<1>4. ChannelOf(d, 0, c, 0, cl, se, re, rj, em) \in ChannelWith(c, cl, Circle(d, 0, c, 0))
  BY <1>1, <1>2, ChannelIn
<1> QED BY <1>2, <1>3, <1>4

(* A channel that starts again. *)
LEMMA ChannelResetIs ==
  ASSUME NEW c \in Nat, NEW cl, NEW s, NEW r \in ChannelWith(c, cl, s),
         NEW q, q = [r EXCEPT !.length = 0, !.head = 0, !.closed = FALSE,
                              !.sent = 0, !.received = 0, !.rejected = 0, !.empty = 0]
  PROVE  q \in ChannelWith(c, FALSE, <<>>)
<1>1. PICK d \in Storages(Anything, c), h \in Heads(c), n \in 0 .. c,
          se \in Slots(Word), re \in Slots(Word), rj \in Slots(Word), em \in Slots(Word) :
        r = ChannelOf(d, h, c, n, cl, se, re, rj, em) /\ cl \in BOOLEAN
  BY ChannelOut
<1>2. 0 \in Heads(c) /\ 0 \in 0 .. c /\ 0 \in Slots(Word) /\ Circle(d, 0, c, 0) = <<>>
  BY CircleNone, ContainerAssumption DEF Heads, Slots
<1>3. q = ChannelOf(d, 0, c, 0, FALSE, 0, 0, 0, 0)
  BY <1>1 DEF ChannelOf
<1>4. ChannelOf(d, 0, c, 0, FALSE, 0, 0, 0, 0) \in ChannelWith(c, FALSE, Circle(d, 0, c, 0))
  BY <1>1, <1>2, ChannelIn
<1> QED BY <1>2, <1>3, <1>4

(* channel_clear drops every value. *)
LEMMA ChannelClear ==
  ASSUME NEW c, NEW cl, NEW s, ChannelAt(c, cl, s), channel_clear
  PROVE  ChannelKept(c)
<1>1. c \in Nat /\ store \in ChannelWith(c, cl, s)
  BY ChannelView
<1>2. store' \in ChannelWith(c, cl, <<>>) /\ Answer("clear", 0, TRUE) /\ <<>> \in Seq(Values)
  BY <1>1, ChannelClearedIs, EmptySeq DEF channel_clear
<1>3. ChannelAt(c, cl, <<>>)' /\ Sequence!op = "clear" /\ Sequence!Does(TRUE, <<>>) /\ UNCHANGED store.capacity
  BY <1>2, ChannelDoes
<1>4. Sequence!RemoveItems
  BY <1>3 DEF Sequence!RemoveItems
<1>5. Delivers
  BY <1>2, ChannelDrops
<1> QED BY <1>3, <1>4, <1>5 DEF ChannelKept, Sequence!Next

(* channel_reset drops every value and every count, and opens the channel. *)
LEMMA ChannelReset ==
  ASSUME NEW c, NEW cl, NEW s, ChannelAt(c, cl, s), channel_reset
  PROVE  ChannelKept(c)
<1>1. c \in Nat /\ store \in ChannelWith(c, cl, s)
  BY ChannelView
<1>2. store' \in ChannelWith(c, FALSE, <<>>) /\ Answer("reset", 0, TRUE) /\ <<>> \in Seq(Values)
  BY <1>1, ChannelResetIs, EmptySeq DEF channel_reset
<1>3. /\ ChannelAt(c, FALSE, <<>>)' /\ Sequence!op = "reset" /\ call'[3] = TRUE /\ Items' = <<>>
      /\ UNCHANGED store.capacity /\ (object = "channel" /\ store.closed)' = FALSE
  BY <1>2, ChannelShows
<1>4. Delivers
  BY <1>2, ChannelDrops
<1> QED BY <1>3, <1>4 DEF ChannelKept, Sequence!Next

(* A new channel is open and holds nothing. *)
LEMMA ChannelStarts ==
  ASSUME ChannelInit
  PROVE  \E c : ChannelAt(c, FALSE, <<>>)
<1>1. PICK n \in Capacities :
        store = [data |-> [s \in Slots(n) |-> Junk], capacity |-> n, length |-> 0, head |-> 0, closed |-> FALSE,
                 sent |-> 0, received |-> 0, rejected |-> 0, empty |-> 0]
  BY DEF ChannelInit
<1>2. PICK d : d = [s \in Slots(n) |-> Junk]
  OBVIOUS
<1>3. d \in Storages(Anything, n)
  BY <1>2 DEF Storages, Anything
<1>4. n \in Nat /\ 0 \in Heads(n) /\ 0 \in 0 .. n /\ 0 \in Slots(Word) /\ FALSE \in BOOLEAN
  BY ContainerAssumption DEF Heads, Slots
<1>5. store = ChannelOf(d, 0, n, 0, FALSE, 0, 0, 0, 0)
  BY <1>1, <1>2 DEF ChannelOf
<1>6. store \in ChannelWith(n, FALSE, <<>>)
  BY <1>3, <1>4, <1>5, ChannelIn, CircleNone
<1>7. <<>> \in Seq(Values)
  BY EmptySeq
<1> QED BY <1>6, <1>7 DEF ChannelAt, ChannelInit

(* Every call of a channel is one of a bounded sequence. *)
LEMMA ChannelStep ==
  ASSUME NEW c, NEW cl, NEW s, ChannelAt(c, cl, s), ChannelNext
  PROVE  ChannelKept(c)
<1>1. ASSUME NEW v \in Values, channel_try_send(v)
      PROVE  ChannelKept(c)
  BY <1>1, ChannelTrySend
<1>2. ASSUME NEW v \in Values, NEW w \in Values, channel_try_send_many(<<v, w>>)
      PROVE  ChannelKept(c)
  <2>0. <<v, w>> \in Seq(Values)
    OBVIOUS
  <2>1. PICK vs \in Seq(Values) : vs = <<v, w>>
    BY <2>0
  <2>2. channel_try_send_many(vs)
    BY <1>2, <2>1
  <2> QED BY <2>2, ChannelTrySendMany
<1>3. ASSUME NEW n \in Counts, channel_receive_many(n) \/ channel_drop_oldest(n) \/ channel_keep_newest(n)
      PROVE  ChannelKept(c)
  <2>1. n \in Nat
    BY CountsAreNumbers
  <2> QED BY <1>3, <2>1, ChannelReceiveMany, ChannelDropOldest, ChannelKeepNewest
<1>4. CASE channel_try_receive \/ channel_close \/ channel_reopen_if_empty \/ channel_clear \/ channel_reset
  BY <1>4, ChannelTryReceive, ChannelClose, ChannelReopen, ChannelClear, ChannelReset
<1> QED BY <1>1, <1>2, <1>3, <1>4 DEF ChannelNext

(* The inductive invariant: a channel holds a sequence of values. *)
ChannelInv == object = "channel" => \E c, cl, s : ChannelAt(c, cl, s)

LEMMA ChannelInvInit == Init => ChannelInv
BY ChannelStarts DEF Init, ChannelInv, RingInit, DequeInit, ChannelInit, PoolInit, CacheInit, HeapInit, PqInit

LEMMA ChannelInvStep ==
  ASSUME ChannelInv, [Next]_vars
  PROVE  ChannelInv' /\ (object = "channel" => vars' = vars \/ (Sequence!Next /\ Delivers))
<1>1. CASE UNCHANGED vars
  <2>1. ASSUME object' = "channel"
        PROVE  \E c, cl, s : ChannelAt(c, cl, s)'
    <3>1. object = "channel" /\ object' = object /\ store' = store
      BY <1>1, <2>1 DEF vars
    <3>2. PICK c, cl, s : ChannelAt(c, cl, s)
      BY <3>1 DEF ChannelInv
    <3>3. ChannelAt(c, cl, s)'
      BY <3>1, <3>2 DEF ChannelAt
    <3> QED BY <3>3
  <2> QED BY <1>1, <2>1 DEF ChannelInv
<1>2. CASE Next
  <2>1. CASE object = "channel"
    <3>1. PICK c, cl, s : ChannelAt(c, cl, s)
      BY <2>1 DEF ChannelInv
    <3>2. ChannelNext
      BY <1>2, <2>1 DEF Next, RingNext, DequeNext, PoolNext, CacheNext, HeapNext, PqNext
    <3>3. Sequence!Next /\ Delivers /\ \E cm, t : ChannelAt(c, cm, t)'
      BY <3>1, <3>2, ChannelStep DEF ChannelKept
    <3>4. PICK cm, t : ChannelAt(c, cm, t)'
      BY <3>3
    <3>5. ChannelInv'
      BY <3>4 DEF ChannelInv
    <3> QED BY <3>3, <3>5
  <2>2. CASE object # "channel"
    <3>1. object' # "channel"
      BY <1>2, <2>2, KindsStay
    <3> QED BY <2>2, <3>1 DEF ChannelInv
  <2> QED BY <2>1, <2>2
<1> QED BY <1>1, <1>2

LEMMA ChannelAlwaysKept == Spec => []ChannelInv
<1>1. Init => ChannelInv
  BY ChannelInvInit
<1>2. ChannelInv /\ [Next]_vars => ChannelInv'
  BY ChannelInvStep
<1> QED BY <1>1, <1>2, PTL DEF Spec

(* Each call of Lib/std/channel.nqr answers and changes a channel of any   *)
(* capacity as the same call does a bounded sequence that a closed channel *)
(* refuses to extend; and over every wrap of its 64-bit counters the       *)
(* values sent are those received and those still there, except in the     *)
(* calls that drop values.                                                 *)
THEOREM ChannelKeepsItsSequence == Spec => [][object = "channel" => Sequence!Next /\ Delivers]_vars
<1>1. ChannelInv /\ [Next]_vars => [object = "channel" => Sequence!Next /\ Delivers]_vars
  BY ChannelInvStep
<1> QED BY <1>1, ChannelAlwaysKept, PTL DEF Spec

(* channel_invariant holds after every call, and no value is received from *)
(* a slot that was never written.                                          *)
THEOREM ChannelInvariantAlways == Spec => [](object = "channel" => ChannelTypeOK)
<1>1. ASSUME NEW c, NEW cl, NEW s, ChannelAt(c, cl, s)
      PROVE  ChannelTypeOK
  <2>1. /\ c \in Capacities /\ c \in Nat /\ s \in Seq(Values) /\ store \in ChannelWith(c, cl, s)
        /\ store.length = Len(s) /\ ChannelItems(store) = s
    BY <1>1, ChannelView DEF ChannelAt, ChannelWith
  <2>2. PICK d \in Storages(Anything, c), h \in Heads(c), n \in 0 .. c,
            se \in Slots(Word), re \in Slots(Word), rj \in Slots(Word), em \in Slots(Word) :
          store = ChannelOf(d, h, c, n, cl, se, re, rj, em) /\ cl \in BOOLEAN
    BY <2>1, ChannelOut
  <2>3. /\ store.data = d /\ store.capacity = c /\ store.length = n /\ store.head = h /\ store.closed = cl
        /\ store.sent = se /\ store.received = re /\ store.rejected = rj /\ store.empty = em
    BY <2>2, ChannelFields
  <2>4. Junk \notin {ChannelItems(store)[i] : i \in 1 .. store.length}
    <3>1. \A i \in 1 .. Len(s) : s[i] \in Values
      BY <2>1, ElementOfSeq
    <3> QED BY <2>1, <3>1, ContainerAssumption
  <2>5. store.data \in [Slots(store.capacity) -> Values \cup {Junk}]
    BY <2>3 DEF Storages, Anything
  <2>6. store.head \in IF store.capacity = 0 THEN {0} ELSE Slots(store.capacity)
    BY <2>3 DEF Heads
  <2> QED BY <2>1, <2>2, <2>3, <2>4, <2>5, <2>6 DEF ChannelTypeOK
<1>2. ChannelInv => (object = "channel" => ChannelTypeOK)
  BY <1>1 DEF ChannelInv
<1> QED BY <1>2, ChannelAlwaysKept, PTL
=============================================================================
