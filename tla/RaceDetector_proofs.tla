------------------------- MODULE RaceDetector_proofs -------------------------
(***************************************************************************)
(* Proofs about RaceDetector, for any tasks, accesses, slots and clocks:   *)
(* what the detector reports is a race, and of two tasks it misses none    *)
(* with an access it still has.                                            *)
(***************************************************************************)
EXTENDS RaceDetector, FiniteSetTheorems, TLAPS

(* What a synchronisation does, said without its local definitions. *)
LEMMA SynchronizeEffect ==
  ASSUME TypeOK, NEW t \in tasks, NEW u \in tasks, Synchronize(t, u)
  PROVE  /\ t # u /\ tasks' = tasks /\ slots' = slots
         /\ clock' \in [tasks -> [epoch : 1 .. MaxEpoch, syncEpoch : 0 .. MaxClock]]
         /\ known' \in [tasks -> [tasks -> 0 .. MaxEpoch]]
         /\ \A v \in tasks \ {t, u} : clock'[v] = clock[v] /\ known'[v] = known[v]
         /\ \A v \in {t, u} :
              /\ clock'[v].epoch = clock[v].epoch + 1
              /\ clock'[v].syncEpoch >= clock[t].syncEpoch
              /\ clock'[v].syncEpoch >= clock[u].syncEpoch
              /\ clock'[v].syncEpoch < MaxClock =>
                   clock'[v].syncEpoch > clock[t].syncEpoch /\ clock'[v].syncEpoch > clock[u].syncEpoch
              /\ \A w \in tasks \ {t, u} : known'[v][w] \in {known[t][w], known[u][w]}
         /\ known'[t][u] \in {known[t][u], clock[u].epoch}
         /\ known'[u][t] \in {known[u][t], clock[t].epoch}
         /\ known'[t][u] >= clock[u].epoch /\ known'[u][t] >= clock[t].epoch
         /\ clock'[t].syncEpoch = clock'[u].syncEpoch
<1> DEFINE next == NextSync(clock[t].syncEpoch, clock[u].syncEpoch)
           At(v) == [w \in tasks |-> IF w = v THEN clock[v].epoch ELSE known[v][w]]
           both == [w \in tasks |-> Larger(At(t)[w], At(u)[w])]
<1>1. /\ t # u /\ tasks' = tasks /\ slots' = slots
      /\ clock[t].epoch < MaxEpoch /\ clock[u].epoch < MaxEpoch
      /\ clock' = [v \in tasks |-> IF v \in {t, u} THEN [epoch |-> Tick(clock[v].epoch), syncEpoch |-> next]
                                   ELSE clock[v]]
      /\ known' = [known EXCEPT ![t] = both, ![u] = both]
  BY DEF Synchronize
<1>2. /\ next \in 0 .. MaxClock
      /\ next >= clock[t].syncEpoch /\ next >= clock[u].syncEpoch
      /\ next < MaxClock => next > clock[t].syncEpoch /\ next > clock[u].syncEpoch
  BY RaceAssumption DEF TypeOK, NextSync, Tick, Larger
<1>3. \A v \in {t, u} : Tick(clock[v].epoch) = clock[v].epoch + 1 /\ clock[v].epoch + 1 \in 1 .. MaxEpoch
  BY <1>1, RaceAssumption DEF TypeOK, Tick
<1>4. /\ both \in [tasks -> 0 .. MaxEpoch]
      /\ \A w \in tasks \ {t, u} : both[w] \in {known[t][w], known[u][w]}
      /\ both[u] \in {known[t][u], clock[u].epoch}
      /\ both[t] \in {known[u][t], clock[t].epoch}
      /\ both[u] >= clock[u].epoch /\ both[t] >= clock[t].epoch
  <2>1. /\ known[t] \in [tasks -> 0 .. MaxEpoch] /\ known[u] \in [tasks -> 0 .. MaxEpoch]
        /\ clock[t].epoch \in 0 .. MaxEpoch /\ clock[u].epoch \in 0 .. MaxEpoch
    BY DEF TypeOK
  <2>2. At(t) \in [tasks -> 0 .. MaxEpoch] /\ At(u) \in [tasks -> 0 .. MaxEpoch]
    BY <2>1
  <2> QED BY <1>1, <2>1, <2>2 DEF Larger
<1> HIDE DEF next, both
<1>5. clock' \in [tasks -> [epoch : 1 .. MaxEpoch, syncEpoch : 0 .. MaxClock]]
  BY <1>1, <1>2, <1>3 DEF TypeOK
<1>6. known' \in [tasks -> [tasks -> 0 .. MaxEpoch]]
  BY <1>1, <1>4 DEF TypeOK
<1>7. \A v \in {t, u} : clock'[v].epoch = clock[v].epoch + 1 /\ clock'[v].syncEpoch = next
  BY <1>1, <1>3
<1>8. \A v \in {t, u} : known'[v] = both
  BY <1>1 DEF TypeOK
<1>9. \A v \in tasks \ {t, u} : clock'[v] = clock[v] /\ known'[v] = known[v]
  BY <1>1 DEF TypeOK
<1> QED BY <1>1, <1>2, <1>4, <1>5, <1>6, <1>7, <1>8, <1>9

(* What an access does. *)
LEMMA AccessEffect ==
  ASSUME TypeOK, NEW t \in tasks, NEW a \in Accesses, Access(t, a)
  PROVE  /\ tasks' = tasks /\ known' = known
         /\ clock' \in [tasks -> [epoch : 1 .. MaxEpoch, syncEpoch : 0 .. MaxClock]]
         /\ clock'[t].epoch = clock[t].epoch + 1 /\ clock'[t].syncEpoch = clock[t].syncEpoch
         /\ \A v \in tasks \ {t} : clock'[v] = clock[v]
         /\ Entry(t, a) \in Entries
         /\ slots' \in [1 .. SlotCount -> {Vacant} \cup Entries]
         /\ \A i \in 1 .. SlotCount : slots'[i] \in {slots[i], Entry(t, a)}
<1> USE RaceAssumption
<1>0. clock[t].epoch < MaxEpoch /\ clock' = [clock EXCEPT ![t].epoch = Tick(clock[t].epoch)]
  BY DEF Access
<1>1. Tick(clock[t].epoch) = clock[t].epoch + 1 /\ clock[t].epoch + 1 \in 1 .. MaxEpoch
  BY <1>0 DEF Tick, TypeOK
<1>2. /\ clock' \in [tasks -> [epoch : 1 .. MaxEpoch, syncEpoch : 0 .. MaxClock]]
      /\ clock'[t].epoch = clock[t].epoch + 1 /\ clock'[t].syncEpoch = clock[t].syncEpoch
      /\ \A v \in tasks \ {t} : clock'[v] = clock[v]
  BY <1>0, <1>1 DEF TypeOK
<1>3. Entry(t, a) \in Entries
  <2>1. clock[t].epoch \in 1 .. MaxEpoch /\ clock[t].syncEpoch \in 0 .. MaxClock
    BY DEF TypeOK
  <2>2. /\ a.address \in 1 .. Word - 1 /\ a.size \in {b.size : b \in Accesses}
        /\ a.write \in BOOLEAN /\ a.atomicAccess \in BOOLEAN
    BY RaceAssumption
  <2> QED BY <2>1, <2>2, Zenon DEF Entry, Entries
<1>4. slots' = [slots EXCEPT ![ChooseSlot(a.address)] = Entry(t, a)]
  BY DEF Access, Record
<1> QED BY <1>2, <1>3, <1>4 DEF Access, TypeOK

(* Types: clocks, slots and knowledge stay within their sets.              *)
LEMMA InitTypes == Init => TypeOK
  BY RaceAssumption DEF Init, TypeOK

LEMMA StepTypes == TypeOK /\ [Next]_vars => TypeOK'
<1> SUFFICES ASSUME TypeOK, [Next]_vars PROVE TypeOK'
  OBVIOUS
<1>1. ASSUME NEW t \in tasks, NEW u \in tasks, Synchronize(t, u) PROVE TypeOK'
  <2>1. Entries' = Entries
    BY <1>1, SynchronizeEffect DEF Entries
  <2> QED BY <1>1, <2>1, SynchronizeEffect DEF TypeOK
<1>2. ASSUME NEW t \in tasks, NEW a \in Accesses, Access(t, a) PROVE TypeOK'
  <2>1. Entries' = Entries
    BY <1>2, AccessEffect DEF Entries
  <2> QED BY <1>2, <2>1, AccessEffect DEF TypeOK
<1>3. CASE Clear BY <1>3 DEF Clear, TypeOK, Entries
<1>4. CASE UNCHANGED vars BY <1>4 DEF vars, TypeOK, Entries
<1> QED BY <1>1, <1>2, <1>3, <1>4 DEF Next

THEOREM TypesAlways == Spec => []TypeOK
  BY InitTypes, StepTypes, PTL DEF Spec

-----------------------------------------------------------------------------
(* Nobody knows of an epoch that another task has not finished; an entry   *)
(* is not younger than its task; and whoever knows of an entry's epoch is  *)
(* in a later generation, unless generations have come to their end.       *)
KnownIsPast ==
  \A t, u \in tasks : t # u => known[t][u] < clock[u].epoch

EntryIsPast(s) ==
  s.syncEpoch <= clock[s.task].syncEpoch /\ s.epoch < clock[s.task].epoch

KnownIsOlder(s) ==
  \A t \in tasks : t # s.task /\ Ordered(s, t) =>
    /\ s.syncEpoch <= clock[t].syncEpoch
    /\ clock[t].syncEpoch < MaxClock => s.syncEpoch < clock[t].syncEpoch

Generations ==
  /\ KnownIsPast
  /\ \A i \in 1 .. SlotCount : slots[i].occupied => EntryIsPast(slots[i]) /\ KnownIsOlder(slots[i])

LEMMA InitGenerations == Init => Generations
  BY RaceAssumption DEF Init, Generations, KnownIsPast, Vacant

LEMMA StepGenerations == TypeOK /\ Generations /\ [Next]_vars => Generations'
<1> SUFFICES ASSUME TypeOK, Generations, [Next]_vars PROVE Generations'
  OBVIOUS
<1>0. \A i \in 1 .. SlotCount : slots[i].occupied => slots[i] \in Entries
  <2>1. \A i \in 1 .. SlotCount : slots[i] = Vacant \/ slots[i] \in Entries
    BY DEF TypeOK
  <2>2. ~Vacant.occupied
    BY DEF Vacant
  <2> QED BY <2>1, <2>2
<1>t. /\ \A v \in tasks : clock[v].epoch \in Nat /\ clock[v].syncEpoch \in Nat
      /\ \A v \in tasks : \A w \in tasks : known[v][w] \in Nat
  BY RaceAssumption DEF TypeOK
<1>1. ASSUME NEW t \in tasks, NEW u \in tasks, Synchronize(t, u) PROVE Generations'
  <2> DEFINE Moved(v) == clock'[v].epoch = clock[v].epoch + 1
             Learnt(v, w) == known'[v][w] \in {known[t][w], known[u][w]}
             Later(v, w) == /\ clock[w].syncEpoch <= clock'[v].syncEpoch
                            /\ clock'[v].syncEpoch < MaxClock => clock[w].syncEpoch < clock'[v].syncEpoch
  <2>0. /\ t # u /\ tasks' = tasks /\ slots' = slots
        /\ \A v \in tasks \ {t, u} : clock'[v] = clock[v] /\ known'[v] = known[v]
        /\ \A v \in {t, u} : Moved(v) /\ \A w \in tasks \ {t, u} : Learnt(v, w)
        /\ \A v \in {t, u} : clock'[v].syncEpoch \in Nat /\ Later(v, t) /\ Later(v, u)
        /\ known'[t][u] \in {known[t][u], clock[u].epoch}
        /\ known'[u][t] \in {known[u][t], clock[t].epoch}
    <3>1. \A v \in {t, u} : clock'[v].syncEpoch \in Nat
      BY <1>1, SynchronizeEffect, RaceAssumption
    <3>2. \A v \in {t, u} : Later(v, t) /\ Later(v, u)
      BY <1>1, <1>t, <3>1, SynchronizeEffect
    <3> QED BY <1>1, <3>1, <3>2, SynchronizeEffect
  <2>1. KnownIsPast'
    <3>1. ASSUME NEW v \in tasks, NEW w \in tasks, v # w PROVE known'[v][w] < clock'[w].epoch
      <4>1. /\ clock[w].epoch \in Nat /\ clock[t].epoch \in Nat /\ clock[u].epoch \in Nat
            /\ known[v][w] \in Nat /\ known[t][w] \in Nat /\ known[u][w] \in Nat
        BY <1>t
      <4>2. /\ known[v][w] < clock[w].epoch
            /\ t # w => known[t][w] < clock[w].epoch
            /\ u # w => known[u][w] < clock[w].epoch
        BY <3>1 DEF Generations, KnownIsPast
      <4>3. clock'[w].epoch >= clock[w].epoch
        BY <2>0, <4>1
      <4>4. CASE v \notin {t, u} BY <2>0, <4>1, <4>2, <4>3, <4>4
      <4>5. CASE v \in {t, u} /\ w \notin {t, u} BY <2>0, <4>1, <4>2, <4>3, <4>5
      <4>6. CASE v \in {t, u} /\ w \in {t, u} BY <2>0, <3>1, <4>1, <4>2, <4>6
      <4> QED BY <4>4, <4>5, <4>6
    <3> QED BY <2>0, <3>1 DEF KnownIsPast
  <2>2. ASSUME NEW s \in Entries, EntryIsPast(s), KnownIsOlder(s)
        PROVE  EntryIsPast(s)' /\ KnownIsOlder(s)'
    <3>1. s.task \in tasks /\ s.syncEpoch \in Nat /\ s.epoch \in Nat
      BY RaceAssumption DEF Entries
    <3>2. /\ s.syncEpoch <= clock[s.task].syncEpoch /\ s.epoch < clock[s.task].epoch
          /\ \A v \in tasks : v # s.task /\ s.epoch <= known[v][s.task] =>
               /\ s.syncEpoch <= clock[v].syncEpoch
               /\ clock[v].syncEpoch < MaxClock => s.syncEpoch < clock[v].syncEpoch
      BY <2>2 DEF EntryIsPast, KnownIsOlder, Ordered
    <3>3. \A v \in tasks : clock[v].epoch <= clock'[v].epoch /\ clock[v].syncEpoch <= clock'[v].syncEpoch
      BY <1>t, <2>0
    <3>4. EntryIsPast(s)'
      BY <1>t, <2>0, <3>1, <3>2, <3>3 DEF EntryIsPast
    <3>5. ASSUME NEW v \in tasks, v # s.task, s.epoch <= known'[v][s.task]
          PROVE  /\ s.syncEpoch <= clock'[v].syncEpoch
                 /\ clock'[v].syncEpoch < MaxClock => s.syncEpoch < clock'[v].syncEpoch
      <4>1. CASE v \notin {t, u}
        BY <2>0, <3>2, <3>5, <4>1
      <4>2. CASE v \in {t, u} /\ s.task \in {t, u}
        BY <1>t, <2>0, <3>1, <3>2, <4>2
      <4>3. CASE v \in {t, u} /\ s.task \notin {t, u}
        <5>1. s.epoch <= known[t][s.task] \/ s.epoch <= known[u][s.task]
          BY <2>0, <3>1, <3>5, <4>3
        <5>2. s.syncEpoch <= clock[t].syncEpoch \/ s.syncEpoch <= clock[u].syncEpoch
          BY <3>2, <4>3, <5>1
        <5> QED BY <1>t, <2>0, <3>1, <4>3, <5>2, RaceAssumption
      <4> QED BY <4>1, <4>2, <4>3
    <3> QED BY <2>0, <3>4, <3>5 DEF KnownIsOlder, Ordered
  <2> QED BY <1>0, <2>0, <2>1, <2>2 DEF Generations
<1>2. ASSUME NEW t \in tasks, NEW a \in Accesses, Access(t, a) PROVE Generations'
  <2>0. /\ tasks' = tasks /\ known' = known
        /\ clock'[t].epoch = clock[t].epoch + 1 /\ clock'[t].syncEpoch = clock[t].syncEpoch
        /\ \A v \in tasks \ {t} : clock'[v] = clock[v]
        /\ \A i \in 1 .. SlotCount : slots'[i] \in {slots[i], Entry(t, a)}
    BY <1>2, AccessEffect
  <2>1. KnownIsPast'
    BY <1>t, <2>0 DEF Generations, KnownIsPast
  <2>2. ASSUME NEW s, s.task \in tasks, s.epoch \in Nat, KnownIsOlder(s) PROVE KnownIsOlder(s)'
    BY <2>0, <2>2 DEF KnownIsOlder, Ordered
  <2>3. ASSUME NEW s \in Entries, EntryIsPast(s), KnownIsOlder(s)
        PROVE  EntryIsPast(s)' /\ KnownIsOlder(s)'
    <3>1. s.task \in tasks /\ s.syncEpoch \in Nat /\ s.epoch \in Nat
      BY RaceAssumption DEF Entries
    <3>2. EntryIsPast(s)'
      BY <1>t, <2>0, <2>3, <3>1 DEF EntryIsPast
    <3> QED BY <2>2, <2>3, <3>1, <3>2
  <2>4. ASSUME NEW s, s = Entry(t, a) PROVE EntryIsPast(s)' /\ KnownIsOlder(s)'
    <3>1. s.task = t /\ s.epoch = clock[t].epoch /\ s.syncEpoch = clock[t].syncEpoch
      BY <2>4 DEF Entry
    <3>2. EntryIsPast(s)'
      BY <1>t, <2>0, <3>1 DEF EntryIsPast
    <3>3. \A v \in tasks : v # t => ~(s.epoch <= known[v][t])
      BY <1>t, <3>1 DEF Generations, KnownIsPast
    <3> QED BY <2>0, <3>1, <3>2, <3>3 DEF KnownIsOlder, Ordered
  <2> QED BY <1>0, <2>0, <2>1, <2>3, <2>4 DEF Generations
<1>3. CASE Clear
  BY <1>3 DEF Clear, Generations, KnownIsPast, Vacant
<1>4. CASE UNCHANGED vars
  BY <1>4 DEF vars, Generations, KnownIsPast, EntryIsPast, KnownIsOlder, Ordered
<1> QED BY <1>1, <1>2, <1>3, <1>4 DEF Next

(* Ranges that overlap have a byte in common, also at the last address.    *)
LEMMA OverlapIsShared ==
  ASSUME NEW p \in 1 .. Word - 1, NEW m \in Nat \ {0}, NEW q \in 1 .. Word - 1, NEW n \in Nat \ {0},
         RangesOverlap(p, m, q, n)
  PROVE  \E b \in (p .. p + m - 1) \cap (q .. q + n - 1) : b < Word
<1> DEFINE b == IF p > q THEN p ELSE q
<1>1. b \in p .. p + m - 1 /\ b \in q .. q + n - 1 /\ b < Word
  BY RaceAssumption DEF RangesOverlap, RangeEnd
<1> QED BY <1>1

(* nqRaceConflicts: what is reported is a race, for any number of tasks and *)
(* slots, whatever synchronised with whom before.                          *)
THEOREM NoFalseAlarmAlways == Spec => []NoFalseAlarm
<1>1. ASSUME TypeOK, Generations PROVE NoFalseAlarm
  <2> SUFFICES ASSUME NEW t \in tasks, NEW a \in Accesses, NEW i \in DOMAIN slots,
                      clock[t].syncEpoch < MaxClock, Conflicts(slots[i], a, t)
               PROVE  Races(slots[i], a, t)
    BY DEF NoFalseAlarm
  <2>1. i \in 1 .. SlotCount /\ slots[i] \in Entries
    <3>1. i \in 1 .. SlotCount /\ (slots[i] = Vacant \/ slots[i] \in Entries)
      BY <1>1 DEF TypeOK
    <3>2. slots[i].occupied /\ ~Vacant.occupied
      BY DEF Conflicts, Vacant
    <3> QED BY <3>1, <3>2
  <2>2. slots[i].task \in tasks /\ slots[i].syncEpoch \in 0 .. MaxClock
    BY <2>1 DEF Entries
  <2>3. ~Ordered(slots[i], t)
    BY <1>1, <2>1, <2>2 DEF Generations, KnownIsOlder, Conflicts, TypeOK
  <2>4. /\ slots[i].address \in 1 .. Word - 1 /\ slots[i].size \in Nat \ {0}
        /\ a.address \in 1 .. Word - 1 /\ a.size \in Nat \ {0}
    BY <2>1, RaceAssumption DEF Entries
  <2>5. Bytes(slots[i]) \cap Bytes(a) # {}
    BY <2>4, OverlapIsShared DEF Bytes, Conflicts
  <2> QED BY <2>3, <2>5 DEF Races, Conflicts
<1> QED BY <1>1, InitTypes, StepTypes, InitGenerations, StepGenerations, PTL DEF Spec

-----------------------------------------------------------------------------
(* Of two tasks: generations are only ever changed together, and whoever   *)
(* is in a later generation than an entry of the other task knows of it.   *)
Two == \A t, u, v \in tasks : t = u \/ t = v \/ u = v

InStep == \A t, u \in tasks : clock[t].syncEpoch = clock[u].syncEpoch

OlderIsKnown(s) == \A t \in tasks : t # s.task /\ s.syncEpoch < clock[t].syncEpoch => Ordered(s, t)

TwoTasksInStep ==
  Two => InStep /\ \A i \in 1 .. SlotCount : slots[i].occupied => OlderIsKnown(slots[i])

LEMMA TwoIsTwo == TypeOK /\ Cardinality(tasks) = 2 => Two
<1> SUFFICES ASSUME TypeOK, Cardinality(tasks) = 2, NEW t \in tasks, NEW u \in tasks, NEW v \in tasks, t # u, t # v, u # v
             PROVE  FALSE
  BY DEF Two
<1>1. IsFiniteSet(tasks)
  BY RaceAssumption DEF TypeOK
<1>2. IsFiniteSet(tasks \ {t}) /\ Cardinality(tasks \ {t}) = 1
  BY <1>1, FS_RemoveElement
<1>3. IsFiniteSet((tasks \ {t}) \ {u}) /\ Cardinality((tasks \ {t}) \ {u}) = 0
  BY <1>2, FS_RemoveElement
<1>4. (tasks \ {t}) \ {u} = {}
  BY <1>3, FS_EmptySet
<1> QED BY <1>4

LEMMA InitInStep == Init => TwoTasksInStep
  BY DEF Init, TwoTasksInStep, InStep, Vacant

LEMMA StepInStep == TypeOK /\ Generations /\ TwoTasksInStep /\ [Next]_vars => TwoTasksInStep'
<1> SUFFICES ASSUME TypeOK, Generations, TwoTasksInStep, [Next]_vars, Two'
             PROVE  InStep' /\ \A i \in 1 .. SlotCount : slots'[i].occupied => OlderIsKnown(slots[i])'
  BY DEF TwoTasksInStep
<1>0. Two /\ InStep /\ \A i \in 1 .. SlotCount : slots[i].occupied => OlderIsKnown(slots[i])
  BY DEF TwoTasksInStep, Two, Next, vars, Synchronize, Access, Clear
<1>s. \A i \in 1 .. SlotCount : slots[i].occupied => slots[i] \in Entries /\ EntryIsPast(slots[i])
  <2>1. \A i \in 1 .. SlotCount : slots[i] = Vacant \/ slots[i] \in Entries
    BY DEF TypeOK
  <2> QED BY <2>1 DEF Vacant, Generations
<1>t. /\ \A v \in tasks : clock[v].epoch \in Nat /\ clock[v].syncEpoch \in Nat
      /\ \A v \in tasks : \A w \in tasks : known[v][w] \in Nat
  BY RaceAssumption DEF TypeOK
<1>1. ASSUME NEW t \in tasks, NEW u \in tasks, Synchronize(t, u)
      PROVE  InStep' /\ \A i \in 1 .. SlotCount : slots'[i].occupied => OlderIsKnown(slots[i])'
  <2>1. /\ t # u /\ tasks' = tasks /\ slots' = slots
        /\ known'[t][u] >= clock[u].epoch /\ known'[u][t] >= clock[t].epoch
        /\ clock'[t].syncEpoch = clock'[u].syncEpoch
        /\ known' \in [tasks -> [tasks -> 0 .. MaxEpoch]]
    BY <1>1, SynchronizeEffect
  <2>2. \A v \in tasks : v = t \/ v = u
    BY <1>0, <2>1 DEF Two
  <2>3. InStep'
    BY <2>1, <2>2 DEF InStep
  <2>4. ASSUME NEW s \in Entries, EntryIsPast(s) PROVE OlderIsKnown(s)'
    <3>1. s.task \in tasks /\ s.epoch \in Nat /\ s.epoch < clock[s.task].epoch
      BY <2>4, RaceAssumption DEF Entries, EntryIsPast
    <3>2. ASSUME NEW v \in tasks, v # s.task PROVE s.epoch <= known'[v][s.task]
      <4>1. known'[v][s.task] \in Nat /\ known'[v][s.task] >= clock[s.task].epoch
        BY <2>1, <2>2, <3>1, <3>2, RaceAssumption
      <4> QED BY <1>t, <3>1, <4>1
    <3> QED BY <2>1, <3>2 DEF OlderIsKnown, Ordered
  <2> QED BY <1>s, <2>1, <2>3, <2>4
<1>2. ASSUME NEW t \in tasks, NEW a \in Accesses, Access(t, a)
      PROVE  InStep' /\ \A i \in 1 .. SlotCount : slots'[i].occupied => OlderIsKnown(slots[i])'
  <2>1. /\ tasks' = tasks /\ known' = known
        /\ \A v \in tasks : clock'[v].syncEpoch = clock[v].syncEpoch
        /\ \A i \in 1 .. SlotCount : slots'[i] \in {slots[i], Entry(t, a)}
    BY <1>2, AccessEffect
  <2>2. \A v \in tasks : ~(Entry(t, a).syncEpoch < clock[v].syncEpoch)
    BY <1>0, <1>t DEF InStep, Entry
  <2> QED BY <1>0, <2>1, <2>2 DEF InStep, OlderIsKnown, Ordered
<1>3. CASE Clear
  BY <1>0, <1>3 DEF Clear, InStep, Vacant
<1>4. CASE UNCHANGED vars
  BY <1>0, <1>4 DEF vars, InStep, OlderIsKnown, Ordered
<1> QED BY <1>1, <1>2, <1>3, <1>4 DEF Next

(* Ranges with a byte in common overlap. *)
LEMMA SharedIsOverlap ==
  ASSUME NEW p \in 1 .. Word - 1, NEW m \in Nat \ {0}, NEW q \in 1 .. Word - 1, NEW n \in Nat \ {0},
         NEW b \in (p .. p + m - 1) \cap (q .. q + n - 1), b < Word
  PROVE  RangesOverlap(p, m, q, n)
  BY RaceAssumption DEF RangesOverlap, RangeEnd

(* Two tasks alone cannot hide a race with a tracked access from the       *)
(* detector, whatever they access and however often they synchronise:      *)
(* their own progress does not change their generations (race.nqr:53-55).  *)
THEOREM TwoTasksHideNothingAlways == Spec => []TwoTasksHideNothing
<1>1. ASSUME TypeOK, TwoTasksInStep PROVE TwoTasksHideNothing
  <2> SUFFICES ASSUME Cardinality(tasks) = 2, NEW t \in tasks, NEW a \in Accesses, NEW i \in DOMAIN slots,
                      Races(slots[i], a, t)
               PROVE  Conflicts(slots[i], a, t)
    BY DEF TwoTasksHideNothing
  <2>1. i \in 1 .. SlotCount /\ slots[i] \in Entries
    <3>1. i \in 1 .. SlotCount /\ (slots[i] = Vacant \/ slots[i] \in Entries)
      BY <1>1 DEF TypeOK
    <3>2. slots[i].occupied /\ ~Vacant.occupied
      BY DEF Races, Vacant
    <3> QED BY <3>1, <3>2
  <2>2. ~(clock[t].syncEpoch > slots[i].syncEpoch)
    <3>1. OlderIsKnown(slots[i]) /\ t # slots[i].task /\ ~Ordered(slots[i], t)
      BY <1>1, <2>1, TwoIsTwo DEF TwoTasksInStep, Races
    <3>2. clock[t].syncEpoch \in Nat /\ slots[i].syncEpoch \in Nat
      BY <1>1, <2>1, RaceAssumption DEF TypeOK, Entries
    <3> QED BY <3>1, <3>2 DEF OlderIsKnown
  <2>3. /\ slots[i].address \in 1 .. Word - 1 /\ slots[i].size \in Nat \ {0}
        /\ a.address \in 1 .. Word - 1 /\ a.size \in Nat \ {0}
    BY <2>1, RaceAssumption DEF Entries
  <2>4. PICK b \in Bytes(slots[i]) \cap Bytes(a) : TRUE
    BY DEF Races
  <2>5. RangesOverlap(slots[i].address, slots[i].size, a.address, a.size)
    BY <2>3, <2>4, SharedIsOverlap DEF Bytes
  <2> QED BY <2>2, <2>5 DEF Races, Conflicts
<1> QED BY <1>1, InitTypes, StepTypes, InitGenerations, StepGenerations, InitInStep, StepInStep, PTL DEF Spec
=============================================================================
