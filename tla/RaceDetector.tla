---------------------------- MODULE RaceDetector ----------------------------
(***************************************************************************)
(* Runtime/race.nqr: a race detector that gives each task one number, its  *)
(* syncEpoch, in place of a vector clock, and keeps the accesses it has    *)
(* seen in a few slots.  What it should decide is modelled beside it:      *)
(* known[t][u] is the last epoch of u that t has learnt of through         *)
(* synchronisations, so it gives the true happens-before order.            *)
(***************************************************************************)
EXTENDS Naturals, FiniteSets, Sequences

CONSTANTS
  TaskSets,   \* the sets of tasks a program may consist of
  Accesses,   \* [address, size, write, atomicAccess] records
  Word,       \* 2^w: addresses are w-bit words, 64 bits in the code
  MaxClock,   \* where clocks stop, 2^64 - 2 in the code
  SlotCount,  \* len(slots)
  MaxEpoch    \* bound: a task synchronises and accesses less often than this

ASSUME RaceAssumption ==
  /\ Word \in Nat /\ SlotCount \in Nat \ {0}
  /\ MaxEpoch \in Nat \ {0} /\ MaxClock \in Nat /\ MaxEpoch <= MaxClock
  /\ \A a \in Accesses : a.address \in 1 .. Word - 1 /\ a.size \in Nat \ {0}
                       /\ a.write \in BOOLEAN /\ a.atomicAccess \in BOOLEAN
  /\ \A S \in TaskSets : IsFiniteSet(S)

VARIABLES
  tasks,  \* the tasks of this program
  clock,  \* task -> [epoch, syncEpoch]
  slots,  \* the sequence of NqRaceSlot; Vacant when not occupied
  known   \* task -> task -> epoch

vars == <<tasks, clock, slots, known>>

Vacant == [occupied |-> FALSE]

Init ==
  /\ tasks \in TaskSets
  /\ clock = [t \in tasks |-> [epoch |-> 1, syncEpoch |-> 0]]
  /\ slots = [i \in 1 .. SlotCount |-> Vacant]
  /\ known = [t \in tasks |-> [u \in tasks |-> 0]]

Tick(n) == IF n < MaxClock THEN n + 1 ELSE n
Larger(m, n) == IF m > n THEN m ELSE n

(* Mutant: the generation is shared but not advanced. *)
NextSyncLazy(m, n) == Larger(m, n)

NextSync(m, n) == Tick(Larger(m, n))

(* nqRaceSynchronize: both tasks move to a new generation. *)
Synchronize(t, u) ==
  /\ t # u
  /\ clock[t].epoch < MaxEpoch /\ clock[u].epoch < MaxEpoch
  /\ LET next == NextSync(clock[t].syncEpoch, clock[u].syncEpoch)
         At(v) == [w \in tasks |-> IF w = v THEN clock[v].epoch ELSE known[v][w]]
         both == [w \in tasks |-> Larger(At(t)[w], At(u)[w])]
     IN  /\ clock' = [v \in tasks |-> IF v \in {t, u} THEN [epoch |-> Tick(clock[v].epoch), syncEpoch |-> next]
                                      ELSE clock[v]]
         /\ known' = [known EXCEPT ![t] = both, ![u] = both]
  /\ UNCHANGED <<tasks, slots>>

(* A range that reaches beyond the last address ends there. *)
RangeEnd(address, size) ==
  IF size - 1 > Word - 1 - address THEN Word - 1 ELSE address + size - 1

(* Mutant: ranges that only share their last or first byte are missed. *)
RangesOverlapStrictly(a, aSize, b, bSize) == a < RangeEnd(b, bSize) /\ b < RangeEnd(a, aSize)

RangesOverlap(a, aSize, b, bSize) == a <= RangeEnd(b, bSize) /\ b <= RangeEnd(a, aSize)

Conflicts(previous, a, t) ==
  /\ previous.occupied
  /\ RangesOverlap(previous.address, previous.size, a.address, a.size)
  /\ previous.task # t
  /\ ~(previous.atomicAccess /\ a.atomicAccess)
  /\ previous.write \/ a.write
  /\ ~(clock[t].syncEpoch > previous.syncEpoch)

(* The slots from which one is chosen: the first that has the address, or  *)
(* else the first vacant one, or else the one the address hashes to.       *)
First(S) == CHOOSE i \in S : \A j \in S : i <= j

ChooseSlot(address) ==
  LET same == {i \in DOMAIN slots : slots[i].occupied /\ slots[i].address = address}
      vacant == {i \in DOMAIN slots : ~slots[i].occupied}
  IN  IF same # {} THEN First(same)
      ELSE IF vacant # {} THEN First(vacant)
      ELSE (address % SlotCount) + 1

(* Mutant: the offset of the last byte is kept as the size. *)
EntryLastOffset(t, a) ==
  [occupied |-> TRUE, address |-> a.address, size |-> a.size - 1, task |-> t, epoch |-> clock[t].epoch,
   syncEpoch |-> clock[t].syncEpoch, write |-> a.write, atomicAccess |-> a.atomicAccess]

Entry(t, a) ==
  [occupied |-> TRUE, address |-> a.address, size |-> a.size, task |-> t, epoch |-> clock[t].epoch,
   syncEpoch |-> clock[t].syncEpoch, write |-> a.write, atomicAccess |-> a.atomicAccess]

Record(t, a) == slots' = [slots EXCEPT ![ChooseSlot(a.address)] = Entry(t, a)]

(* nqRaceAccess; a reported access is not recorded and changes nothing. *)
Access(t, a) ==
  /\ clock[t].epoch < MaxEpoch
  /\ \A i \in DOMAIN slots : ~Conflicts(slots[i], a, t)
  /\ Record(t, a)
  /\ clock' = [clock EXCEPT ![t].epoch = Tick(@)]
  /\ UNCHANGED <<tasks, known>>

(* nqRaceSlotsClear, when the checked program starts another phase. *)
Clear ==
  /\ slots' = [i \in 1 .. SlotCount |-> Vacant]
  /\ UNCHANGED <<tasks, clock, known>>

Next ==
  \/ \E t, u \in tasks : Synchronize(t, u)
  \/ \E t \in tasks, a \in Accesses : Access(t, a)
  \/ Clear

Spec == Init /\ [][Next]_vars

-----------------------------------------------------------------------------
(* What a race is: two tasks touch a common byte, at least one of them     *)
(* writes, they are not both atomic, and nothing orders the earlier access *)
(* before the later one.                                                   *)
Bytes(a) == {b \in a.address .. a.address + a.size - 1 : b < Word}

Ordered(previous, t) == previous.epoch <= known[t][previous.task]

Races(previous, a, t) ==
  /\ previous.occupied /\ previous.task # t
  /\ Bytes(previous) \cap Bytes(a) # {}
  /\ previous.write \/ a.write
  /\ ~previous.atomicAccess \/ ~a.atomicAccess
  /\ ~Ordered(previous, t)

Used == {i \in DOMAIN slots : slots[i].occupied}

Entries ==
  [occupied : {TRUE}, address : 1 .. Word - 1, size : {a.size : a \in Accesses},
   task : tasks, epoch : 1 .. MaxEpoch, syncEpoch : 0 .. MaxClock,
   write : BOOLEAN, atomicAccess : BOOLEAN]

TypeOK ==
  /\ tasks \in TaskSets
  /\ clock \in [tasks -> [epoch : 1 .. MaxEpoch, syncEpoch : 0 .. MaxClock]]
  /\ slots \in [1 .. SlotCount -> {Vacant} \cup Entries]
  /\ known \in [tasks -> [tasks -> 0 .. MaxEpoch]]

(* A reported pair is a race: an access that happens before another one,   *)
(* through however many synchronisations of however many tasks, belongs to *)
(* a smaller generation, as long as generations can still be told apart,   *)
(* that is below MaxClock (nqRaceSynchronize, nqRaceConflicts).            *)
NoFalseAlarm ==
  \A t \in tasks, a \in Accesses, i \in DOMAIN slots :
    clock[t].syncEpoch < MaxClock /\ Conflicts(slots[i], a, t) => Races(slots[i], a, t)

(* Two tasks alone cannot hide a race with a tracked access from the       *)
(* detector: their own progress does not change their generations          *)
(* (race.nqr:53-55).                                                       *)
TwoTasksHideNothing ==
  Cardinality(tasks) = 2 =>
    \A t \in tasks, a \in Accesses, i \in DOMAIN slots :
      Races(slots[i], a, t) => Conflicts(slots[i], a, t)

(* race.nqr:133-135: an access reports a conflict against any overlapping  *)
(* tracked access, and a conflicting pair is never converted into success. *)
RacesAreReported ==
  \A t \in tasks, a \in Accesses, i \in DOMAIN slots :
    Races(slots[i], a, t) => Conflicts(slots[i], a, t)

-----------------------------------------------------------------------------
(* The instance TLC checks: programs of two and of three tasks; accesses   *)
(* of every kind to ranges that are equal, overlap in a byte, are          *)
(* disjoint, or reach beyond the last address.                             *)
Access3(a, n) == [address : {a}, size : {n}, write : BOOLEAN, atomicAccess : BOOLEAN]
MCAccesses == Access3(1, 2) \cup Access3(2, 1) \cup Access3(3, 2)
MCTaskSets == {{1, 2}, {1, 2, 3}}
ThreeTasks == {{1, 2, 3}}
=============================================================================
