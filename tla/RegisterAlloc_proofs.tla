----------------------- MODULE RegisterAlloc_proofs -----------------------
(***************************************************************************)
(* Proofs about RegisterAlloc, for any number of intervals and registers:  *)
(* values that are alive at the same place are in different registers.     *)
(***************************************************************************)
EXTENDS RegisterAlloc, TLAPS

(* What linear scan keeps: the intervals placed are those before current,  *)
(* active ones are in the register that they hold, which is not free and   *)
(* nobody else's, and one that was in a register and is no longer active   *)
(* ended before whatever is still to be placed begins.                     *)
ScanTypes ==
  /\ intervals \in Seq(Interval) /\ InOrder(intervals)
  /\ current \in 1 .. Len(intervals) + 1
  /\ DOMAIN location = 1 .. current - 1
  /\ DOMAIN active \subseteq DOMAIN location

Held ==
  /\ \A j \in DOMAIN active : location[j] = <<"reg", active[j]>> /\ active[j] \notin free
  /\ \A j, k \in DOMAIN active : active[j] = active[k] => j = k

Expired ==
  \A j \in DOMAIN location \ DOMAIN active : location[j][1] = "reg" =>
    \A k \in current .. Len(intervals) : intervals[j].end < intervals[k].begin

ScanInv == ScanTypes /\ Held /\ Expired /\ NoSharedRegister

(* A step is about the interval at current, and those that expire end      *)
(* before it and all later ones begin.                                     *)
LEMMA StepFacts ==
  ASSUME ScanInv, Moves
  PROVE  /\ current \in 1 .. Len(intervals) /\ current' = current + 1 /\ intervals' = intervals
         /\ current \notin DOMAIN location
         /\ DOMAIN location \cup {current} = 1 .. current' - 1
         /\ current' \in 1 .. Len(intervals) + 1
         /\ Kept \subseteq DOMAIN active
         /\ \A i \in 1 .. Len(intervals) : intervals[i].begin \in Nat /\ intervals[i].end \in Nat
         /\ \A j \in DOMAIN active \ Kept, k \in current .. Len(intervals) : intervals[j].end < intervals[k].begin
         /\ \A k \in Kept : active[k] \notin Freed
<1>1. /\ current \in 1 .. Len(intervals) /\ current' = current + 1 /\ intervals' = intervals
      /\ current \notin DOMAIN location
      /\ DOMAIN location \cup {current} = 1 .. current' - 1
      /\ current' \in 1 .. Len(intervals) + 1
      /\ Kept \subseteq DOMAIN active
  BY DEF ScanInv, ScanTypes, Moves, Kept
<1>2. \A i \in 1 .. Len(intervals) : intervals[i].begin \in Nat /\ intervals[i].end \in Nat
  <2>1. \A i \in 1 .. Len(intervals) : intervals[i] \in Interval
    BY DEF ScanInv, ScanTypes
  <2> QED BY <2>1 DEF Interval
<1>3. ASSUME NEW j \in DOMAIN active \ Kept, NEW k \in current .. Len(intervals)
      PROVE  intervals[j].end < intervals[k].begin
  <2>1. j \in 1 .. Len(intervals) /\ k \in 1 .. Len(intervals)
    BY <1>1 DEF ScanInv, ScanTypes
  <2>2. intervals[j].end < intervals[current].begin
    BY <1>1, <1>2, <2>1 DEF Kept, This
  <2>3. intervals[current].begin <= intervals[k].begin
    BY <1>1, <1>2, <2>1 DEF ScanInv, ScanTypes, InOrder
  <2> QED BY <1>1, <1>2, <2>1, <2>2, <2>3
<1>4. \A k \in Kept : active[k] \notin Freed
  BY <1>1 DEF ScanInv, Held, Freed
<1> QED BY <1>1, <1>2, <1>3, <1>4

(* An interval that was in a register and does not stay active has ended   *)
(* before the next interval and all later ones begin.                      *)
LEMMA GoneHasEnded ==
  ASSUME ScanInv, Moves, NEW j \in DOMAIN location, j \notin Kept, location[j][1] = "reg",
         NEW k \in current .. Len(intervals)
  PROVE  intervals[j].end < intervals[k].begin
<1>1. CASE j \in DOMAIN active
  BY <1>1, StepFacts
<1>2. CASE j \notin DOMAIN active
  BY <1>2 DEF ScanInv, Expired
<1> QED BY <1>1, <1>2

(* No interval that has been placed and is in register r overlaps the next *)
(* one, if no interval that stays active holds r.                          *)
LEMMA RegisterIsVacant ==
  ASSUME ScanInv, Moves, NEW r, NEW j \in DOMAIN location,
         location[j] = <<"reg", r>>, \A k \in Kept : k = j => active[k] # r
  PROVE  ~Overlap(j, current) /\ ~Overlap(current, j)
<1>1. /\ current \in 1 .. Len(intervals) /\ j \in 1 .. Len(intervals)
      /\ intervals[current].begin \in Nat /\ intervals[j].end \in Nat
  BY StepFacts DEF ScanInv, ScanTypes
<1>2. intervals[j].end < intervals[current].begin
  <2>1. j \notin Kept /\ location[j][1] = "reg"
    BY StepFacts DEF ScanInv, Held
  <2> QED BY <1>1, <2>1, GoneHasEnded
<1> QED BY <1>1, <1>2 DEF Overlap

(* A step that gives the next interval the register r, which nobody holds  *)
(* any more, and leaves every other register where it is.                  *)
LEMMA PlacedIsAlone ==
  ASSUME ScanInv, Moves, NEW r,
         DOMAIN location' = DOMAIN location \cup {current},
         location'[current] = <<"reg", r>>,
         \A j \in DOMAIN location : location'[j][1] = "reg" => location'[j] = location[j],
         \A j \in DOMAIN location, k \in Kept : k = j /\ active[k] = r => location'[j][1] # "reg"
  PROVE  NoSharedRegister'
<1> SUFFICES ASSUME NEW i \in DOMAIN location', NEW j \in DOMAIN location',
                    i # j, Overlap(i, j)', location'[i][1] = "reg", location'[i] = location'[j]
             PROVE  FALSE
  BY DEF NoSharedRegister
<1>1. Overlap(i, j) /\ location'[j][1] = "reg"
  BY StepFacts DEF Overlap
<1>2. CASE i \in DOMAIN location /\ j \in DOMAIN location
  BY <1>1, <1>2 DEF ScanInv, NoSharedRegister
<1>3. CASE i = current /\ j \in DOMAIN location
  <2>1. location[j] = <<"reg", r>> /\ \A k \in Kept : k = j => active[k] # r
    BY <1>1, <1>3
  <2> QED BY <1>1, <1>3, <2>1, RegisterIsVacant
<1>4. CASE j = current /\ i \in DOMAIN location
  <2>1. location[i] = <<"reg", r>> /\ \A k \in Kept : k = i => active[k] # r
    BY <1>1, <1>4
  <2> QED BY <1>1, <1>4, <2>1, RegisterIsVacant
<1> QED BY <1>2, <1>3, <1>4

LEMMA TakeKeeps == ScanInv /\ TakeRegister => ScanInv'
<1> SUFFICES ASSUME ScanInv, TakeRegister PROVE ScanInv'
  OBVIOUS
<1> DEFINE r == CHOOSE r \in Freed : TRUE
<1>1. Moves /\ r \in Freed
  BY DEF TakeRegister
<1>2. /\ active' = [j \in Kept \cup {current} |-> IF j = current THEN r ELSE active[j]]
      /\ free' = Freed \ {r}
      /\ location' = Placing(current, <<"reg", r>>)
  BY DEF TakeRegister
<1> HIDE DEF r
<1>3. /\ DOMAIN location' = DOMAIN location \cup {current} /\ location'[current] = <<"reg", r>>
      /\ \A j \in DOMAIN location : location'[j] = location[j]
  BY <1>1, <1>2, StepFacts DEF Placing
<1>4. ScanTypes'
  BY <1>1, <1>2, <1>3, StepFacts DEF ScanInv, ScanTypes
<1>5. Held'
  <2>1. \A j \in Kept : /\ location'[j] = <<"reg", active[j]>> /\ active'[j] = active[j]
                        /\ active[j] \notin free' /\ active[j] # r
    BY <1>1, <1>2, <1>3, StepFacts DEF ScanInv, ScanTypes, Held
  <2>2. location'[current] = <<"reg", active'[current]>> /\ active'[current] = r /\ r \notin free'
    BY <1>2, <1>3
  <2>3. \A j, k \in Kept : active[j] = active[k] => j = k
    BY StepFacts, <1>1 DEF ScanInv, Held
  <2>4. DOMAIN active' = Kept \cup {current}
    BY <1>2
  <2> QED BY <2>1, <2>2, <2>3, <2>4 DEF Held
<1>6. Expired'
  <2> SUFFICES ASSUME NEW j \in DOMAIN location' \ DOMAIN active', location'[j][1] = "reg",
                      NEW k \in current' .. Len(intervals')
               PROVE  intervals'[j].end < intervals'[k].begin
    BY DEF Expired
  <2>1. current \in Nat /\ Len(intervals) \in Nat /\ current' = current + 1 /\ intervals' = intervals
    BY <1>1, StepFacts DEF ScanInv, ScanTypes
  <2>2. k \in current .. Len(intervals)
    BY <2>1
  <2>3. j \in DOMAIN location /\ j \notin Kept /\ location[j][1] = "reg"
    BY <1>2, <1>3
  <2> QED BY <1>1, <2>1, <2>2, <2>3, GoneHasEnded
<1>7. NoSharedRegister'
  BY <1>1, <1>3, StepFacts, PlacedIsAlone
<1> QED BY <1>4, <1>5, <1>6, <1>7 DEF ScanInv

LEMMA EvictKeeps == ScanInv /\ EvictFarthest => ScanInv'
<1> SUFFICES ASSUME ScanInv, EvictFarthest PROVE ScanInv'
  OBVIOUS
<1>1. Moves /\ free' = {}
  BY DEF EvictFarthest
<1>2. PICK e \in Kept :
        /\ active' = [k \in (Kept \ {e}) \cup {current} |-> IF k = current THEN active[e] ELSE active[k]]
        /\ location' = [k \in DOMAIN location \cup {current} |->
                          IF k = e THEN <<"spill", spillSlots>>
                          ELSE IF k = current THEN <<"reg", active[e]>> ELSE location[k]]
  BY DEF EvictFarthest
<1>3. e \in DOMAIN active /\ e \in DOMAIN location /\ e # current
  BY <1>1, <1>2, StepFacts DEF ScanInv, ScanTypes
<1>4. /\ DOMAIN location' = DOMAIN location \cup {current} /\ location'[current] = <<"reg", active[e]>>
      /\ \A j \in DOMAIN location \ {e} : location'[j] = location[j]
      /\ location'[e][1] # "reg"
  BY <1>1, <1>2, <1>3, StepFacts
<1>5. ScanTypes'
  BY <1>1, <1>2, <1>4, StepFacts DEF ScanInv, ScanTypes
<1>6. Held'
  BY <1>1, <1>2, <1>3, <1>4, StepFacts DEF ScanInv, ScanTypes, Held
<1>7. Expired'
  <2> SUFFICES ASSUME NEW j \in DOMAIN location' \ DOMAIN active', location'[j][1] = "reg",
                      NEW k \in current' .. Len(intervals')
               PROVE  intervals'[j].end < intervals'[k].begin
    BY DEF Expired
  <2>1. current \in Nat /\ Len(intervals) \in Nat /\ current' = current + 1 /\ intervals' = intervals
    BY <1>1, StepFacts DEF ScanInv, ScanTypes
  <2>2. k \in current .. Len(intervals)
    BY <2>1
  <2>3. j \in DOMAIN location /\ j \notin Kept /\ location[j][1] = "reg"
    BY <1>2, <1>4
  <2> QED BY <1>1, <2>1, <2>2, <2>3, GoneHasEnded
<1>8. \A k \in Kept : active[k] = active[e] => k = e
  BY <1>1, <1>3, StepFacts DEF ScanInv, Held
<1>9. NoSharedRegister'
  BY <1>1, <1>4, <1>8, PlacedIsAlone
<1> QED BY <1>5, <1>6, <1>7, <1>9 DEF ScanInv

LEMMA SpillKeeps == ScanInv /\ SpillThis => ScanInv'
<1> SUFFICES ASSUME ScanInv, SpillThis PROVE ScanInv'
  OBVIOUS
<1>1. /\ Moves /\ free' = Freed
      /\ active' = [j \in Kept |-> active[j]]
      /\ location' = Placing(current, <<"spill", spillSlots>>)
  BY DEF SpillThis
<1>2. /\ DOMAIN location' = DOMAIN location \cup {current} /\ location'[current][1] # "reg"
      /\ \A j \in DOMAIN location : location'[j] = location[j]
  BY <1>1, StepFacts DEF Placing
<1>3. ScanTypes'
  BY <1>1, <1>2, StepFacts DEF ScanInv, ScanTypes
<1>4. Held'
  BY <1>1, <1>2, StepFacts DEF ScanInv, ScanTypes, Held
<1>5. Expired'
  <2> SUFFICES ASSUME NEW j \in DOMAIN location' \ DOMAIN active', location'[j][1] = "reg",
                      NEW k \in current' .. Len(intervals')
               PROVE  intervals'[j].end < intervals'[k].begin
    BY DEF Expired
  <2>1. current \in Nat /\ Len(intervals) \in Nat /\ current' = current + 1 /\ intervals' = intervals
    BY <1>1, StepFacts DEF ScanInv, ScanTypes
  <2>2. k \in current .. Len(intervals)
    BY <2>1
  <2>3. j \in DOMAIN location /\ j \notin Kept /\ location[j][1] = "reg"
    BY <1>1, <1>2
  <2> QED BY <1>1, <2>1, <2>2, <2>3, GoneHasEnded
<1>6. NoSharedRegister'
  <2> SUFFICES ASSUME NEW i \in DOMAIN location', NEW j \in DOMAIN location',
                      i # j, Overlap(i, j)', location'[i][1] = "reg", location'[i] = location'[j]
               PROVE  FALSE
    BY DEF NoSharedRegister
  <2>1. i \in DOMAIN location /\ j \in DOMAIN location
    BY <1>2
  <2>2. Overlap(i, j)
    BY <1>1, StepFacts DEF Overlap
  <2> QED BY <1>2, <2>1, <2>2 DEF ScanInv, NoSharedRegister
<1> QED BY <1>3, <1>4, <1>5, <1>6 DEF ScanInv

(* The scan starts with nothing placed and every register free, and every  *)
(* interval it meets keeps the invariant (allocate, register_alloc.cpp).   *)
THEOREM ScanIsInductive == AllocationSpec => []ScanInv
<1>1. AllocationInit => ScanInv
  BY DEF AllocationInit, ScanInv, ScanTypes, Held, Expired, NoSharedRegister
<1>2. ScanInv /\ [Allocate]_allocation => ScanInv'
  <2> SUFFICES ASSUME ScanInv, [Allocate]_allocation PROVE ScanInv'
    OBVIOUS
  <2>1. CASE Allocate
    BY <2>1, TakeKeeps, EvictKeeps, SpillKeeps DEF Allocate
  <2>2. CASE UNCHANGED allocation
    <3>1. /\ ScanTypes' /\ Held' /\ Expired'
      BY <2>2 DEF allocation, ScanInv, ScanTypes, Held, Expired, InOrder
    <3>2. NoSharedRegister'
      BY <2>2 DEF allocation, ScanInv, NoSharedRegister, Overlap
    <3> QED BY <3>1, <3>2 DEF ScanInv
  <2> QED BY <2>1, <2>2
<1> QED BY <1>1, <1>2, PTL DEF AllocationSpec

(* Values alive at the same place of the code are never in one register,   *)
(* whatever the code and however few the registers (register_alloc.cpp).   *)
THEOREM NoSharedRegisterAlways == AllocationSpec => []NoSharedRegister
<1>1. ScanInv => NoSharedRegister
  BY DEF ScanInv
<1> QED BY <1>1, ScanIsInductive, PTL
=============================================================================
