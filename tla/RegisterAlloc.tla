--------------------------- MODULE RegisterAlloc ---------------------------
(***************************************************************************)
(* Compiler/register_alloc.cpp: linear scan over the live intervals of a   *)
(* function, in the order they begin.  `active` maps the intervals that    *)
(* hold a register to it, by their place in `intervals`; `location` maps   *)
(* the intervals placed so far to <<"reg", r>> or <<"spill", slot>>.       *)
(* A value is defined once, so that its place stands for it.  The stack of *)
(* free registers is a set: which of them is taken is a matter of names.   *)
(***************************************************************************)
EXTENDS Integers, Sequences

CONSTANT Registers

VARIABLES intervals, current, active, free, location, spillSlots

allocation == <<intervals, current, active, free, location, spillSlots>>

Interval == [value : Nat, begin : Nat, end : Nat, wide : BOOLEAN]

(* From the place of its definition to its last use after it; a value of   *)
(* more than a word is wide.                                               *)
LastUse(code, p) ==
  LET uses == {p} \cup {q \in DOMAIN code : q > p /\ \E a \in DOMAIN code[q].args : code[q].args[a] = code[p].dest}
  IN  CHOOSE q \in uses : \A u \in uses : u <= q
(* Mutant: an interval begins after the definition it is for.              *)
CollectedLate(code, wide) ==
  LET defined == SelectSeq([p \in DOMAIN code |-> p], LAMBDA p : code[p].dest >= 0) IN
  [k \in DOMAIN defined |-> LET p == defined[k] IN
     [value |-> code[p].dest, begin |-> p, end |-> LastUse(code, p) - 1, wide |-> code[p].dest \in wide]]

Collected(code, wide) ==
  LET defined == SelectSeq([p \in DOMAIN code |-> p], LAMBDA p : code[p].dest >= 0) IN
  [k \in DOMAIN defined |-> LET p == defined[k] IN
     [value |-> code[p].dest, begin |-> p - 1, end |-> LastUse(code, p) - 1, wide |-> code[p].dest \in wide]]

(* Sorted by where they begin, and none ends before.                       *)
InOrder(ivs) ==
  /\ \A i \in DOMAIN ivs : ivs[i].begin <= ivs[i].end
  /\ \A i, j \in DOMAIN ivs : i < j => ivs[i].begin <= ivs[j].begin

Allocating(ivs) ==
  /\ intervals' = ivs
  /\ current' = 1
  /\ active' = [i \in {} |-> 0]
  /\ free' = Registers
  /\ location' = [i \in {} |-> <<"spill", 0>>]
  /\ spillSlots' = 0

-----------------------------------------------------------------------------
(* Each step first expires the intervals that end before this one begins.  *)
This == intervals[current]
KeptLonger == {j \in DOMAIN active : intervals[j].end > This.begin}

Kept == {j \in DOMAIN active : intervals[j].end >= This.begin}

Freed == free \cup {active[j] : j \in DOMAIN active \ Kept}
IsFarthest(j) == \A k \in Kept : intervals[k].end <= intervals[j].end
Evictable(j) == ~This.wide /\ IsFarthest(j) /\ intervals[j].end > This.end

Placing(i, where) == [j \in DOMAIN location \cup {i} |-> IF j = i THEN where ELSE location[j]]
Moves == current <= Len(intervals) /\ current' = current + 1 /\ UNCHANGED intervals

TakeRegister ==
  /\ Moves
  /\ ~This.wide /\ Freed # {}
  /\ LET r == CHOOSE r \in Freed : TRUE
     IN  /\ active' = [j \in Kept \cup {current} |-> IF j = current THEN r ELSE active[j]]
         /\ free' = Freed \ {r}
         /\ location' = Placing(current, <<"reg", r>>)
  /\ UNCHANGED spillSlots

(* The interval that ends last gives its register up and is spilled.       *)
EvictFarthest ==
  /\ Moves
  /\ Freed = {}
  /\ \E j \in Kept :
       /\ Evictable(j)
       /\ active' = [k \in (Kept \ {j}) \cup {current} |-> IF k = current THEN active[j] ELSE active[k]]
       /\ location' = [k \in DOMAIN location \cup {current} |->
                         IF k = j THEN <<"spill", spillSlots>>
                         ELSE IF k = current THEN <<"reg", active[j]>> ELSE location[k]]
  /\ free' = {}
  /\ spillSlots' = spillSlots + 1

SpillThis ==
  /\ Moves
  /\ This.wide \/ (Freed = {} /\ ~\E j \in Kept : Evictable(j))
  /\ active' = [j \in Kept |-> active[j]]
  /\ free' = Freed
  /\ location' = Placing(current, <<"spill", spillSlots>>)
  /\ spillSlots' = spillSlots + 1

Allocate == TakeRegister \/ EvictFarthest \/ SpillThis

AllocationInit ==
  /\ intervals \in Seq(Interval) /\ InOrder(intervals)
  /\ current = 1
  /\ active = [i \in {} |-> 0]
  /\ free = Registers
  /\ location = [i \in {} |-> <<"spill", 0>>]
  /\ spillSlots = 0
AllocationSpec == AllocationInit /\ [][Allocate]_allocation

-----------------------------------------------------------------------------
Overlap(i, j) == intervals[i].begin <= intervals[j].end /\ intervals[j].begin <= intervals[i].end

(* Two values that are alive at the same place of the code are never kept  *)
(* in the same register (allocate, register_alloc.cpp:12).                 *)
NoSharedRegister ==
  \A i, j \in DOMAIN location :
    i # j /\ Overlap(i, j) /\ location[i][1] = "reg" => location[i] # location[j]
=============================================================================
