--------------------------- MODULE ContainerSystem ---------------------------
(***************************************************************************)
(* What the containers of Lib/std have in common: one caller at a time     *)
(* calls functions on a record over storage of its own.  Ring, Deque,      *)
(* Channel, Pool, LruCache and BinaryHeap (which has the priority queue    *)
(* too) model the containers on these variables; `object` says which one a *)
(* behaviour is about.  A null pointer is refused by every function and is *)
(* left out, as are statistics that no function reads.                     *)
(***************************************************************************)
EXTENDS Integers, SequencesExt, TLC

CONSTANTS
  Values,       \* what a container may hold
  Junk,         \* what the caller's storage holds before it is used
  Capacities,   \* the capacities a container may have
  Word,         \* 2^w: counters are w-bit words, 64 bits in the code
  Keys,         \* the keys of a cache
  Stored,       \* the values of a cache, and the priorities of a priority queue
  ClockLimit,   \* cache_clock_limit(), 2^63 - 2 in the code
  ClockEnd,     \* bound: where a cache's clock is not followed any further
  Handles,      \* the caller's variables of type PoolHandle
  MaxGeneration,\* pool_max_generation(), 2^63 - 2 in the code
  MaxSequence   \* bound: how often a priority queue is pushed between clears

ASSUME ContainerAssumption ==
  /\ Junk \notin Values
  /\ Capacities \subseteq Nat
  /\ \E n \in Capacities : n > 0 /\ \A m \in Capacities : m <= n
  /\ Word \in Nat \ {0} /\ ClockLimit \in Nat \ {0, 1} /\ ClockEnd \in Nat /\ ClockEnd > ClockLimit
  /\ MaxGeneration \in Nat \ {0} /\ MaxSequence \in Nat

VARIABLES
  object, \* the kind of container this behaviour is about
  store,  \* the container: its record and the storage it points to
  call    \* the last call: <<what it asked for, its argument, its answer>>

vars == <<object, store, call>>

Answer(op, arg, result) == call' = <<op, arg, result>> /\ UNCHANGED object

(* A call that is refused or only looks. *)
Stay(op, arg, result) == Answer(op, arg, result) /\ UNCHANGED store

Smaller(m, n) == IF m < n THEN m ELSE n

Slots(n) == 0 .. n - 1

(* A loop over i = 1 .. n, whose body makes F(y, i) of what it finds, y.   *)
Loop(F(_, _), x, n) ==
  LET after[i \in 0 .. n] == IF i = 0 THEN x ELSE F(after[i - 1], i) IN after[n]

(* The body is the same each time. *)
Iterate(F(_), x, n) ==
  LET after[i \in 0 .. n] == IF i = 0 THEN x ELSE F(after[i - 1]) IN after[n]

Counts == Slots(CHOOSE n \in Capacities : \A m \in Capacities : m <= n) \cup Capacities
=============================================================================
