---------------------------- MODULE ThreadSystem ----------------------------
(***************************************************************************)
(* What the concurrent objects of Lib/std have in common: threads that     *)
(* step through calls on words they share.  TaskCell and Sync each model   *)
(* objects on these variables; `object` says which one a behaviour is      *)
(* about.  A step is one atomic operation or one plain load or store;      *)
(* atomic operations and fences are sequentially consistent                *)
(* (Doc/MATURITY_1_6.md:54).                                               *)
(***************************************************************************)
EXTENDS Naturals, FiniteSets

CONSTANTS
  Workers,     \* threads that try to start a task and then finish it
  Cancellers,  \* threads that call task_cancel
  Readers,     \* threads that call task_value_or and task_error
  NoOne,       \* the author of a task's fallback value and of error 0
  Contenders,  \* threads that share a lock or a semaphore
  Attempts,    \* the argument of sync_spin_lock_for
  Permits,     \* the argument of sync_semaphore_init
  Word,        \* 2^w: permits is a w-bit word, 64 bits in the code
  Rounds       \* bound: how often a contender locks or acquires

ASSUME RolesAssumption ==
  /\ Workers \cap Cancellers = {} /\ Workers \cap Readers = {}
  /\ Cancellers \cap Readers = {} /\ NoOne \notin Workers
  /\ (Workers \cup {NoOne}) \cap {"none", "false", "completed", "failed", "cancelled"} = {}

ASSUME ContendersAssumption ==
  /\ IsFiniteSet(Contenders)
  /\ Attempts \in Nat /\ Rounds \in Nat
  /\ Permits \in Nat /\ Word \in Nat /\ Permits < Word

VARIABLES
  object, \* the kind of object this behaviour is about
  cell,   \* the object: a record of shared words
  pc,     \* thread -> the next step of its call
  local   \* thread -> the local variables of its call

vars == <<object, cell, pc, local>>

Goto(t, from, to) == pc[t] = from /\ pc' = [pc EXCEPT ![t] = to]
=============================================================================
