------------------------------- MODULE Sync ---------------------------------
(***************************************************************************)
(* The shared objects of Lib/std/sync.nqr.  The spin lock and the once     *)
(* cell, used together the way a lazily initialised shared object is: one  *)
(* thread claims and completes the initialisation, and all take the lock   *)
(* with a bounded number of attempts to increment cell.shared, a plain     *)
(* variable, in two steps.  cell.lock and cell.once are the two words;     *)
(* cell.built counts how often the initialiser ran.  Then the counting     *)
(* semaphore.                                                              *)
(***************************************************************************)
EXTENDS ThreadSystem

Unclaimed == 0
Claimed == 1
Complete == 2

LockInit ==
  /\ object = "lock"
  /\ cell = [lock |-> 0, once |-> Unclaimed, shared |-> 0, built |-> 0]
  /\ pc = [t \in Contenders |-> "claim"]
  /\ local = [t \in Contenders |-> [seen |-> 0, attempt |-> 0, rounds |-> 0]]

(* Mutant: a thread that loses the claim takes the object for built. *)
TryBeginNoWait(t) ==
  /\ IF cell.once = Unclaimed
     THEN cell' = [cell EXCEPT !.once = Claimed] /\ Goto(t, "claim", "build")
     ELSE UNCHANGED cell /\ Goto(t, "claim", "outside")
  /\ UNCHANGED local

(* sync_once_try_begin: one compare-exchange. *)
TryBegin(t) ==
  /\ IF cell.once = Unclaimed
     THEN cell' = [cell EXCEPT !.once = Claimed] /\ Goto(t, "claim", "build")
     ELSE UNCHANGED cell /\ Goto(t, "claim", "await")
  /\ UNCHANGED local

(* The caller's initialiser, then sync_once_complete. *)
Build(t) ==
  /\ Goto(t, "build", "complete")
  /\ cell' = [cell EXCEPT !.built = @ + 1]
  /\ UNCHANGED local

CompleteOnce(t) ==
  /\ Goto(t, "complete", "outside")
  /\ cell' = [cell EXCEPT !.once = Complete]
  /\ UNCHANGED local

(* sync_once_done, polled by the threads that lost the claim. *)
Await(t) ==
  /\ cell.once = Complete
  /\ Goto(t, "await", "outside")
  /\ UNCHANGED <<cell, local>>

(* sync_spin_lock_for(lock, Attempts): each attempt one compare-exchange. *)
LockFor(t) ==
  /\ local[t].rounds < Rounds
  /\ Goto(t, "outside", "trying")
  /\ local' = [local EXCEPT ![t].attempt = 0, ![t].rounds = @ + 1]
  /\ UNCHANGED cell

(* Mutant: what the exchange returned is not looked at. *)
TryLockBlind(t) ==
  /\ local[t].attempt < Attempts
  /\ Goto(t, "trying", "load")
  /\ cell' = [cell EXCEPT !.lock = 1]
  /\ UNCHANGED local

TryLock(t) ==
  /\ pc[t] = "trying" /\ local[t].attempt < Attempts
  /\ IF cell.lock = 0
     THEN cell' = [cell EXCEPT !.lock = 1] /\ Goto(t, "trying", "load") /\ UNCHANGED local
     ELSE local' = [local EXCEPT ![t].attempt = @ + 1] /\ UNCHANGED <<cell, pc>>

GiveUp(t) ==
  /\ local[t].attempt >= Attempts
  /\ Goto(t, "trying", "outside")
  /\ UNCHANGED <<cell, local>>

Load(t) ==
  /\ Goto(t, "load", "store")
  /\ local' = [local EXCEPT ![t].seen = cell.shared]
  /\ UNCHANGED cell

Store(t) ==
  /\ Goto(t, "store", "unlock")
  /\ cell' = [cell EXCEPT !.shared = local[t].seen + 1]
  /\ UNCHANGED local

(* sync_spin_unlock: an unconditional store. *)
Unlock(t) ==
  /\ Goto(t, "unlock", "outside")
  /\ cell' = [cell EXCEPT !.lock = 0]
  /\ UNCHANGED local

LockStep(t) ==
  \/ TryBegin(t) \/ Build(t) \/ CompleteOnce(t) \/ Await(t)
  \/ LockFor(t) \/ TryLock(t) \/ GiveUp(t) \/ Load(t) \/ Store(t) \/ Unlock(t)

LockNext == object = "lock" /\ UNCHANGED object /\ \E t \in Contenders : LockStep(t)

-----------------------------------------------------------------------------
Critical == {"load", "store", "unlock"}
Holds(t) == pc[t] \in Critical

LockTypeOK ==
  /\ cell \in [lock : {0, 1}, once : {Unclaimed, Claimed, Complete}, shared : Nat, built : Nat]
  /\ pc \in [Contenders -> Critical \cup {"claim", "build", "complete", "await", "outside", "trying"}]
  /\ local \in [Contenders -> [seen : Nat, attempt : 0 .. Attempts, rounds : 0 .. Rounds]]

(* At most one thread is between a successful attempt and its unlock, the  *)
(* lock word says so, and no increment made under the lock is lost: what a *)
(* thread has loaded is still there when it stores (sync_spin_try_lock,    *)
(* sync_spin_unlock).                                                      *)
MutualExclusion ==
  object = "lock" =>
    /\ \A s, t \in Contenders : Holds(s) /\ Holds(t) => s = t
    /\ cell.lock = 1 <=> \E t \in Contenders : Holds(t)
    /\ \A t \in Contenders : pc[t] = "store" => local[t].seen = cell.shared

(* The initialiser runs at most once, and every thread that got past the   *)
(* once cell finds it finished (sync_once_try_begin, sync_once_done).      *)
BuiltBeforeUse ==
  object = "lock" =>
    /\ cell.built <= 1
    /\ \A t \in Contenders :
         pc[t] \in Critical \cup {"outside", "trying"} => cell.built = 1 /\ cell.once = Complete

-----------------------------------------------------------------------------
(* The semaphore, and atomic_update_max_u64 of Lib/std/atomic.nqr, which   *)
(* has the same shape: load a word, then compare-exchange until no other   *)
(* thread came between.  Each thread takes a permit and gives it back;     *)
(* meanwhile it raises a shared high-water mark, cell.peak, to the number  *)
(* of permits in use it knows of.                                          *)
SemInit ==
  /\ object = "semaphore"
  /\ cell = [permits |-> Permits, peak |-> 0]
  /\ pc = [t \in Contenders |-> "idle"]
  /\ local = [t \in Contenders |-> [current |-> 0, mark |-> 0, reported |-> 0, rounds |-> 0]]

(* sync_semaphore_try_acquire. *)
AcquireLoad(t) ==
  /\ local[t].rounds < Rounds
  /\ Goto(t, "idle", "acquiring")
  /\ local' = [local EXCEPT ![t].current = cell.permits, ![t].rounds = @ + 1]
  /\ UNCHANGED cell

AcquireRefused(t) ==
  /\ local[t].current = 0
  /\ Goto(t, "acquiring", "idle")
  /\ UNCHANGED <<cell, local>>

(* One compare-exchange; a lost one leaves the word that was observed. *)
Exchange(t) ==
  IF cell.permits = local[t].current
  THEN /\ cell' = [cell EXCEPT !.permits = local[t].current - 1]
       /\ Goto(t, "acquiring", "held")
       /\ UNCHANGED local
  ELSE /\ pc[t] = "acquiring"
       /\ local' = [local EXCEPT ![t].current = cell.permits]
       /\ UNCHANGED <<cell, pc>>

AcquireExchange(t) == local[t].current > 0 /\ Exchange(t)

(* The candidate is the number of permits in use that this thread computed *)
(* from its own exchange.                                                  *)
Candidate(t) == Permits - local[t].current + 1

MaxLoad(t) ==
  /\ Goto(t, "held", "raising")
  /\ local' = [local EXCEPT ![t].mark = cell.peak]
  /\ UNCHANGED cell

Reported(t) ==
  /\ Goto(t, "raising", "raised")
  /\ local' = [local EXCEPT ![t].reported = Candidate(t)]

(* Mutant: the candidate is stored without an exchange. *)
MaxStores(t) ==
  /\ Reported(t)
  /\ cell' = IF Candidate(t) > local[t].mark THEN [cell EXCEPT !.peak = Candidate(t)] ELSE cell

MaxExchange(t) ==
  IF Candidate(t) <= local[t].mark THEN Reported(t) /\ UNCHANGED cell
  ELSE IF cell.peak = local[t].mark
  THEN Reported(t) /\ cell' = [cell EXCEPT !.peak = Candidate(t)]
  ELSE /\ pc[t] = "raising"
       /\ local' = [local EXCEPT ![t].mark = cell.peak]
       /\ UNCHANGED <<cell, pc>>

(* sync_semaphore_release: on a lost exchange the word is loaded again. *)
ReleaseLoad(t) ==
  /\ Goto(t, "raised", "releasing") \/ Goto(t, "retry", "releasing")
  /\ local' = [local EXCEPT ![t].current = cell.permits]
  /\ UNCHANGED cell

GiveBack(t) == cell' = [cell EXCEPT !.permits = (local[t].current + 1) % Word]

(* Mutant: the permit is given back with a plain store. *)
ReleaseStores(t) == Goto(t, "releasing", "idle") /\ GiveBack(t) /\ UNCHANGED local

(* Mutant: after a lost exchange the old word is tried again. *)
ReleaseStale(t) ==
  cell.permits = local[t].current /\ Goto(t, "releasing", "idle") /\ GiveBack(t) /\ UNCHANGED local

ReleaseExchange(t) ==
  /\ IF cell.permits = local[t].current
     THEN Goto(t, "releasing", "idle") /\ GiveBack(t)
     ELSE Goto(t, "releasing", "retry") /\ UNCHANGED cell
  /\ UNCHANGED local

SemStep(t) ==
  \/ AcquireLoad(t) \/ AcquireRefused(t) \/ AcquireExchange(t)
  \/ MaxLoad(t) \/ MaxExchange(t) \/ ReleaseLoad(t) \/ ReleaseExchange(t)

SemNext == object = "semaphore" /\ UNCHANGED object /\ \E t \in Contenders : SemStep(t)

-----------------------------------------------------------------------------
Holding == {"held", "raising", "raised", "retry", "releasing"}
Holders == {t \in Contenders : pc[t] \in Holding}

SemTypeOK ==
  /\ cell \in [permits : 0 .. Word - 1, peak : 0 .. Permits]
  /\ pc \in [Contenders -> Holding \cup {"idle", "acquiring"}]
  /\ local \in [Contenders -> [current : 0 .. Word - 1, mark : 0 .. Permits,
                             reported : 0 .. Permits, rounds : 0 .. Rounds]]

(* No permit is lost or invented by exchanges that race: permits in the    *)
(* word and permits held always add up to what the semaphore was created   *)
(* with, so that never more than Permits threads hold one.                 *)
PermitsConserved == object = "semaphore" => cell.permits + Cardinality(Holders) = Permits

(* The mark never falls behind the use of permits any thread has reported, *)
(* now or in the past, in spite of exchanges that raise it at the same     *)
(* time (atomic_update_max_u64).                                           *)
PeakCoversReports ==
  object = "semaphore" => \A t \in Contenders : local[t].reported <= cell.peak

(* sync_semaphore_release succeeds in the end, although every failed       *)
(* exchange makes it start again.                                          *)
PermitsComeBack ==
  \A t \in Contenders :
    object = "semaphore" /\ pc[t] = "held" ~> object = "semaphore" /\ pc[t] = "idle"
=============================================================================
