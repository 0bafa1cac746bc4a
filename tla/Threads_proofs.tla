--------------------------- MODULE Threads_proofs ---------------------------
(***************************************************************************)
(* Proofs about Threads: the task cell, for any number of workers,         *)
(* cancellers and readers, then the lock, the once cell and the semaphore, *)
(* for any number of threads, of attempts, of rounds and of permits.       *)
(***************************************************************************)
EXTENDS Threads, FiniteSetTheorems, TLAPS

(* A behaviour about another object is not the concern of these proofs.    *)
Typed == object = "task" => TaskTypeOK

(* The initial state has its type, for the discipline and without it. *)
LEMMA InitTypes == Init => Typed
  BY DEF Init, TaskInit, LockInit, SemInit, Typed, TaskTypeOK, States, Results, Labels, Pending

(* The object never changes, and a task takes the steps of a task. *)
LEMMA OwnSteps ==
  ASSUME [Next]_vars, object' = "task"
  PROVE  object = "task" /\ (TaskNext \/ UNCHANGED vars)
  BY DEF Next, TaskNext, LockNext, SemNext, vars

(* Every step of every call keeps the types. *)
LEMMA StepTypes == Typed /\ [Next]_vars => Typed'
<1> SUFFICES ASSUME TaskTypeOK, TaskNext \/ UNCHANGED vars PROVE TaskTypeOK'
  BY OwnSteps DEF Typed
<1> USE DEF TaskTypeOK, States, Results, Labels, Pending, Running, Ready, Failed, Cancelled, Goto, Return
<1>1. ASSUME NEW w \in Workers, TryStart(w) PROVE TaskTypeOK'
  BY <1>1 DEF TryStart, Lost, Callers
<1>2. ASSUME NEW w \in Workers, Work(w) PROVE TaskTypeOK'
  <2>1. CASE CompleteCheck(w) BY <2>1 DEF CompleteCheck, Check, Callers
  <2>2. CASE CompleteStoreValue(w) BY <2>2 DEF CompleteStoreValue, Callers
  <2>3. CASE CompleteClearError(w) BY <2>3 DEF CompleteClearError, Callers
  <2>4. CASE CompleteExchange(w) BY <2>4 DEF CompleteExchange, Decide, Callers
  <2>5. CASE FailCheck(w) BY <2>5 DEF FailCheck, Check, Callers
  <2>6. CASE FailStoreError(w) BY <2>6 DEF FailStoreError, Callers
  <2>7. CASE FailExchange(w) BY <2>7 DEF FailExchange, Decide, Callers
  <2> QED BY <1>2, <2>1, <2>2, <2>3, <2>4, <2>5, <2>6, <2>7 DEF Work
<1>3. ASSUME NEW c \in Cancellers, Cancel(c) PROVE TaskTypeOK'
  <2>1. CASE CancelLoad(c) BY <2>1 DEF CancelLoad, Callers
  <2>2. CASE CancelExchange(c) BY <2>2 DEF CancelExchange, Callers
  <2> QED BY <1>3, <2>1, <2>2 DEF Cancel
<1>4. ASSUME NEW r \in Readers, Read(r) PROVE TaskTypeOK'
  BY <1>4 DEF Read, ReadState, LoadValue, LoadError, Callers
<1>5. CASE UNCHANGED vars BY <1>5 DEF vars
<1> QED BY <1>1, <1>2, <1>3, <1>4, <1>5 DEF TaskNext

(* Types: the shared words, the program counters and the local variables   *)
(* of a task's calls stay within their sets.                               *)
THEOREM TypeCorrect == Spec => [](object = "task" => TaskTypeOK)
  BY InitTypes, StepTypes, PTL DEF Spec, Typed

-----------------------------------------------------------------------------
(* What a call returned belongs to the thread that made it, and no value   *)
(* is mistaken for a verdict.                                              *)
LEMMA AnswersApart ==
  ASSUME TaskTypeOK
  PROVE  /\ cell.value \notin Verdicts /\ cell.error \notin Verdicts
         /\ cell.value # "false" /\ cell.error # "false"
  BY RolesAssumption DEF TaskTypeOK, Verdicts

(* OneVerdict is inductive: as long as the task is not decided nobody has  *)
(* been told a verdict, and each verdict comes with the exchange that      *)
(* decides it.                                                             *)
LEMMA InitVerdict == Init => OneVerdict
  BY DEF Init, TaskInit, LockInit, SemInit, OneVerdict, Told, Verdicts

LEMMA StepVerdict == Typed /\ OneVerdict /\ [Next]_vars => OneVerdict'
<1> SUFFICES ASSUME TaskTypeOK, object = "task", OneVerdict, TaskNext \/ UNCHANGED vars,
                    object' = "task"
             PROVE  OneVerdict'
  BY OwnSteps DEF Typed, OneVerdict
<1> USE DEF TaskTypeOK, OneVerdict, Told, Verdicts, Goto, Return,
            Pending, Running, Ready, Failed, Cancelled
<1>1. ASSUME NEW w \in Workers, TryStart(w) PROVE OneVerdict'
  BY <1>1 DEF TryStart, Lost, Callers
<1>2. ASSUME NEW w \in Workers, Work(w) PROVE OneVerdict'
  <2>1. CASE CompleteCheck(w) BY <2>1 DEF CompleteCheck, Check, Callers
  <2>2. CASE CompleteStoreValue(w) BY <2>2 DEF CompleteStoreValue
  <2>3. CASE CompleteClearError(w) BY <2>3 DEF CompleteClearError
  <2>4. CASE CompleteExchange(w) BY <2>4 DEF CompleteExchange, Decide, Callers
  <2>5. CASE FailCheck(w) BY <2>5 DEF FailCheck, Check, Callers
  <2>6. CASE FailStoreError(w) BY <2>6 DEF FailStoreError
  <2>7. CASE FailExchange(w) BY <2>7 DEF FailExchange, Decide, Callers
  <2> QED BY <1>2, <2>1, <2>2, <2>3, <2>4, <2>5, <2>6, <2>7 DEF Work
<1>3. ASSUME NEW c \in Cancellers, Cancel(c) PROVE OneVerdict'
  <2>1. CASE CancelLoad(c) BY <2>1 DEF CancelLoad, Callers
  <2>2. CASE CancelExchange(c) BY <2>2 DEF CancelExchange, Callers, task_terminal
  <2> QED BY <1>3, <2>1, <2>2 DEF Cancel
<1>4. ASSUME NEW r \in Readers, Read(r) PROVE OneVerdict'
  BY <1>4, AnswersApart DEF Read, ReadState, LoadValue, LoadError, Callers
<1>5. CASE UNCHANGED vars BY <1>5 DEF vars
<1> QED BY <1>1, <1>2, <1>3, <1>4, <1>5 DEF TaskNext

(* However many threads complete, fail and cancel, at most one call is     *)
(* told that it decided the outcome, and the state agrees with it.         *)
THEOREM OneVerdictAlways == Spec => []OneVerdict
  BY InitTypes, StepTypes, InitVerdict, StepVerdict, PTL DEF Spec

-----------------------------------------------------------------------------
(* A canceller's copy of the state is terminal only if the state is, and   *)
(* a terminal state is never left.                                         *)
Decided == task_terminal(cell.state)

CopiesAreOlder ==
  object = "task" =>
    \A c \in Cancellers :
      /\ task_terminal(local[c].observed) => Decided
      /\ Told(c) = "false" => Decided

(* No step leaves a terminal state. *)
LEMMA DecidedForGood ==
  ASSUME TaskTypeOK, Decided, TaskNext \/ UNCHANGED vars PROVE Decided'
  BY DEF TaskNext, vars, TaskTypeOK, Decided, task_terminal, TryStart, Lost, Work, CompleteCheck, Check,
         CompleteStoreValue, CompleteClearError, CompleteExchange, Decide, FailCheck,
         FailStoreError, FailExchange, Cancel, CancelLoad, CancelExchange, Read, ReadState,
         LoadValue, LoadError, Goto, Return, Pending, Running, Ready, Failed, Cancelled

LEMMA InitCopies == Init => CopiesAreOlder
  BY DEF Init, TaskInit, LockInit, SemInit, CopiesAreOlder, Told, Decided, task_terminal, Callers,
         Pending, Ready, Failed, Cancelled

LEMMA StepCopies == Typed /\ CopiesAreOlder /\ [Next]_vars => CopiesAreOlder'
<1> SUFFICES ASSUME TaskTypeOK, object = "task", CopiesAreOlder, TaskNext \/ UNCHANGED vars
             PROVE  CopiesAreOlder'
  BY OwnSteps DEF Typed, CopiesAreOlder
<1> USE DEF TaskTypeOK, Goto, Return, Callers
<1>0. Decided => Decided'
  BY DecidedForGood
<1>1. ASSUME NEW c \in Cancellers, Cancel(c) PROVE CopiesAreOlder'
  <2>1. CASE CancelLoad(c)
    BY <2>1, <1>0 DEF CancelLoad, CopiesAreOlder, Told, Decided
  <2>2. CASE CancelExchange(c)
    BY <2>2, <1>0 DEF CancelExchange, CopiesAreOlder, Told, Decided
  <2> QED BY <1>1, <2>1, <2>2 DEF Cancel
<1>2. CASE \A c \in Cancellers : local'[c] = local[c]
  BY <1>0, <1>2 DEF CopiesAreOlder, Told, Decided
<1>3. ASSUME NEW w \in Workers, TryStart(w) \/ Work(w) PROVE \A c \in Cancellers : local'[c] = local[c]
  BY <1>3, RolesAssumption DEF TryStart, Work, CompleteCheck, Check, CompleteStoreValue,
     CompleteClearError, CompleteExchange, Decide, FailCheck, FailStoreError, FailExchange
<1>4. ASSUME NEW r \in Readers, Read(r) PROVE \A c \in Cancellers : local'[c] = local[c]
  BY <1>4, RolesAssumption DEF Read, ReadState, LoadValue, LoadError
<1>5. CASE UNCHANGED vars BY <1>2, <1>5 DEF vars
<1> QED BY <1>1, <1>2, <1>3, <1>4, <1>5 DEF TaskNext

(* task_cancel answers false only for a task that is decided: losing its   *)
(* exchange to a start does not make it give up.                           *)
THEOREM RefusedCancelAlways == Spec => []RefusedCancelMeansDecided
<1>1. CopiesAreOlder => RefusedCancelMeansDecided
  BY DEF CopiesAreOlder, RefusedCancelMeansDecided, Decided
<1> QED BY <1>1, InitTypes, StepTypes, InitCopies, StepCopies, PTL DEF Spec

-----------------------------------------------------------------------------
(* Where only the starter finishes a task there is at most one owner, and  *)
(* what it has stored stays until the state says it may be read.           *)
Finishing == {"started", "storeValue", "clearError", "publish", "storeError", "publishFailure"}
Finished(w) == Told(w) \in {"completed", "failed"}
Owner(w) == pc[w] \in Finishing \/ Finished(w)

OneOwner ==
  /\ \A v, w \in Workers : Owner(v) /\ Owner(w) => v = w
  /\ \A w \in Workers : Owner(w) => cell.state # Pending
  /\ \A w \in Workers : Told(w) # "none" => pc[w] = "done"

StoresArePublished ==
  /\ cell.state = Ready => \E w \in Workers : Told(w) = "completed" /\ cell.value = w
  /\ cell.state = Failed => \E w \in Workers : Told(w) = "failed" /\ cell.error = w
  /\ \A w \in Workers :
       /\ pc[w] \in {"clearError", "publish"} => cell.value = w
       /\ pc[w] = "publishFailure" => cell.error = w

ReadersWait ==
  \A r \in Readers :
    /\ pc[r] = "loadValue" => cell.state = Ready
    /\ pc[r] = "loadError" => cell.state = Failed
    /\ Told(r) # NoOne
    /\ \A w \in Workers : Told(r) = w => Finished(w)

Owned ==
  object = "task" /\ cell.ownerOnly => OneOwner /\ StoresArePublished /\ ReadersWait

LEMMA InitOwned == Init => Owned
  BY RolesAssumption
  DEF Init, TaskInit, LockInit, SemInit, Owned, OneOwner, StoresArePublished, ReadersWait, Owner,
      Finished, Finishing, Told, Callers, Pending, Ready, Failed

LEMMA StepOwned == Typed /\ Owned /\ [Next]_vars => Owned'
<1> SUFFICES ASSUME TaskTypeOK, OneOwner, StoresArePublished, ReadersWait, object = "task",
                    TaskNext \/ UNCHANGED vars, cell.ownerOnly
             PROVE  OneOwner' /\ StoresArePublished' /\ ReadersWait'
  <2>1. TaskTypeOK /\ (TaskNext \/ UNCHANGED vars) => cell'.ownerOnly = cell.ownerOnly
    BY DEF TaskNext, vars, TaskTypeOK, TryStart, Lost, Work, CompleteCheck, Check,
         CompleteStoreValue, CompleteClearError, CompleteExchange, Decide, FailCheck,
         FailStoreError, FailExchange, Cancel, CancelLoad, CancelExchange, Read, ReadState,
         LoadValue, LoadError, Goto, Return
  <2> QED BY <2>1, OwnSteps DEF Typed, Owned
<1> USE RolesAssumption
    DEF TaskTypeOK, Goto, Return, Callers, Told, Finished, Finishing, Owner,
        Pending, Running, Ready, Failed, Cancelled
<1>1. ASSUME NEW w \in Workers, TryStart(w) \/ Work(w)
      PROVE  OneOwner' /\ StoresArePublished' /\ ReadersWait'
  <2>1. CASE TryStart(w) BY <2>1 DEF TryStart, Lost, OneOwner, StoresArePublished, ReadersWait
  <2>2. CASE CompleteCheck(w) BY <2>2 DEF CompleteCheck, Check, OneOwner, StoresArePublished, ReadersWait
  <2>3. CASE CompleteStoreValue(w) BY <2>3 DEF CompleteStoreValue, OneOwner, StoresArePublished, ReadersWait
  <2>4. CASE CompleteClearError(w) BY <2>4 DEF CompleteClearError, OneOwner, StoresArePublished, ReadersWait
  <2>5. CASE CompleteExchange(w) BY <2>5 DEF CompleteExchange, Decide, OneOwner, StoresArePublished, ReadersWait
  <2>6. CASE FailCheck(w) BY <2>6 DEF FailCheck, Check, OneOwner, StoresArePublished, ReadersWait
  <2>7. CASE FailStoreError(w) BY <2>7 DEF FailStoreError, OneOwner, StoresArePublished, ReadersWait
  <2>8. CASE FailExchange(w) BY <2>8 DEF FailExchange, Decide, OneOwner, StoresArePublished, ReadersWait
  <2> QED BY <1>1, <2>1, <2>2, <2>3, <2>4, <2>5, <2>6, <2>7, <2>8 DEF Work
<1>2. ASSUME NEW c \in Cancellers, Cancel(c)
      PROVE  OneOwner' /\ StoresArePublished' /\ ReadersWait'
  <2>1. CASE CancelLoad(c) BY <2>1 DEF CancelLoad, OneOwner, StoresArePublished, ReadersWait
  <2>2. CASE CancelExchange(c)
    BY <2>2 DEF CancelExchange, task_terminal, OneOwner, StoresArePublished, ReadersWait
  <2> QED BY <1>2, <2>1, <2>2 DEF Cancel
<1>3. ASSUME NEW r \in Readers, Read(r)
      PROVE  OneOwner' /\ StoresArePublished' /\ ReadersWait'
  <2>1. CASE ReadState(r) BY <2>1 DEF ReadState, OneOwner, StoresArePublished, ReadersWait
  <2>2. CASE LoadValue(r) BY <2>2 DEF LoadValue, OneOwner, StoresArePublished, ReadersWait
  <2>3. CASE LoadError(r) BY <2>3 DEF LoadError, OneOwner, StoresArePublished, ReadersWait
  <2> QED BY <1>3, <2>1, <2>2, <2>3 DEF Read
<1>4. CASE UNCHANGED vars BY <1>4 DEF vars, OneOwner, StoresArePublished, ReadersWait
<1> QED BY <1>1, <1>2, <1>3, <1>4 DEF TaskNext

(* Where only the starter finishes a task, task_value_or and task_error    *)
(* answer what the thread stored that decided the outcome.                 *)
THEOREM ReadersAlways == Spec => []ReadersSeeTheVerdict
<1>1. Owned => ReadersSeeTheVerdict
  BY DEF Owned, ReadersWait, ReadersSeeTheVerdict, Finished
<1> QED BY <1>1, InitTypes, StepTypes, InitOwned, StepOwned, PTL DEF Spec

-----------------------------------------------------------------------------
(* A behaviour about another object is not the concern of these proofs.    *)
LockTyped == object = "lock" => LockTypeOK

(* The object never changes, and a lock takes the steps of a lock. *)
LEMMA LockSteps ==
  ASSUME [Next]_vars, object' = "lock"
  PROVE  object = "lock" /\ (LockNext \/ UNCHANGED vars)
  BY DEF Next, TaskNext, LockNext, SemNext, vars

LEMMA LockInitTypes == Init => LockTyped
  BY ContendersAssumption
  DEF Init, TaskInit, LockInit, SemInit, LockTyped, LockTypeOK, Unclaimed, Critical

LEMMA LockStepTypes == LockTyped /\ [Next]_vars => LockTyped'
<1> SUFFICES ASSUME LockTypeOK, LockNext \/ UNCHANGED vars PROVE LockTypeOK'
  BY LockSteps DEF LockTyped
<1> USE ContendersAssumption DEF LockTypeOK, Goto, Critical, Unclaimed, Claimed, Complete
<1>1. ASSUME NEW t \in Contenders, LockStep(t) PROVE LockTypeOK'
  <2>1. CASE TryBegin(t) BY <2>1 DEF TryBegin
  <2>2. CASE Build(t) BY <2>2 DEF Build
  <2>3. CASE CompleteOnce(t) BY <2>3 DEF CompleteOnce
  <2>4. CASE Await(t) BY <2>4 DEF Await
  <2>5. CASE LockFor(t) BY <2>5 DEF LockFor
  <2>6. CASE TryLock(t) BY <2>6 DEF TryLock
  <2>7. CASE GiveUp(t) BY <2>7 DEF GiveUp
  <2>8. CASE Load(t) BY <2>8 DEF Load
  <2>9. CASE Store(t) BY <2>9 DEF Store
  <2>10. CASE Unlock(t) BY <2>10 DEF Unlock
  <2> QED BY <1>1, <2>1, <2>2, <2>3, <2>4, <2>5, <2>6, <2>7, <2>8, <2>9, <2>10 DEF LockStep
<1>2. CASE UNCHANGED vars BY <1>2 DEF vars
<1> QED BY <1>1, <1>2 DEF LockNext

-----------------------------------------------------------------------------
(* Mutual exclusion is inductive: the lock is taken only at 0, that is     *)
(* when nobody holds it, and only its holder stores.                       *)
LEMMA InitExclusion == Init => MutualExclusion
  BY DEF Init, TaskInit, LockInit, SemInit, MutualExclusion, Holds, Critical

LEMMA StepExclusion == LockTyped /\ MutualExclusion /\ [Next]_vars => MutualExclusion'
<1> SUFFICES ASSUME LockTypeOK, object = "lock", object' = "lock", MutualExclusion,
                    LockNext \/ UNCHANGED vars
             PROVE  MutualExclusion'
  BY LockSteps DEF LockTyped, MutualExclusion
<1> USE DEF LockTypeOK, MutualExclusion, Holds, Critical, Goto
<1>1. ASSUME NEW t \in Contenders, LockStep(t) PROVE MutualExclusion'
  <2>1. CASE TryBegin(t) BY <2>1 DEF TryBegin
  <2>2. CASE Build(t) BY <2>2 DEF Build
  <2>3. CASE CompleteOnce(t) BY <2>3 DEF CompleteOnce
  <2>4. CASE Await(t) BY <2>4 DEF Await
  <2>5. CASE LockFor(t) BY <2>5 DEF LockFor
  <2>6. CASE TryLock(t) BY <2>6 DEF TryLock
  <2>7. CASE GiveUp(t) BY <2>7 DEF GiveUp
  <2>8. CASE Load(t) BY <2>8 DEF Load
  <2>9. CASE Store(t) BY <2>9 DEF Store
  <2>10. CASE Unlock(t) BY <2>10 DEF Unlock
  <2> QED BY <1>1, <2>1, <2>2, <2>3, <2>4, <2>5, <2>6, <2>7, <2>8, <2>9, <2>10 DEF LockStep
<1>2. CASE UNCHANGED vars BY <1>2 DEF vars
<1> QED BY <1>1, <1>2 DEF LockNext

(* sync_spin_try_lock and sync_spin_unlock: one thread at a time, and what *)
(* it does under the lock is not torn apart.                               *)
THEOREM MutualExclusionAlways == Spec => []MutualExclusion
  BY LockInitTypes, LockStepTypes, InitExclusion, StepExclusion, PTL DEF Spec

-----------------------------------------------------------------------------
(* The once cell: before it is claimed everybody is on the way to claim    *)
(* it; one thread alone builds and completes; after that nobody does.      *)
OnceInv ==
  object = "lock" =>
    /\ cell.once = Unclaimed => cell.built = 0 /\ \A t \in Contenders : pc[t] = "claim"
    /\ cell.once = Claimed =>
         \E b \in Contenders :
           /\ \/ pc[b] = "build" /\ cell.built = 0
              \/ pc[b] = "complete" /\ cell.built = 1
           /\ \A t \in Contenders \ {b} : pc[t] \in {"claim", "await"}
    /\ cell.once = Complete =>
         cell.built = 1 /\ \A t \in Contenders : pc[t] \notin {"build", "complete"}

LEMMA InitOnce == Init => OnceInv
  BY DEF Init, TaskInit, LockInit, SemInit, OnceInv, Unclaimed, Claimed, Complete

LEMMA StepOnce == LockTyped /\ OnceInv /\ [Next]_vars => OnceInv'
<1> SUFFICES ASSUME LockTypeOK, object = "lock", object' = "lock", OnceInv,
                    LockNext \/ UNCHANGED vars
             PROVE  OnceInv'
  BY LockSteps DEF LockTyped, OnceInv
<1> USE DEF LockTypeOK, OnceInv, Critical, Goto, Unclaimed, Claimed, Complete
<1>1. ASSUME NEW t \in Contenders, LockStep(t) PROVE OnceInv'
  <2>1. CASE TryBegin(t) BY <2>1 DEF TryBegin
  <2>2. CASE Build(t) BY <2>2 DEF Build
  <2>3. CASE CompleteOnce(t) BY <2>3 DEF CompleteOnce
  <2>4. CASE Await(t) BY <2>4 DEF Await
  <2>5. CASE LockFor(t) BY <2>5 DEF LockFor
  <2>6. CASE TryLock(t) BY <2>6 DEF TryLock
  <2>7. CASE GiveUp(t) BY <2>7 DEF GiveUp
  <2>8. CASE Load(t) BY <2>8 DEF Load
  <2>9. CASE Store(t) BY <2>9 DEF Store
  <2>10. CASE Unlock(t) BY <2>10 DEF Unlock
  <2> QED BY <1>1, <2>1, <2>2, <2>3, <2>4, <2>5, <2>6, <2>7, <2>8, <2>9, <2>10 DEF LockStep
<1>2. CASE UNCHANGED vars BY <1>2 DEF vars
<1> QED BY <1>1, <1>2 DEF LockNext

(* sync_once_try_begin, sync_once_complete and sync_once_done: what the    *)
(* once cell guards is built once, and before anybody uses it.             *)
THEOREM BuiltBeforeUseAlways == Spec => []BuiltBeforeUse
<1>1. LockTyped /\ OnceInv => BuiltBeforeUse
  BY DEF LockTyped, LockTypeOK, OnceInv, BuiltBeforeUse, Critical, Unclaimed, Claimed, Complete
<1> QED BY <1>1, LockInitTypes, LockStepTypes, InitOnce, StepOnce, PTL DEF Spec

-----------------------------------------------------------------------------
(* The semaphore.  What a thread has observed never exceeds the permits    *)
(* there are, a thread that holds one observed at least one, and the mark  *)
(* is above everything that was observed of it or reported to it.          *)
SemCounts ==
  /\ cell.permits + Cardinality(Holders) = Permits
  /\ \A t \in Contenders :
       /\ local[t].current <= Permits
       /\ pc[t] \in {"held", "raising"} => local[t].current >= 1
       /\ local[t].mark <= cell.peak
       /\ local[t].reported <= cell.peak

SemInv == object = "semaphore" => SemTypeOK /\ SemCounts

LEMMA SemSteps ==
  ASSUME [Next]_vars, object' = "semaphore"
  PROVE  object = "semaphore" /\ (SemNext \/ UNCHANGED vars)
  BY DEF Next, TaskNext, LockNext, SemNext, vars

(* The holders are finitely many, and one more or one less is counted.     *)
LEMMA HoldersCounted ==
  /\ IsFiniteSet(Holders) /\ Cardinality(Holders) \in Nat
  /\ \A t : t \in Holders =>
       Cardinality(Holders \ {t}) = Cardinality(Holders) - 1 /\ Cardinality(Holders) >= 1
  /\ \A t : t \notin Holders => Cardinality(Holders \cup {t}) = Cardinality(Holders) + 1
<1>1. IsFiniteSet(Holders) /\ Cardinality(Holders) \in Nat
  BY FS_Subset, FS_CardinalityType, ContendersAssumption DEF Holders
<1>2. ASSUME NEW t, t \in Holders
      PROVE  Cardinality(Holders \ {t}) = Cardinality(Holders) - 1 /\ Cardinality(Holders) >= 1
  <2>1. Cardinality(Holders \ {t}) = Cardinality(Holders) - 1
    BY <1>1, <1>2, FS_RemoveElement
  <2>2. Cardinality(Holders) # 0
    BY <1>1, <1>2, FS_EmptySet
  <2> QED BY <1>1, <2>1, <2>2
<1>3. ASSUME NEW t, t \notin Holders
      PROVE  Cardinality(Holders \cup {t}) = Cardinality(Holders) + 1
  BY <1>1, <1>3, FS_AddElement
<1> QED BY <1>1, <1>2, <1>3

LEMMA NoWrap == ASSUME NEW n \in Nat, NEW w \in Nat, n < w PROVE n % w = n
  OBVIOUS

LEMMA SemInitInv == Init => SemInv
<1> SUFFICES ASSUME SemInit PROVE SemTypeOK /\ SemCounts
  BY DEF Init, TaskInit, LockInit, SemInv
<1>1. Holders = {}
  BY DEF SemInit, Holders, Holding
<1> QED BY <1>1, FS_EmptySet, ContendersAssumption DEF SemInit, SemTypeOK, SemCounts

LEMMA SemStepInv == SemInv /\ [Next]_vars => SemInv'
<1> SUFFICES ASSUME SemTypeOK, SemCounts, SemNext \/ UNCHANGED vars PROVE SemTypeOK' /\ SemCounts'
  BY SemSteps DEF SemInv
<1> USE ContendersAssumption DEF SemTypeOK, Goto, Holding
<1>0. /\ cell.permits \in 0 .. Permits
      /\ \A u \in Contenders : local[u].current \in 0 .. Permits
  BY HoldersCounted DEF SemCounts
<1>1. ASSUME NEW t \in Contenders, SemStep(t) PROVE SemTypeOK' /\ SemCounts'
  <2>1. CASE AcquireLoad(t)
    <3>1. Holders' = Holders BY <2>1 DEF AcquireLoad, Holders
    <3> QED BY <2>1, <3>1, <1>0 DEF AcquireLoad, SemCounts
  <2>2. CASE AcquireRefused(t)
    <3>1. Holders' = Holders BY <2>2 DEF AcquireRefused, Holders
    <3> QED BY <2>2, <3>1 DEF AcquireRefused, SemCounts
  <2>3. CASE AcquireExchange(t) /\ cell.permits = local[t].current
    <3>1. Holders' = Holders \cup {t} /\ t \notin Holders
      BY <2>3 DEF AcquireExchange, Exchange, Holders
    <3>2. Cardinality(Holders') = Cardinality(Holders) + 1
      BY <3>1, HoldersCounted
    <3> QED BY <2>3, <3>2, <1>0, HoldersCounted DEF AcquireExchange, Exchange, SemCounts
  <2>4. CASE AcquireExchange(t) /\ cell.permits # local[t].current
    <3>1. Holders' = Holders BY <2>4 DEF AcquireExchange, Exchange, Holders
    <3> QED BY <2>4, <3>1, <1>0 DEF AcquireExchange, Exchange, SemCounts
  <2>5. CASE MaxLoad(t)
    <3>1. Holders' = Holders BY <2>5 DEF MaxLoad, Holders
    <3> QED BY <2>5, <3>1 DEF MaxLoad, SemCounts
  <2>6. CASE MaxExchange(t)
    <3>1. Holders' = Holders BY <2>6 DEF MaxExchange, Reported, Holders
    <3>2. pc[t] = "raising" /\ Candidate(t) \in 1 .. Permits
      BY <2>6, <1>0 DEF MaxExchange, Reported, Candidate, SemCounts
    <3> QED BY <2>6, <3>1, <3>2 DEF MaxExchange, Reported, SemCounts
  <2>7. CASE ReleaseLoad(t)
    <3>1. Holders' = Holders BY <2>7 DEF ReleaseLoad, Holders
    <3> QED BY <2>7, <3>1, <1>0 DEF ReleaseLoad, SemCounts
  <2>8. CASE ReleaseExchange(t) /\ cell.permits = local[t].current
    <3>1. Holders' = Holders \ {t} /\ t \in Holders
      BY <2>8 DEF ReleaseExchange, Holders
    <3>2. Cardinality(Holders') = Cardinality(Holders) - 1 /\ Cardinality(Holders) >= 1
      BY <3>1, HoldersCounted
    <3>3. cell.permits + 1 <= Permits
      BY <3>2, <1>0, HoldersCounted DEF SemCounts
    <3>4. (local[t].current + 1) % Word = cell.permits + 1
      <4>1. local[t].current + 1 \in Nat /\ local[t].current + 1 < Word
        BY <2>8, <3>3, <1>0
      <4> QED BY <2>8, <4>1, NoWrap
    <3>5. cell' = [cell EXCEPT !.permits = cell.permits + 1] /\ UNCHANGED local
      BY <2>8, <3>4 DEF ReleaseExchange, GiveBack
    <3>6. pc' = [pc EXCEPT ![t] = "idle"]
      BY <2>8 DEF ReleaseExchange
    <3>7. SemTypeOK'
      BY <3>3, <3>5, <3>6, <1>0
    <3>8. cell'.permits + Cardinality(Holders') = Permits
      BY <3>2, <3>5, <1>0, HoldersCounted DEF SemCounts
    <3>9. \A u \in Contenders : pc'[u] \in {"held", "raising"} => pc[u] \in {"held", "raising"}
      BY <3>6
    <3>10. cell'.peak = cell.peak
      BY <3>5
    <3> QED BY <3>5, <3>7, <3>8, <3>9, <3>10 DEF SemCounts
  <2>9. CASE ReleaseExchange(t) /\ cell.permits # local[t].current
    <3>1. Holders' = Holders BY <2>9 DEF ReleaseExchange, Holders
    <3> QED BY <2>9, <3>1 DEF ReleaseExchange, SemCounts
  <2> QED BY <1>1, <2>1, <2>2, <2>3, <2>4, <2>5, <2>6, <2>7, <2>8, <2>9 DEF SemStep
<1>2. CASE UNCHANGED vars
  BY <1>2 DEF vars, Holders, SemCounts
<1> QED BY <1>1, <1>2 DEF SemNext

(* sync_semaphore_try_acquire and sync_semaphore_release: exchanges that   *)
(* race neither lose nor invent a permit.                                  *)
THEOREM PermitsAlways == Spec => []PermitsConserved
<1>1. SemInv => PermitsConserved
  BY DEF SemInv, SemCounts, PermitsConserved
<1> QED BY <1>1, SemInitInv, SemStepInv, PTL DEF Spec

(* atomic_update_max_u64: the mark covers everything ever reported.        *)
THEOREM PeakAlways == Spec => []PeakCoversReports
<1>1. SemInv => PeakCoversReports
  BY DEF SemInv, SemCounts, PeakCoversReports
<1> QED BY <1>1, SemInitInv, SemStepInv, PTL DEF Spec

-----------------------------------------------------------------------------
(* Types: whichever object a behaviour is about, it keeps to its types.    *)
Kind == object \in {"task", "lock", "semaphore"}

LEMMA KindInit == Init => Kind
  BY DEF Init, TaskInit, LockInit, SemInit, Kind

LEMMA KindStep == Kind /\ [Next]_vars => Kind'
  BY DEF Next, TaskNext, LockNext, SemNext, vars, Kind

THEOREM TypesAlways == Spec => []TypeOK
<1>1. Kind /\ Typed /\ LockTyped /\ SemInv => TypeOK
  BY DEF Kind, Typed, LockTyped, SemInv, TypeOK
<1> QED BY <1>1, KindInit, KindStep, InitTypes, StepTypes, LockInitTypes, LockStepTypes,
           SemInitInv, SemStepInv, PTL DEF Spec
=============================================================================
