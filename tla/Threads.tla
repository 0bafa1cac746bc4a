------------------------------ MODULE Threads ------------------------------
(***************************************************************************)
(* The concurrent objects of Lib/std side by side: a behaviour picks one   *)
(* object, and threads use it until the end.                               *)
(***************************************************************************)
EXTENDS TaskCell, Sync

Init == TaskInit \/ LockInit \/ SemInit
Next == TaskNext \/ LockNext \/ SemNext

Spec == Init /\ [][Next]_vars

(* A thread that has begun a call is scheduled until the call returns; no  *)
(* thread has to begin one on a task.                                      *)
OfTask(step) == object = "task" /\ UNCHANGED object /\ step
OfContenders(t) ==
  /\ UNCHANGED object
  /\ \/ object = "lock" /\ LockStep(t)
     \/ object = "semaphore" /\ SemStep(t)

FairSpec ==
  /\ Spec
  /\ \A w \in Workers : WF_vars(OfTask(Work(w)))
  /\ \A c \in Cancellers : WF_vars(OfTask(CancelExchange(c)))
  /\ \A t \in Contenders : WF_vars(OfContenders(t))

-----------------------------------------------------------------------------
(* Every object keeps to its types. *)
TypeOK ==
  /\ object \in {"task", "lock", "semaphore"}
  /\ object = "task" => TaskTypeOK
  /\ object = "lock" => LockTypeOK
  /\ object = "semaphore" => SemTypeOK

(* Every call that loops around an exchange returns, although any exchange *)
(* of another thread makes it start again: task_cancel (task.nqr l.52-56)  *)
(* and sync_semaphore_release (sync.nqr l.57-59).                          *)
CallsReturn == CancelReturns /\ PermitsComeBack
=============================================================================
