------------------------------ MODULE TaskCell ------------------------------
(***************************************************************************)
(* Lib/std/task.nqr: one Task<T> shared by threads that start, complete,   *)
(* fail, cancel and read it.  The fields of `cell` are the record's; a     *)
(* value or an error is the worker that wrote it, NoOne before that.       *)
(* cell.ownerOnly says whether the program keeps to the discipline that    *)
(* only the thread that started the task finishes it.                      *)
(***************************************************************************)
EXTENDS ThreadSystem

Pending == "pending"
Running == "running"
Ready == "ready"
Failed == "failed"
Cancelled == "cancelled"
States == {Pending, Running, Ready, Failed, Cancelled}

task_terminal(s) == s \in {Ready, Failed, Cancelled}

Callers == Workers \cup Cancellers \cup Readers

TaskInit ==
  /\ object = "task"
  /\ cell \in [state : {Pending}, value : {NoOne}, error : {NoOne}, ownerOnly : BOOLEAN]
  /\ pc = [t \in Callers |-> "idle"]
  /\ local = [t \in Callers |-> [observed |-> Pending, result |-> "none"]]

Return(t, from, r) == Goto(t, from, "done") /\ local' = [local EXCEPT ![t].result = r]

(* What a worker does that did not start the task. *)
Lost == IF cell.ownerOnly THEN "done" ELSE "started"

(* Mutant: a task that is already running may be started again. *)
TryStartAgain(w) ==
  /\ IF cell.state \in {Pending, Running}
     THEN cell' = [cell EXCEPT !.state = Running] /\ Goto(w, "idle", "started")
     ELSE UNCHANGED cell /\ Goto(w, "idle", Lost)
  /\ UNCHANGED local

(* task_try_start: one compare-exchange. *)
TryStart(w) ==
  /\ IF cell.state = Pending
     THEN cell' = [cell EXCEPT !.state = Running] /\ Goto(w, "idle", "started")
     ELSE UNCHANGED cell /\ Goto(w, "idle", Lost)
  /\ UNCHANGED local

(* task_complete and task_fail begin with the same check. *)
Check(w, next) ==
  /\ IF cell.state = Running
     THEN Goto(w, "started", next) /\ UNCHANGED local
     ELSE Return(w, "started", "false")
  /\ UNCHANGED cell

(* They end with the same compare-exchange, after a fence. *)
Decide(w, from, verdict, said) ==
  /\ cell' = IF cell.state = Running THEN [cell EXCEPT !.state = verdict] ELSE cell
  /\ Return(w, from, IF cell.state = Running THEN said ELSE "false")

(* task_complete: check, two stores, fence, compare-exchange. *)
CompleteCheck(w) == Check(w, "storeValue")

CompleteStoreValue(w) ==
  /\ Goto(w, "storeValue", "clearError")
  /\ cell' = [cell EXCEPT !.value = w]
  /\ UNCHANGED local

CompleteClearError(w) ==
  /\ Goto(w, "clearError", "publish")
  /\ cell' = [cell EXCEPT !.error = NoOne]
  /\ UNCHANGED local

(* Mutant: the verdict is stored, whatever the state is by now. *)
CompleteStores(w) ==
  /\ cell' = [cell EXCEPT !.state = Ready]
  /\ Return(w, "publish", "completed")

CompleteExchange(w) == Decide(w, "publish", Ready, "completed")

(* task_fail: check, store, fence, compare-exchange. *)
FailCheck(w) == Check(w, "storeError")

FailStoreError(w) ==
  /\ Goto(w, "storeError", "publishFailure")
  /\ cell' = [cell EXCEPT !.error = w]
  /\ UNCHANGED local

(* Mutant: the arguments are swapped, the error becomes the state. *)
FailSwapped(w) == Decide(w, "publishFailure", cell.error, "failed")

FailExchange(w) == Decide(w, "publishFailure", Failed, "failed")

(* task_cancel: load, then compare-exchange from whatever was observed     *)
(* until that succeeds or a terminal state is observed.                    *)
CancelLoad(c) ==
  /\ Goto(c, "idle", "cancelling")
  /\ local' = [local EXCEPT ![c].observed = cell.state]
  /\ UNCHANGED cell

(* Mutant: one lost exchange and the call gives up. *)
CancelOnce(c) ==
  IF ~task_terminal(local[c].observed) /\ cell.state = local[c].observed
  THEN Return(c, "cancelling", "cancelled") /\ cell' = [cell EXCEPT !.state = Cancelled]
  ELSE Return(c, "cancelling", "false") /\ UNCHANGED cell

(* Mutant: what the exchange returned is not looked at again. *)
CancelStale(c) ==
  IF task_terminal(local[c].observed)
  THEN Return(c, "cancelling", "false") /\ UNCHANGED cell
  ELSE /\ cell.state = local[c].observed
       /\ Return(c, "cancelling", "cancelled")
       /\ cell' = [cell EXCEPT !.state = Cancelled]

CancelExchange(c) ==
  IF task_terminal(local[c].observed)
  THEN Return(c, "cancelling", "false") /\ UNCHANGED cell
  ELSE IF cell.state = local[c].observed
  THEN Return(c, "cancelling", "cancelled") /\ cell' = [cell EXCEPT !.state = Cancelled]
  ELSE /\ pc[c] = "cancelling"
       /\ local' = [local EXCEPT ![c].observed = cell.state]
       /\ UNCHANGED <<cell, pc>>

(* task_value_or and task_error: load the state, then the field. *)
ReadState(r) ==
  /\ \/ cell.state = Ready /\ Goto(r, "idle", "loadValue")
     \/ cell.state = Failed /\ Goto(r, "idle", "loadError")
  /\ UNCHANGED <<cell, local>>

LoadValue(r) == Return(r, "loadValue", cell.value) /\ UNCHANGED cell

LoadError(r) == Return(r, "loadError", cell.error) /\ UNCHANGED cell

Work(w) ==
  \/ CompleteCheck(w) \/ CompleteStoreValue(w) \/ CompleteClearError(w) \/ CompleteExchange(w)
  \/ FailCheck(w) \/ FailStoreError(w) \/ FailExchange(w)

Cancel(c) == CancelLoad(c) \/ CancelExchange(c)
Read(r) == ReadState(r) \/ LoadValue(r) \/ LoadError(r)

TaskNext ==
  /\ object = "task" /\ UNCHANGED object
  /\ \/ \E w \in Workers : TryStart(w) \/ Work(w)
     \/ \E c \in Cancellers : Cancel(c)
     \/ \E r \in Readers : Read(r)

-----------------------------------------------------------------------------
Labels == {"idle", "started", "storeValue", "clearError", "publish", "storeError",
           "publishFailure", "cancelling", "loadValue", "loadError", "done"}

Results ==
  {"none", "false", "completed", "failed", "cancelled"} \cup Workers \cup {NoOne}

TaskTypeOK ==
  /\ cell \in [state : States, value : Workers \cup {NoOne},
               error : Workers \cup {NoOne}, ownerOnly : BOOLEAN]
  /\ pc \in [Callers -> Labels]
  /\ local \in [Callers -> [observed : States, result : Results]]

Verdicts == {"completed", "failed", "cancelled"}
Told(t) == local[t].result

(* However many threads race to complete, fail and cancel a task, at most  *)
(* one call is told that it decided the outcome, and the state agrees with *)
(* it for ever (task_complete, task_fail, task_cancel).                    *)
OneVerdict ==
  object = "task" =>
    /\ \A s, t \in Callers : Told(s) \in Verdicts /\ Told(t) \in Verdicts => s = t
    /\ \A t \in Callers :
         /\ Told(t) = "completed" => cell.state = Ready
         /\ Told(t) = "failed" => cell.state = Failed
         /\ Told(t) = "cancelled" => cell.state = Cancelled

(* A call of task_cancel that answers false found the task decided: a      *)
(* start that slips between its load and its exchange does not make it     *)
(* give up (task_cancel's retry loop, l.52-56).                            *)
RefusedCancelMeansDecided ==
  object = "task" => \A c \in Cancellers : Told(c) = "false" => task_terminal(cell.state)

(* When only the thread that started the task finishes it, a reader that   *)
(* saw the task ready gets the value of the completer that made it ready,  *)
(* and one that saw it failed gets that failure's error: the stores come   *)
(* before the exchange, and no later store overwrites them (l.37-40,       *)
(* l.45-47, l.60-61).                                                      *)
ReadersSeeTheVerdict ==
  object = "task" /\ cell.ownerOnly =>
    \A r \in Readers :
      /\ Told(r) # NoOne
      /\ \A w \in Workers : Told(r) = w => Told(w) \in {"completed", "failed"}

(* task_cancel comes to an end: the state changes twice at most (l.52-56). *)
CancelReturns ==
  \A c \in Cancellers :
    object = "task" /\ pc[c] = "cancelling" ~> object = "task" /\ pc[c] = "done"
=============================================================================
