---------------------------- MODULE DurableStore ----------------------------
(***************************************************************************)
(* What a durable transactional file promises to the scripts that use it:  *)
(* each script takes effect once, entirely, in one step, or not at all.    *)
(***************************************************************************)
CONSTANT Procs           \* each process runs one script

VARIABLES
  durable,  \* the scripts whose effects the next reader finds
  outcome   \* what each script was told

Init ==
  /\ durable = {}
  /\ outcome = [p \in Procs |-> "pending"]

Commit(p) ==
  /\ outcome[p] = "pending"
  /\ outcome' = [outcome EXCEPT ![p] = "ok"]
  /\ durable' = durable \cup {p}

Abort(p) ==
  /\ outcome[p] = "pending"
  /\ outcome' = [outcome EXCEPT ![p] = "failed"]
  /\ UNCHANGED durable

Next == \E p \in Procs : Commit(p) \/ Abort(p)

Spec == Init /\ [][Next]_<<durable, outcome>>
=============================================================================
