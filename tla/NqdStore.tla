------------------------------ MODULE NqdStore ------------------------------
(***************************************************************************)
(* How a .nqdb file is replaced: loadState, saveState and Parser::run of   *)
(* Compiler/bootstrap/noqeridb_host.cpp, as steps of processes that share  *)
(* one directory.  saveState writes path.tmp, removes path, then renames   *)
(* path.tmp to path; the temporary name is the same for every process and  *)
(* nothing is locked or synced.  A database is the set of the scripts whose*)
(* effects it holds (NqdScript models what a script does to it).           *)
(***************************************************************************)
EXTENDS Naturals

CONSTANTS
  Procs,        \* processes, each running one script that changes the database
  None,         \* no such directory entry
  Environments  \* the surroundings to consider: what may happen in them

(* "concurrent": two processes may be active at once; "crashes": a process *)
(* may die between two steps; "power": the machine may lose what was never *)
(* synced; "errors": a rename may fail for a reason of its own.            *)
VARIABLES
  env,      \* the surroundings of this behaviour
  main,     \* the inode that `path` names, or None
  temp,     \* the inode that `path.tmp` names, or None
  content,  \* inode -> [whole, has]: an inode is named by its creator
  synced,   \* inodes whose data has reached the disk
  fd,       \* the inode each process has open
  view,     \* the database each process loaded
  pc        \* where each process is

vars == <<env, main, temp, content, synced, fd, view, pc>>

Empty == [whole |-> FALSE, has |-> {}]

May(what) == what \in env

Init ==
  /\ env \in Environments
  /\ main = None /\ temp = None
  /\ content = [i \in Procs |-> Empty]
  /\ synced = {}
  /\ fd = [p \in Procs |-> None]
  /\ view = [p \in Procs |-> {}]
  /\ pc = [p \in Procs |-> "start"]

Active(p) == pc[p] \in {"loaded", "opened", "written", "removed"}

Goto(p, from, to) == pc[p] = from /\ pc' = [pc EXCEPT ![p] = to]

(* Mutant: a database that cannot be opened is taken for an empty one. *)
LoadMayMiss(p) ==
  /\ May("concurrent") \/ \A q \in Procs : ~Active(q)
  /\ view' \in {[view EXCEPT ![p] = {}],
               [view EXCEPT ![p] = IF main = None THEN {} ELSE content[main].has]}
  /\ Goto(p, "start", "loaded")
  /\ UNCHANGED <<main, temp, content, synced, fd>>

(* loadState: no file is an empty database; a torn file is refused, unless *)
(* it ends after the header or after a table: what is left is taken for    *)
(* all there was.                                                          *)
Load(p) ==
  /\ May("concurrent") \/ \A q \in Procs : ~Active(q)
  /\ \/ /\ main = None
        /\ view' = [view EXCEPT ![p] = {}]
        /\ Goto(p, "start", "loaded")
     \/ /\ main # None /\ content[main].whole
        /\ view' = [view EXCEPT ![p] = content[main].has]
        /\ Goto(p, "start", "loaded")
     \/ /\ main # None /\ ~content[main].whole
        /\ \E left \in SUBSET content[main].has : view' = [view EXCEPT ![p] = left]
        /\ Goto(p, "start", "loaded")
     \/ /\ main # None /\ ~content[main].whole
        /\ Goto(p, "start", "failed")
        /\ UNCHANGED view
  /\ UNCHANGED <<main, temp, content, synced, fd>>

(* A refused statement, or a directory or temporary that cannot be opened. *)
Refuse(p) ==
  /\ Goto(p, "loaded", "failed")
  /\ UNCHANGED <<main, temp, content, synced, fd, view>>

(* Mutant: the database file itself is opened with trunc. *)
OpenMain(p) ==
  /\ Goto(p, "loaded", "opened")
  /\ LET i == IF main = None THEN p ELSE main
     IN  /\ main' = i
         /\ fd' = [fd EXCEPT ![p] = i]
         /\ content' = [content EXCEPT ![i] = Empty]
         /\ synced' = synced \ {i}
  /\ UNCHANGED <<temp, view>>

(* ofstream(temp, trunc): an existing temporary is truncated in place. *)
OpenTemp(p) ==
  /\ Goto(p, "loaded", "opened")
  /\ LET i == IF temp = None THEN p ELSE temp
     IN  /\ temp' = i
         /\ fd' = [fd EXCEPT ![p] = i]
         /\ content' = [content EXCEPT ![i] = Empty]
         /\ synced' = synced \ {i}
  /\ UNCHANGED <<main, view>>

(* The buffered text is written out; over another process's text the two   *)
(* may be mixed.  Its parts are one step: up to the last one the file is   *)
(* not whole, as an empty one is not.                                      *)
Write(p) ==
  /\ Goto(p, "opened", "written")
  /\ \E whole \in BOOLEAN :
       /\ content[fd[p]].has = {} => whole
       /\ content' = [content EXCEPT ![fd[p]] = [whole |-> whole, has |-> view[p] \cup {p}]]
  /\ UNCHANGED <<main, temp, synced, fd, view>>

WriteFails(p) ==
  /\ Goto(p, "opened", "failed")
  /\ UNCHANGED <<main, temp, content, synced, fd, view>>

(* filesystem::remove(path, ec); its error is cleared and ignored. *)
Remove(p) ==
  /\ Goto(p, "written", "removed")
  /\ main' \in {None, main}
  /\ UNCHANGED <<temp, content, synced, fd, view>>

Rename(p) ==
  /\ temp # None
  /\ Goto(p, "removed", "ok")
  /\ main' = temp /\ temp' = None
  /\ UNCHANGED <<content, synced, fd, view>>

(* Mutant: the temporary is cleaned up when the rename fails. *)
RenameFailsAndCleans(p) ==
  /\ temp = None \/ May("errors")
  /\ Goto(p, "removed", "failed")
  /\ temp' = None
  /\ UNCHANGED <<main, content, synced, fd, view>>

(* NQR-D8023: the temporary is gone, or the system refuses. *)
RenameFails(p) ==
  /\ temp = None \/ May("errors")
  /\ Goto(p, "removed", "failed")
  /\ UNCHANGED <<main, temp, content, synced, fd, view>>

Crash(p) ==
  /\ May("crashes") /\ Active(p)
  /\ pc' = [pc EXCEPT ![p] = "failed"]
  /\ UNCHANGED <<main, temp, content, synced, fd, view>>

(* The system writes an inode back to the disk when it likes. *)
WriteBack(i) ==
  /\ May("power")
  /\ content[i].has # {}
  /\ synced' = synced \cup {i}
  /\ UNCHANGED <<main, temp, content, fd, view, pc>>

(* Directory entries survive, data that was not written back may not. *)
LosePower ==
  /\ May("power")
  /\ \E kept \in SUBSET Procs :
       /\ synced \subseteq kept
       /\ content' = [i \in Procs |-> IF i \in kept THEN content[i] ELSE Empty]
  /\ pc' = [p \in Procs |-> IF Active(p) THEN "failed" ELSE pc[p]]
  /\ UNCHANGED <<main, temp, synced, fd, view>>

Step(p) ==
  \/ Load(p) \/ Refuse(p) \/ OpenTemp(p) \/ Write(p) \/ WriteFails(p)
  \/ Remove(p) \/ Rename(p) \/ RenameFails(p) \/ Crash(p)

Next ==
  /\ (\E p \in Procs : Step(p) \/ WriteBack(p)) \/ LosePower
  /\ UNCHANGED env

Spec == Init /\ [][Next]_vars

-----------------------------------------------------------------------------
Visible == IF main = None THEN {} ELSE content[main].has

Quiet == \A p \in Procs : ~Active(p)

Succeeded == {p \in Procs : pc[p] = "ok"}

TypeOK ==
  /\ env \in Environments
  /\ main \in Procs \cup {None} /\ temp \in Procs \cup {None}
  /\ content \in [Procs -> [whole : BOOLEAN, has : SUBSET Procs]]
  /\ synced \in SUBSET Procs
  /\ fd \in [Procs -> Procs \cup {None}]
  /\ view \in [Procs -> SUBSET Procs]
  /\ pc \in [Procs -> {"start", "loaded", "opened", "written", "removed", "ok", "failed"}]
  /\ \A p \in Procs : pc[p] \in {"opened", "written"} => fd[p] # None

(* Scripts that follow one another, each free to die at any step, never    *)
(* leave a half-written file under the database's own name: the text goes  *)
(* to path.tmp and is complete before the rename (saveState, l.63-64).     *)
MainIsWhole ==
  ~May("concurrent") /\ ~May("power") /\ main # None => content[main].whole

(* Scripts that follow one another, each free to die at any step, in spite *)
(* of losses of power: the file never shows the effect of a script that    *)
(* did not succeed, even one whose complete text a dead process left in    *)
(* path.tmp (saveState, l.61-65).                                          *)
OnlySuccessIsVisible == ~May("concurrent") => Visible \subseteq Succeeded

(* Without concurrency or loss of power, what succeeded is under the       *)
(* database's name or, after a death between the remove and the rename, in *)
(* path.tmp; only the next script, which finds no file and opens path.tmp  *)
(* with trunc, destroys it (l.63-64, l.68).                                *)
Recoverable ==
  \/ Succeeded \subseteq Visible
  \/ temp # None /\ content[temp].whole /\ Succeeded \subseteq content[temp].has

OnlyTheNextScriptDestroys ==
  [][~May("concurrent") /\ ~May("power") /\ Recoverable =>
       Recoverable' \/ \E p \in Procs : main = None /\ pc[p] = "loaded" /\ pc'[p] = "opened"]_vars

(* Scripts that run at the same time may overwrite each other, but unless  *)
(* the power fails the file is never lost or torn in silence: if nobody    *)
(* was told of a failure, the last rename installed a whole database       *)
(* (saveState, l.63-64).                                                   *)
LossIsReported ==
  ~May("power") /\ Quiet /\ Succeeded # {} /\ (\A p \in Procs : pc[p] # "failed")
    => main # None /\ content[main].whole

(* Database/README.md:18 asks persistent providers to use atomic           *)
(* replacement, to sync before reporting success and to enforce exclusive  *)
(* writer locks: the effect of a script that was told it succeeded is      *)
(* found by the next reader (saveState, l.61-65).                          *)
SuccessIsDurable == Quiet => Succeeded \subseteq Visible

(* Where nothing may go wrong, scripts implement the durable store: the    *)
(* rename is the commit (saveState, l.64).  Between the remove and the     *)
(* rename the store is what the renaming process loaded.                   *)
Outcome == [p \in Procs |-> IF pc[p] \in {"ok", "failed"} THEN pc[p] ELSE "pending"]

Durable ==
  IF \E p \in Procs : pc[p] = "removed"
  THEN view[CHOOSE p \in Procs : pc[p] = "removed"]
  ELSE Visible

Abstract == INSTANCE DurableStore WITH durable <- Durable, outcome <- Outcome

ImplementsDurableStore ==
  /\ env = {} => Abstract!Init
  /\ [][env = {} => Abstract!Next]_<<Durable, Outcome>>
=============================================================================
