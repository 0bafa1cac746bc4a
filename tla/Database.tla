------------------------------ MODULE Database ------------------------------
(***************************************************************************)
(* The NoqeriDB host (Compiler/bootstrap/noqeridb_host.cpp) from its two   *)
(* sides: what the statements of a script do to the tables (NqdScript),    *)
(* and how the file is replaced by processes that may die (NqdStore).      *)
(* `object` says which side a behaviour is about; the other one rests in   *)
(* one of its initial states.                                              *)
(***************************************************************************)
EXTENDS Integers, Sequences

CONSTANTS
  Objects,       \* the sides to consider: "script", "store"
  Paths, TableNames, Schemas, Rows, Patches, Wheres, InitialDisks, MaxStatements, LateDatabase,
  Procs, None, Environments

ASSUME DatabaseAssumption ==
  /\ Objects \subseteq {"script", "store"}
  /\ MaxStatements \in Nat /\ LateDatabase \in BOOLEAN
  /\ None \notin Procs
  /\ Environments \subseteq SUBSET {"concurrent", "crashes", "power", "errors"}

VARIABLES
  object,
  disk, db, dbPath, dirty, errors, phase, log, base, before,
  env, main, temp, content, synced, fd, view, pc

scriptVars == <<disk, db, dbPath, dirty, errors, phase, log, base, before>>
storeVars == <<env, main, temp, content, synced, fd, view, pc>>
vars == <<object, scriptVars, storeVars>>

Script == INSTANCE NqdScript WITH pc <- phase
Store == INSTANCE NqdStore

(* What a .nqdb file may hold before the first script: nothing, or the     *)
(* tables that earlier scripts left there.                                 *)
IsRows(rows) == rows \in Seq({rows[i] : i \in DOMAIN rows})
IsTable(table) ==
  /\ table = [cols |-> table.cols, rows |-> table.rows]
  /\ table.cols \in Schemas /\ IsRows(table.rows) /\ Script!WellFormed(table)
IsDatabase(tables) ==
  /\ tables = [t \in DOMAIN tables |-> tables[t]] /\ DOMAIN tables \subseteq TableNames
  /\ \A t \in DOMAIN tables : IsTable(tables[t])

ASSUME InitialDisksAssumption ==
  \A d \in InitialDisks :
    d = [p \in Paths |-> d[p]] /\ \A p \in Paths : IsDatabase(d[p])

Init ==
  /\ object \in Objects
  /\ Script!Init /\ (object # "script" => disk = CHOOSE d \in InitialDisks : TRUE)
  /\ Store!Init /\ (object # "store" => env = CHOOSE e \in Environments : TRUE)

Next ==
  \/ object = "script" /\ Script!Next /\ UNCHANGED <<object, storeVars>>
  \/ object = "store" /\ Store!Next /\ UNCHANGED <<object, scriptVars>>

Spec == Init /\ [][Next]_vars

-----------------------------------------------------------------------------
(* Tables, flags, inodes and program counters have their types.            *)
TypeOK == Script!TypeOK /\ Store!TypeOK

(* Schema, required, unique and key constraints hold for every row of every *)
(* stored table, whatever sequence of statements produced it: the checks at *)
(* insert and at each row of an update are enough (validate, l.93).         *)
StoredTablesAreWellFormed == Script!StoredTablesAreWellFormed

(* Include/noqeri/database.hpp:9: a whole script is a transaction.  When    *)
(* run() returns true no statement was refused, and the file holds the      *)
(* effect of every statement on what it held before; a script that fails,   *)
(* at whichever statement, leaves every file alone, although the tables in  *)
(* memory may already be half changed (statement, l.96-104; run, l.77-82).  *)
WholeScript == Script!WholeScript

(* Scripts that follow one another, each free to die at any step, never    *)
(* leave a half-written file under the database's own name, nor, in spite  *)
(* of losses of power, one that shows a script that did not succeed, even  *)
(* one whose complete text a dead process left in path.tmp.  And unless    *)
(* the power fails, scripts that run at the same time never lose or tear   *)
(* the file in silence: somebody is told of a failure (saveState l.61-65). *)
FileIsHonest == Store!MainIsWhole /\ Store!OnlySuccessIsVisible /\ Store!LossIsReported

(* Without concurrency or loss of power, what succeeded is under the       *)
(* database's name or in path.tmp until the next script opens path.tmp     *)
(* with trunc (l.63-64, l.68).                                             *)
OnlyTheNextScriptDestroys == Store!OnlyTheNextScriptDestroys

(* Database/README.md:18 asks persistent providers to use atomic           *)
(* replacement, to sync before reporting success and to enforce exclusive  *)
(* writer locks: the effect of a script that was told it succeeded is      *)
(* found by the next reader (saveState, l.61-65).                          *)
SuccessIsDurable == Store!SuccessIsDurable

(* Where nothing may go wrong, scripts implement the durable store: the    *)
(* rename is the commit (saveState, l.64).                                 *)
ImplementsDurableStore == Store!ImplementsDurableStore
=============================================================================
