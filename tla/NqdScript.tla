------------------------------ MODULE NqdScript ------------------------------
(***************************************************************************)
(* The .nqd data language of Compiler/bootstrap/noqeridb_host.cpp: one     *)
(* process runs a script against an in-memory State loaded from a .nqdb    *)
(* file, statement by statement, and replaces the file only at the end.    *)
(* The file is a single value here; NqdStore models how it is replaced.    *)
(***************************************************************************)
EXTENDS Naturals, Sequences, FiniteSets, TLC

CONSTANTS
  Paths,         \* the .nqdb files a script may name
  TableNames,
  Schemas,       \* the column lists a `table` statement may declare
  Rows,          \* the objects an `insert` may carry
  Patches,       \* the objects an `update ... set` may carry
  Wheres,        \* the well-formed `where` clauses: <<column, value>>
  InitialDisks,  \* the contents of the files before the first script
  MaxStatements, \* bound on the statements of one script
  LateDatabase   \* may a `database` statement follow a data statement?

VARIABLES
  disk,    \* the durable files: path -> database, EmptyDb when absent
  db,      \* state_: the tables in memory
  dbPath,  \* dbPath_: the file that will be replaced
  dirty,   \* dirty_
  errors,  \* Diagnostics::hasErrors
  pc,      \* "idle", "running", "committed" or "failed"
  log,     \* history: the data statements accepted so far
  base,    \* history: the tables loaded from dbPath
  before   \* history: the files when the script started

vars == <<disk, db, dbPath, dirty, errors, pc, log, base, before>>

NoWhere == <<>>
EmptyDb == [t \in {} |-> {}]

(***************************************************************************)
(* Values are [ty, n]; an int and a real of the same magnitude are equal   *)
(* (to the code also an int beyond 2^53 and the double nearest to it).     *)
(***************************************************************************)
valueEqual(a, b) ==
  /\ a.n = b.n
  /\ a.ty = b.ty \/ {a.ty, b.ty} = {"Int", "Real"}

compatible(ty, v) == v.ty = ty \/ (ty = "Real" /\ v.ty = "Int")

matches(row, w) ==
  \/ w = NoWhere
  \/ w[1] \in DOMAIN row /\ valueEqual(row[w[1]], w[2])

(* Mutant: values are compared by representation, so 1 and 1.0 differ. *)
CollidesExactly(table, r, c, skip) ==
  \E n \in DOMAIN table.rows \ skip :
    c \in DOMAIN table.rows[n] /\ table.rows[n][c] = r[c]

(* Does some row of the table other than number skip collide with r on c? *)
Collides(table, r, c, skip) ==
  \E n \in DOMAIN table.rows \ skip :
    c \in DOMAIN table.rows[n] /\ valueEqual(table.rows[n][c], r[c])

validate(table, r, skip) ==
  /\ \A c \in DOMAIN r : c \in DOMAIN table.cols /\ compatible(table.cols[c].ty, r[c])
  /\ \A c \in DOMAIN table.cols :
       /\ table.cols[c].required => c \in DOMAIN r
       /\ table.cols[c].unique /\ c \in DOMAIN r => ~Collides(table, r, c, skip)

(* tables[name] = t, and candidate[k] = v for every k, v of the patch. *)
Declared(tables, t, cols) ==
  [u \in DOMAIN tables \cup {t} |-> IF u = t THEN [cols |-> cols, rows |-> <<>>] ELSE tables[u]]
Patched(row, patch) == patch @@ row

(* One turn of the loop of update: a matching row is patched if what comes *)
(* out fits into the table as it is by then.                               *)
PatchRow(acc, patch, w, i) ==
  IF ~acc.ok \/ ~matches(acc.table.rows[i], w) THEN acc
  ELSE LET candidate == Patched(acc.table.rows[i], patch)
       IN  IF validate(acc.table, candidate, {i})
           THEN [ok |-> TRUE, hit |-> TRUE, table |-> [acc.table EXCEPT !.rows[i] = candidate]]
           ELSE [acc EXCEPT !.ok = FALSE]

(* update: the matching rows are patched one after the other.              *)
PatchRows(table, patch, w) ==
  LET done[i \in 0 .. Len(table.rows)] ==
        IF i = 0 THEN [ok |-> TRUE, hit |-> FALSE, table |-> table]
        ELSE PatchRow(done[i - 1], patch, w, i)
  IN done[Len(table.rows)]

(* delete: the rows that do not match close up behind those that go.       *)
RowsKept(rows, w) ==
  LET kept[i \in 0 .. Len(rows)] ==
        IF i = 0 THEN <<>>
        ELSE IF matches(rows[i], w) THEN kept[i - 1] ELSE Append(kept[i - 1], rows[i])
  IN kept[Len(rows)]

-----------------------------------------------------------------------------
Init ==
  /\ disk \in InitialDisks
  /\ db = EmptyDb /\ dbPath \in Paths
  /\ dirty = FALSE /\ errors = FALSE
  /\ pc = "idle" /\ log = <<>> /\ base = EmptyDb /\ before = disk

Running == pc = "running" /\ Len(log) < MaxStatements

Accept(op) == log' = Append(log, op) /\ UNCHANGED <<disk, dbPath, pc, base, before>>

(* Parser::run begins by loading the default or the override path; one     *)
(* process runs one script, on files that earlier scripts left behind.     *)
Begin ==
  /\ pc = "idle"
  /\ pc' = "running"
  /\ dbPath' \in Paths
  /\ db' = disk[dbPath'] /\ base' = disk[dbPath']
  /\ dirty' = FALSE /\ errors' = FALSE /\ log' = <<>>
  /\ before' = disk
  /\ UNCHANGED disk

(* `database "p"`: state_ is discarded and p is loaded; dirty_ is kept. *)
Database(p) ==
  /\ Running
  /\ LateDatabase \/ log = <<>>
  /\ ~(dbPath # p /\ disk[dbPath] # EmptyDb /\ DOMAIN db # {})
  /\ dbPath' = p
  /\ db' = disk[p] /\ base' = disk[p]
  /\ UNCHANGED <<disk, dirty, errors, pc, log, before>>

(* `table t {...}`: an existing table is only compared by column count. *)
Table(t, cols) ==
  /\ Running
  /\ IF t \notin DOMAIN db
     THEN db' = Declared(db, t, cols) /\ dirty' = TRUE
     ELSE /\ Cardinality(DOMAIN db[t].cols) = Cardinality(DOMAIN cols)
          /\ UNCHANGED <<db, dirty>>
  /\ Accept([op |-> "table", t |-> t, cols |-> cols])
  /\ UNCHANGED errors

(* Mutant: tables[name] makes the table that is missing. *)
InsertAutoCreates(t, row) ==
  /\ Running
  /\ db' = (t :> [cols |-> EmptyDb, rows |-> <<row>>]) @@ db
  /\ dirty' = TRUE
  /\ Accept([op |-> "insert", t |-> t, row |-> row])
  /\ UNCHANGED errors

Insert(t, row) ==
  /\ Running
  /\ t \in DOMAIN db
  /\ validate(db[t], row, {})
  /\ db' = [db EXCEPT ![t].rows = Append(@, row)]
  /\ dirty' = TRUE
  /\ Accept([op |-> "insert", t |-> t, row |-> row])
  /\ UNCHANGED errors

(* Mutant: a delete does not mark the tables as changed. *)
DeleteNotDirty(t, w) ==
  /\ Running
  /\ t \in DOMAIN db
  /\ db' = [db EXCEPT ![t].rows = RowsKept(@, w)]
  /\ Accept([op |-> "delete", t |-> t, w |-> w])
  /\ UNCHANGED <<dirty, errors>>

Delete(t, w) ==
  /\ Running
  /\ t \in DOMAIN db
  /\ LET kept == RowsKept(db[t].rows, w)
     IN  /\ db' = [db EXCEPT ![t].rows = kept]
         /\ dirty' = (dirty \/ Len(kept) # Len(db[t].rows))
  /\ Accept([op |-> "delete", t |-> t, w |-> w])
  /\ UNCHANGED errors

Update(t, patch, w) ==
  /\ Running
  /\ t \in DOMAIN db
  /\ LET done == PatchRows(db[t], patch, w)
     IN  /\ done.ok
         /\ db' = [db EXCEPT ![t] = done.table]
         /\ dirty' = (dirty \/ done.hit)
  /\ Accept([op |-> "update", t |-> t, patch |-> patch, w |-> w])
  /\ UNCHANGED errors

(* A row that does not validate ends the script with the rows before it    *)
(* already patched in memory.                                              *)
UpdateFails(t, patch, w) ==
  /\ pc = "running"
  /\ t \in DOMAIN db
  /\ LET done == PatchRows(db[t], patch, w)
     IN  /\ ~done.ok
         /\ db' = [db EXCEPT ![t] = done.table]
         /\ dirty' = (dirty \/ done.hit)
  /\ pc' = "failed" /\ errors' = TRUE
  /\ UNCHANGED <<disk, dbPath, log, base, before>>

(* A malformed `where` records an error, yet where() answers as if there   *)
(* were no clause: every row is selected, deleted or patched and the       *)
(* script goes on.                                                         *)
MalformedWhere(t) ==
  /\ Running
  /\ t \in DOMAIN db
  /\ \/ /\ db' = [db EXCEPT ![t].rows = <<>>]
        /\ dirty' = (dirty \/ db[t].rows # <<>>)
     \/ \E patch \in Patches :
          LET done == PatchRows(db[t], patch, NoWhere)
          IN  /\ done.ok
              /\ db' = [db EXCEPT ![t] = done.table]
              /\ dirty' = (dirty \/ done.hit)
     \/ UNCHANGED <<db, dirty>>
  /\ errors' = TRUE
  /\ Accept([op |-> "refused"])

(* Any other refused statement makes statement(), and so run(), return     *)
(* false; a script can hold one anywhere.                                  *)
Refused ==
  /\ pc = "running"
  /\ pc' = "failed"
  /\ errors' = TRUE
  /\ UNCHANGED <<disk, db, dbPath, dirty, log, base, before>>

(* End of input: return !hasErrors() && (!dirty_ || saveState(...)). *)
Finish ==
  /\ pc = "running"
  /\ IF errors THEN pc' = "failed" /\ UNCHANGED disk
     ELSE /\ pc' = "committed"
          /\ disk' = IF dirty THEN [disk EXCEPT ![dbPath] = db] ELSE disk
  /\ UNCHANGED <<db, dbPath, dirty, errors, log, base, before>>

Next ==
  \/ Begin \/ Refused \/ Finish
  \/ \E p \in Paths : Database(p)
  \/ \E t \in TableNames :
       \/ MalformedWhere(t)
       \/ \E cols \in Schemas : Table(t, cols)
       \/ \E row \in Rows : Insert(t, row)
       \/ \E w \in Wheres \cup {NoWhere} :
            \/ Delete(t, w)
            \/ \E patch \in Patches : Update(t, patch, w) \/ UpdateFails(t, patch, w)

Spec == Init /\ [][Next]_vars

-----------------------------------------------------------------------------
(* The rows that do not match, in their order: the k-th is the one up to   *)
(* which there are k.                                                      *)
Stays(rows, w) == {i \in DOMAIN rows : ~matches(rows[i], w)}
Rank(rows, w, i) == Cardinality({j \in Stays(rows, w) : j <= i})
Remaining(rows, w) ==
  [k \in 1 .. Rank(rows, w, Len(rows)) |-> rows[CHOOSE i \in Stays(rows, w) : Rank(rows, w, i) = k]]

(* What a statement promises, said without the order in which rows are     *)
(* visited: an update patches all matching rows at once.                   *)
Promise(tables, s) ==
  CASE s.op = "table"   -> IF s.t \in DOMAIN tables THEN tables
                           ELSE Declared(tables, s.t, s.cols)
    [] s.op = "insert"  -> [tables EXCEPT ![s.t].rows = Append(@, s.row)]
    [] s.op = "delete"  -> [tables EXCEPT ![s.t].rows = Remaining(@, s.w)]
    [] s.op = "update"  -> [tables EXCEPT ![s.t].rows =
                              [i \in DOMAIN @ |-> IF matches(@[i], s.w) THEN Patched(@[i], s.patch) ELSE @[i]]]
    [] OTHER            -> tables

(* The effect of a list of statements. *)
Replayed(tables, statements) ==
  LET done[i \in 0 .. Len(statements)] ==
        IF i = 0 THEN tables ELSE Promise(done[i - 1], statements[i])
  IN done[Len(statements)]

(* What constraints mean for a whole table: whatever is stored fits its    *)
(* column, and in a unique column no number is stored twice, as whichever  *)
(* type.                                                                   *)
WellFormed(table) ==
  \A i \in DOMAIN table.rows :
    LET r == table.rows[i]
    IN  /\ {c \in DOMAIN table.cols : table.cols[c].required} \subseteq DOMAIN r
        /\ \A c \in DOMAIN r :
             /\ c \in DOMAIN table.cols
             /\ compatible(table.cols[c].ty, r[c])
             /\ table.cols[c].unique =>
                  \A j \in DOMAIN table.rows \ {i} :
                    c \in DOMAIN table.rows[j] => table.rows[j][c].n # r[c].n

(* Types: the tables in memory were declared, control is one of four.      *)
TypeOK ==
  /\ DOMAIN disk = Paths /\ dbPath \in Paths
  /\ dirty \in BOOLEAN /\ errors \in BOOLEAN
  /\ pc \in {"idle", "running", "committed", "failed"}
  /\ DOMAIN db \subseteq TableNames
  /\ \A t \in DOMAIN db : db[t].cols \in Schemas
  /\ Len(log) <= MaxStatements

(* Schema, required, unique and key constraints hold for every row of every *)
(* stored table, whatever sequence of statements produced it: the checks at *)
(* insert and at each row of an update are enough (validate, l.93).         *)
StoredTablesAreWellFormed ==
  \A p \in Paths : \A t \in DOMAIN disk[p] : WellFormed(disk[p][t])

(* Include/noqeri/database.hpp:9: a whole script is a transaction.  When    *)
(* run() returns true no statement was refused, and the file holds the      *)
(* effect of every statement of the script on what it held before; a script *)
(* that fails, at whichever statement, leaves every file alone, although    *)
(* the tables in memory may already be half changed (statement, l.96-104;   *)
(* run, l.77-82).                                                           *)
WholeScript ==
  /\ pc = "committed" =>
       /\ \A i \in DOMAIN log : log[i].op # "refused"
       /\ disk[dbPath] = Replayed(base, log)
  /\ pc = "failed" => disk = before
=============================================================================
