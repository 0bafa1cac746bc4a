---------------------------- MODULE MCDatabase -----------------------------
(* Two files, one table with at most two columns, rows that collide as     *)
(* int/real, and a table of two rows already on disk; three processes in   *)
(* every surroundings with or without deaths, losses of power and failing  *)
(* renames, one after the other or at the same time.                       *)
EXTENDS Database, TLC

IntV(n) == [ty |-> "Int", n |-> n]
RealV(n) == [ty |-> "Real", n |-> n]
Key == [ty |-> "Int", required |-> TRUE, unique |-> TRUE]
UniqueReal == [ty |-> "Real", required |-> FALSE, unique |-> TRUE]

KeyOnly == [k |-> Key]
KeyAndX == [k |-> Key, x |-> UniqueReal]
MCSchemas == {KeyOnly, KeyAndX}

Row(k, x) == [k |-> IntV(k), x |-> x]
MCRows == {[k |-> IntV(1)], [k |-> IntV(2)], [x |-> RealV(1)], Row(2, IntV(1)), Row(3, RealV(1))}
MCPatches == {[x |-> IntV(1)], [x |-> RealV(2)], [k |-> IntV(1)], [k |-> IntV(3)]}
MCWheres == {<<"k", IntV(1)>>, <<"k", IntV(2)>>, <<"x", RealV(1)>>}

Stored == [t |-> [cols |-> KeyAndX, rows |-> <<Row(1, RealV(1)), [k |-> IntV(2)]>>]]
Absent == [t \in {} |-> {}]
MCInitialDisks == {[a |-> Absent, b |-> Absent], [a |-> Stored, b |-> Absent]}

MCEnvironments == SUBSET {"concurrent", "crashes", "power", "errors"}
DeathsOnly == {{"crashes"}}
=============================================================================
