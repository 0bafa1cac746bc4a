-------------------------------- MODULE LruMap --------------------------------
(***************************************************************************)
(* What the cache promises: a map of bounded size whose entries stand in   *)
(* the order of their last use, from which the least recently used goes.   *)
(***************************************************************************)
EXTENDS Integers, SequencesExt

VARIABLES
  entries,  \* <<key, value>>, the least recently used first
  capacity, \* how many there may be
  call      \* the last call: <<what it asked for, its argument, its answer>>

LruOp == call'[1]
LruArg == call'[2]
LruDoes(answer, after) == call'[3] = answer /\ entries' = after

Has(key) == \E i \in DOMAIN entries : entries[i][1] = key
Place(key) == CHOOSE i \in DOMAIN entries : entries[i][1] = key
EntriesOf(key) == IF Has(key) THEN <<entries[Place(key)]>> ELSE <<>>
Others(key) == IF Has(key) THEN RemoveAt(entries, Place(key)) ELSE entries
KeysIn(s) == [i \in DOMAIN s |-> s[i][1]]
ValuesIn(s) == [i \in DOMAIN s |-> s[i][2]]

(* A map has no key twice. *)
EachKeyOnce == \A i, j \in DOMAIN entries : entries[i][1] = entries[j][1] => i = j

(* What a new entry pushes out. *)
Evicted(key) ==
  IF EntriesOf(key) = <<>> /\ Len(entries) = capacity THEN SubSeq(entries, 1, 1) ELSE <<>>

LruNext ==
  /\ UNCHANGED capacity /\ EachKeyOnce'
  /\ \/ /\ LruOp = "put"
        /\ LET key == LruArg[1]
           IN  IF capacity = 0 THEN LruDoes(<<FALSE, <<>>>>, entries)
               ELSE LruDoes(<<TRUE, Evicted(key)>>,
                      Append(SubSeq(Others(key), Len(Evicted(key)) + 1, Len(Others(key))), LruArg))
     \/ LruOp = "get" /\ LruDoes(ValuesIn(EntriesOf(LruArg)), Others(LruArg) \o EntriesOf(LruArg))
     \/ LruOp = "peek" /\ LruDoes(ValuesIn(EntriesOf(LruArg)), entries)
     \/ LruOp = "touch" /\ LruDoes(EntriesOf(LruArg) # <<>>, Others(LruArg) \o EntriesOf(LruArg))
     \/ LruOp = "remove" /\ LruDoes(EntriesOf(LruArg) # <<>>, Others(LruArg))
     \/ LruOp = "removeOldest" /\ LruDoes(entries # <<>>, SubSeq(entries, 2, Len(entries)))
     \/ LruOp = "rebase" /\ LruDoes(TRUE, entries)
     \/ LruOp = "keys" /\ LruDoes(KeysIn(entries), entries)
     \/ LruOp = "clear" /\ LruDoes(TRUE, <<>>)
=============================================================================
