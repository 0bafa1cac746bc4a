--------------------------- MODULE BoundedSequence ---------------------------
(***************************************************************************)
(* What the ring, the deque and the channel promise: a sequence of bounded *)
(* length that each call reads or changes as a whole, and its answer.      *)
(***************************************************************************)
EXTENDS Integers, SequencesExt

VARIABLES
  items,    \* the sequence
  capacity, \* how long it may be
  closed,   \* are new items refused?
  call      \* the last call: <<what it asked for, its argument, its answer>>

Least(m, n) == IF m < n THEN m ELSE n
Firsts(s, n) == SubSeq(s, 1, Least(n, Len(s)))
Lasts(s, n) == SubSeq(s, Len(s) - Least(n, Len(s)) + 1, Len(s))
Without(s, n) == SubSeq(s, Least(n, Len(s)) + 1, Len(s))
Turned(s, n) == [i \in DOMAIN s |-> s[((i - 1 + n) % Len(s)) + 1]]

Room == IF closed THEN 0 ELSE capacity - Len(items)

op == call'[1]
arg == call'[2]
Does(answer, after) == call'[3] = answer /\ items' = after /\ UNCHANGED closed
Looks(answer) == Does(answer, items)

AddItems ==
  \/ op = "append" /\ IF Room > 0 THEN Does(TRUE, Append(items, arg)) ELSE Looks(FALSE)
  \/ op = "appendAll" /\ LET some == Firsts(arg, Room) IN Does(Len(some), items \o some)
  \/ op = "appendDropping"
     /\ IF capacity > 0 THEN Does(TRUE, Lasts(Append(items, arg), capacity)) ELSE Looks(FALSE)
  \/ op = "appendAllDropping"
     /\ IF capacity > 0 THEN Does(Len(arg), Lasts(items \o arg, capacity)) ELSE Looks(0)
  \/ op = "prepend" /\ IF Room > 0 THEN Does(TRUE, <<arg>> \o items) ELSE Looks(FALSE)
  \/ op = "prependAll" /\ LET some == Firsts(arg, Room) IN Does(Len(some), Reverse(some) \o items)

RemoveItems ==
  \/ op = "takeFirst" /\ Does(Firsts(items, 1), Without(items, 1))
  \/ op = "takeMany" /\ Does(Firsts(items, arg), Without(items, arg))
  \/ op = "takeLast" /\ Does(Lasts(items, 1), Firsts(items, Len(items) - 1))
  \/ op = "dropFirst" /\ Does(Least(arg, Len(items)), Without(items, arg))
  \/ op = "keepLast" /\ Does(Least(arg, Len(items)), Lasts(items, arg))
  \/ op = "dropFirstExactly" /\ IF arg <= Len(items) THEN Does(TRUE, Without(items, arg)) ELSE Looks(FALSE)
  \/ op = "dropLastExactly"
     /\ IF arg <= Len(items) THEN Does(TRUE, Firsts(items, Len(items) - arg)) ELSE Looks(FALSE)
  \/ op = "truncate" /\ IF arg <= Len(items) THEN Does(TRUE, Firsts(items, arg)) ELSE Looks(FALSE)
  \/ op = "removeAt" /\ IF arg < Len(items) THEN Does(TRUE, RemoveAt(items, arg + 1)) ELSE Looks(FALSE)
  \/ op = "removeFirst" /\ Does(arg \in ToSet(items), RemoveFirst(items, arg))
  \/ op = "removeLast" /\ Does(arg \in ToSet(items), Reverse(RemoveFirst(Reverse(items), arg)))
  \/ op = "clear" /\ Does(TRUE, <<>>)

Rearrange ==
  \/ op = "set"
     /\ IF arg[1] < Len(items) THEN Does(TRUE, [items EXCEPT ![arg[1] + 1] = arg[2]]) ELSE Looks(FALSE)
  \/ op = "swap"
     /\ IF arg[1] < Len(items) /\ arg[2] < Len(items)
        THEN Does(TRUE, [items EXCEPT ![arg[1] + 1] = items[arg[2] + 1], ![arg[2] + 1] = items[arg[1] + 1]])
        ELSE Looks(FALSE)
  \/ op = "reverse" /\ Does(TRUE, Reverse(items))
  \/ op = "rotateLeft" /\ Does(TRUE, Turned(items, arg))
  \/ op = "rotateRight" /\ Does(TRUE, Turned(items, arg * (Len(items) - 1)))
  \/ op = "rotateFullLeft"
     /\ IF items = <<>> \/ Room = 0 THEN Does(TRUE, Turned(items, arg)) ELSE Looks(FALSE)
  \/ op = "rotateFullRight"
     /\ IF items = <<>> \/ Room = 0 THEN Does(TRUE, Turned(items, arg * (Len(items) - 1))) ELSE Looks(FALSE)

Look ==
  \/ op = "contents" /\ Looks(items)
  \/ op = "lasts" /\ Looks(Lasts(items, arg))
  \/ op = "rebase" /\ Looks(Len(items) <= arg)

Close ==
  /\ UNCHANGED items
  /\ \/ op = "close" /\ call'[3] = ~closed /\ closed' = TRUE
     \/ op = "reopen" /\ call'[3] = (closed /\ items = <<>>) /\ closed' = (closed /\ items # <<>>)

Next ==
  /\ UNCHANGED capacity
  /\ \/ AddItems \/ RemoveItems \/ Rearrange \/ Look \/ Close
     \/ op = "reset" /\ call'[3] = TRUE /\ items' = <<>> /\ closed' = FALSE
=============================================================================
