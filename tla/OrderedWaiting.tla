---------------------------- MODULE OrderedWaiting ----------------------------
(***************************************************************************)
(* What the heap and the priority queue promise.  The heap: numbers, each  *)
(* as often as it was put in, from which the first in order goes first.    *)
(* The priority queue: entries wait in the order in which they came, and   *)
(* the earliest of those with the best priority goes first.                *)
(***************************************************************************)
EXTENDS Integers, SequencesExt, BagsExt

VARIABLES
  waiting,  \* a bag of numbers, or the entries in the order of their arrival
  capacity, \* how many there may be
  least,    \* is the least number or priority the first, or the greatest?
  call      \* the last call: <<what it asked for, its argument, its answer>>

(* The heap.                                                               *)
BagOp == call'[1]
BagArg == call'[2]
BagDoes(answer, after) == call'[3] = answer /\ waiting' = after

Before(m, n) == IF least THEN m < n ELSE m > n
FirstIn(bag) == CHOOSE n \in BagToSet(bag) : \A m \in BagToSet(bag) : ~Before(m, n)
BagOf(s) == FoldLeft(BagAdd, EmptyBag, s)
Exchanged(bag, old, new) == BagAdd(BagRemove(bag, old), new)
AllInOrder(s) == \A i, j \in DOMAIN s : i < j => ~Before(s[j], s[i])

BagNext ==
  /\ UNCHANGED <<capacity, least>>
  /\ \/ /\ BagOp = "push"
        /\ IF BagCardinality(waiting) < capacity THEN BagDoes(TRUE, BagAdd(waiting, BagArg)) ELSE BagDoes(FALSE, waiting)
     \/ /\ BagOp = "pop"
        /\ IF waiting = EmptyBag THEN BagDoes(<<>>, waiting)
           ELSE BagDoes(<<FirstIn(waiting)>>, BagRemove(waiting, FirstIn(waiting)))
     \/ /\ BagOp = "replaceRoot"
        /\ IF waiting = EmptyBag THEN BagDoes(<<>>, waiting)
           ELSE BagDoes(<<FirstIn(waiting)>>, Exchanged(waiting, FirstIn(waiting), BagArg))
     \/ /\ BagOp = "pushPop"
        /\ LET first == FirstIn(BagAdd(waiting, BagArg))
           IN  BagDoes(first, BagRemove(BagAdd(waiting, BagArg), first))
     \/ BagOp = "remove" /\ BagDoes(BagIn(BagArg, waiting), BagRemove(waiting, BagArg))
     \/ BagOp = "update" /\ BagDoes(TRUE, Exchanged(waiting, BagArg[1], BagArg[2]))
     \/ /\ BagOp = "build"
        /\ IF Len(BagArg) <= capacity THEN BagDoes(TRUE, BagOf(BagArg)) ELSE BagDoes(FALSE, waiting)
     \/ /\ BagOp = "drain"
        /\ waiting' = EmptyBag /\ BagOf(call'[3]) = waiting /\ AllInOrder(call'[3])
     \/ BagOp = "clear" /\ BagDoes(TRUE, EmptyBag)

-----------------------------------------------------------------------------
(* The priority queue.                                                     *)
QueueOp == call'[1]
QueueArg == call'[2]
QueueDoes(answer, after) == call'[3] = answer /\ waiting' = after

Better(e, f) == IF least THEN e.priority < f.priority ELSE e.priority > f.priority
IsNext(i) == \A j \in DOMAIN waiting : ~Better(waiting[j], waiting[i]) /\ (j < i => Better(waiting[i], waiting[j]))
Position == CHOOSE i \in DOMAIN waiting : IsNext(i)

(* Every entry leaves before those that are worse or came later. *)
InServiceOrder(s) ==
  \A i, j \in DOMAIN s : i < j =>
    ~Better(s[j], s[i]) /\ (~Better(s[i], s[j]) => IndexFirstSubSeq(<<s[i]>>, waiting) < IndexFirstSubSeq(<<s[j]>>, waiting))

QueueNext ==
  /\ UNCHANGED <<capacity, least>>
  /\ \/ /\ QueueOp = "push"
        /\ IF Len(waiting) < capacity
           THEN call'[3] = TRUE /\ Len(waiting') = Len(waiting) + 1 /\ Front(waiting') = waiting
                /\ Last(waiting').priority = QueueArg
           ELSE QueueDoes(FALSE, waiting)
     \/ /\ QueueOp = "pop"
        /\ IF waiting = <<>> THEN QueueDoes(<<>>, waiting)
           ELSE QueueDoes(<<waiting[Position]>>, RemoveAt(waiting, Position))
     \/ QueueOp = "front" /\ QueueDoes(IF waiting = <<>> THEN <<>> ELSE <<waiting[Position].priority>>, waiting)
     \/ QueueOp = "remove" /\ QueueDoes(TRUE, RemoveFirst(waiting, QueueArg))
     \/ /\ QueueOp = "update"
        /\ QueueDoes(TRUE, [i \in DOMAIN waiting |-> IF waiting[i] = QueueArg[1]
                              THEN [waiting[i] EXCEPT !.priority = QueueArg[2]] ELSE waiting[i]])
     \/ /\ QueueOp = "drain"
        /\ waiting' = <<>> /\ ToSet(call'[3]) = ToSet(waiting) /\ Len(call'[3]) = Len(waiting)
        /\ InServiceOrder(call'[3])
     \/ QueueOp = "clear" /\ QueueDoes(TRUE, <<>>)
=============================================================================
