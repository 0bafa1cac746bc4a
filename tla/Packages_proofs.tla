-------------------------- MODULE Packages_proofs --------------------------
(***************************************************************************)
(* Proofs about the package manager (Runtime/package-manager.mjs): a       *)
(* project with its lock, over any registry; the walk over the manifests,  *)
(* over any dependencies; and the cache, for any number of processes.      *)
(***************************************************************************)
EXTENDS Packages, SequenceTheorems, TLAPS

-----------------------------------------------------------------------------
(* The project takes its own steps, whichever side a behaviour is about.   *)
LEMMA ProjectSteps == [Next]_vars => (Project!Next /\ world' = world) \/ UNCHANGED projectVars
  BY DEF Next, vars, CacheStep, GraphStep, ProjectStep, Project!Next

LEMMA ProjectInit == Init => Project!Init
  BY DEF Init

(* What the manifest asks for is a set of releases with all that they      *)
(* depend on.                                                              *)
LEMMA NeededIsClosed ==
  /\ Project!Needed \subseteq Offers
  /\ \A r \in Project!Needed : DependsOn[r] \subseteq Project!Needed
  /\ Project!Declared \cap Offers \subseteq Project!Needed
<1>1. ASSUME NEW r \in Project!Needed, NEW d \in DependsOn[r] PROVE d \in Project!Needed
  <2>1. r \in Offers /\ d \in Offers
    BY PackagesAssumption DEF Project!Needed
  <2>2. ASSUME NEW S \in SUBSET Offers, Project!Declared \subseteq S, \A s \in S : DependsOn[s] \subseteq S
        PROVE  d \in S
    BY <2>2 DEF Project!Needed
  <2> QED BY <2>1, <2>2 DEF Project!Needed
<1> QED BY <1>1 DEF Project!Needed

(* A fetch caches what the registry serves, or keeps what there is. *)
LEMMA FetchedTypes ==
  ASSUME Project!TypeOK, NEW S
  PROVE  /\ Project!Fetched(S) \in [Offers -> 0 .. MaxRevision \cup {None}]
         /\ \A r \in Offers : Project!Fetched(S)[r] = cache[r] \/ Project!Fetched(S)[r] = registry[r]
         /\ \A r \in Offers : r \in S => Project!Fetched(S)[r] \in 0 .. MaxRevision
  BY DEF Project!TypeOK, Project!Fetched

LEMMA InitProjectTypes == Init => Project!TypeOK
  BY ProjectInit, PackagesAssumption, NoneAssumption DEF Project!Init, Project!TypeOK

LEMMA StepProjectTypes == Project!TypeOK /\ [Next]_vars => Project!TypeOK'
<1> SUFFICES ASSUME Project!TypeOK, (Project!Next /\ world' = world) \/ UNCHANGED projectVars
             PROVE  Project!TypeOK'
  BY ProjectSteps
<1> USE PackagesAssumption, NoneAssumption, NeededIsClosed, FetchedTypes DEF Project!TypeOK
<1>1. ASSUME NEW r \in Offers, Project!Add(r), world' = world PROVE Project!TypeOK'
  BY <1>1 DEF Project!Add
<1>2. ASSUME NEW r \in Offers, Project!Publish(r), world' = world PROVE Project!TypeOK'
  BY <1>2 DEF Project!Publish
<1>3. ASSUME Project!AddWrite, world' = world PROVE Project!TypeOK'
  BY <1>3 DEF Project!AddWrite
<1>4. ASSUME Project!Install, world' = world PROVE Project!TypeOK'
  BY <1>4 DEF Project!Install
<1>5. ASSUME Project!Walk, world' = world PROVE Project!TypeOK'
  <2>1. cache' \in [Offers -> 0 .. MaxRevision \cup {None}]
    BY <1>5 DEF Project!Walk
  <2>2. plan' \subseteq Project!Items
    <3>1. CASE Project!OneVersionEach(Project!Needed)
      BY <1>5, <3>1 DEF Project!Walk, Project!Items
    <3>2. CASE ~Project!OneVersionEach(Project!Needed)
      BY <1>5, <3>2 DEF Project!Walk
    <3> QED BY <3>1, <3>2
  <2> QED BY <1>5, <2>1, <2>2 DEF Project!Walk
<1>6. ASSUME Project!WriteLock, world' = world PROVE Project!TypeOK'
  BY <1>6 DEF Project!WriteLock
<1>7. ASSUME Project!Fail, world' = world PROVE Project!TypeOK'
  BY <1>7 DEF Project!Fail
<1>8. ASSUME Project!ClearCache, world' = world PROVE Project!TypeOK'
  BY <1>8 DEF Project!ClearCache
<1>9. ASSUME NEW p \in Coordinates, Project!Resolve(p), world' = world PROVE Project!TypeOK'
  BY <1>9 DEF Project!Resolve, Project!Items
<1>10. ASSUME NEW p \in Coordinates, Project!HandEdit(p), world' = world PROVE Project!TypeOK'
  BY <1>10 DEF Project!HandEdit
<1>11. CASE UNCHANGED projectVars BY <1>11 DEF projectVars
<1> QED BY <1>1, <1>2, <1>3, <1>4, <1>5, <1>6, <1>7, <1>8, <1>9, <1>10, <1>11 DEF Project!Next

-----------------------------------------------------------------------------
(* What is about to be locked is complete, so that the lock is.            *)
PlanReleases == {i.rel : i \in plan}
PlanIsComplete ==
  /\ Project!OneVersionEach(PlanReleases)
  /\ \A r \in PlanReleases : DependsOn[r] \subseteq PlanReleases

LEMMA InitPlan == Init => PlanIsComplete /\ LockIsComplete
  BY ProjectInit DEF Project!Init, PlanIsComplete, PlanReleases, LockIsComplete, Project!LockIsComplete, Project!Locked,
                     Project!OneVersionEach

LEMMA StepPlan == Project!TypeOK /\ PlanIsComplete /\ LockIsComplete /\ [Next]_vars => PlanIsComplete' /\ LockIsComplete'
<1> SUFFICES ASSUME Project!TypeOK, PlanIsComplete, LockIsComplete, (Project!Next /\ world' = world) \/ UNCHANGED projectVars
             PROVE  PlanIsComplete' /\ LockIsComplete'
  BY ProjectSteps
<1>1. ASSUME plan' = plan \/ plan' = {}, lock' = lock \/ lock' = Torn PROVE PlanIsComplete' /\ LockIsComplete'
  <2>1. PlanReleases' = PlanReleases \/ PlanReleases' = {}
    BY <1>1 DEF PlanReleases
  <2>2. Project!Locked' = Project!Locked \/ Project!Locked' = {}
    BY <1>1 DEF Project!Locked
  <2> QED BY <2>1, <2>2 DEF PlanIsComplete, LockIsComplete, Project!LockIsComplete, Project!OneVersionEach
<1>2. CASE Project!Walk
  <2>1. CASE Project!OneVersionEach(Project!Needed)
    <3>1. PlanReleases' = Project!Needed
      <4>1. plan' = {[rel |-> r, integrity |-> cache'[r]] : r \in Project!Needed}
        BY <1>2, <2>1 DEF Project!Walk
      <4>2. \A r \in Project!Needed : [rel |-> r, integrity |-> cache'[r]] \in plan'
        BY <4>1
      <4>3. \A i \in plan' : i.rel \in Project!Needed
        BY <4>1
      <4>4. ASSUME NEW r \in Project!Needed PROVE \E i \in plan' : r = i.rel
        <5>1. r = [rel |-> r, integrity |-> cache'[r]].rel
          OBVIOUS
        <5> QED BY <4>2, <5>1
      <4> QED BY <4>3, <4>4 DEF PlanReleases
    <3> QED BY <1>2, <2>1, <3>1, NeededIsClosed
            DEF Project!Walk, PlanIsComplete, LockIsComplete, Project!LockIsComplete, Project!OneVersionEach, Project!Locked
  <2>2. CASE ~Project!OneVersionEach(Project!Needed)
    BY <1>1, <1>2, <2>2 DEF Project!Walk
  <2> QED BY <2>1, <2>2
<1>3. CASE Project!WriteLock
  <2>1. PlanReleases' = {} /\ (Project!Locked' = PlanReleases \/ Project!Locked' = {})
    BY <1>3 DEF Project!WriteLock, PlanReleases, Project!Locked
  <2> QED BY <2>1 DEF PlanIsComplete, LockIsComplete, Project!LockIsComplete, Project!OneVersionEach
<1>4. CASE Project!Fail BY <1>1, <1>4 DEF Project!Fail
<1>5. ASSUME Project!Next, ~Project!Walk, ~Project!WriteLock, ~Project!Fail PROVE plan' = plan /\ lock' = lock
  BY <1>5 DEF Project!Next, Project!Add, Project!Publish, Project!AddWrite, Project!Install, Project!ClearCache,
              Project!Resolve, Project!HandEdit
<1>6. CASE UNCHANGED projectVars BY <1>1, <1>6 DEF projectVars
<1> QED BY <1>1, <1>2, <1>3, <1>4, <1>5, <1>6

(* Whatever commands fail or die, and however the manifest is edited, the  *)
(* lock holds a complete installation, of any packages and dependencies:   *)
(* one version of a package, and with a release everything it depends on   *)
(* (installProject, l.290-295).                                            *)
THEOREM LockIsCompleteAlways == Spec => []LockIsComplete
  BY InitProjectTypes, StepProjectTypes, InitPlan, StepPlan, PTL DEF Spec

-----------------------------------------------------------------------------
(* Where nobody edits, nothing fails and no release changes: between       *)
(* commands the lock has what the manifest asks for.                       *)
AtRevisionZero == {[rel |-> r, integrity |-> 0] : r \in Project!Needed}
QuietLock ==
  world = {} /\ faults = 0 =>
    /\ \A r \in Offers : registry[r] = 0 /\ cache[r] \in {None, 0}
    /\ phase = "locking" => Project!OneVersionEach(Project!Needed) /\ plan = AtRevisionZero
    /\ phase \in {"idle", "adding"} /\ Project!Declared # {} /\ Project!OneVersionEach(Project!Needed) =>
         lock = AtRevisionZero

LEMMA InitQuiet == Init => QuietLock
  BY ProjectInit DEF Project!Init, QuietLock, Project!Declared

LEMMA StepQuiet == Project!TypeOK /\ QuietLock /\ [Next]_vars => QuietLock'
<1> SUFFICES ASSUME Project!TypeOK, QuietLock, (Project!Next /\ world' = world) \/ UNCHANGED projectVars,
                    world' = {}, faults' = 0
             PROVE  QuietLock'
  BY ProjectSteps DEF QuietLock
<1>1. world = {} /\ faults = 0 /\ ~Project!Fail
  <2>1. world = {}
    BY DEF projectVars
  <2>2. faults \in Nat
    BY DEF Project!TypeOK
  <2>3. ~Project!Fail
    BY <2>2 DEF Project!Fail
  <2>4. faults = 0
    BY <2>3 DEF projectVars, Project!Next, Project!Add, Project!Publish, Project!AddWrite, Project!Install,
                Project!Walk, Project!WriteLock, Project!ClearCache, Project!Resolve, Project!HandEdit
  <2> QED BY <2>1, <2>3, <2>4
<1>2. /\ \A r \in Offers : registry[r] = 0 /\ cache[r] \in {None, 0}
      /\ phase = "locking" => Project!OneVersionEach(Project!Needed) /\ plan = AtRevisionZero
      /\ phase \in {"idle", "adding"} /\ Project!Declared # {} /\ Project!OneVersionEach(Project!Needed) =>
           lock = AtRevisionZero
  BY <1>1 DEF QuietLock
<1>3. \A S : \A r \in Offers :
        Project!Fetched(S)[r] \in {None, 0} /\ (r \in S => Project!Fetched(S)[r] = 0)
  BY <1>2, FetchedTypes DEF Project!Fetched
<1>4. ASSUME project' = project
      PROVE  /\ Project!Declared' = Project!Declared /\ Project!Needed' = Project!Needed
             /\ AtRevisionZero' = AtRevisionZero
  BY <1>4 DEF Project!Declared, Project!Needed, AtRevisionZero
<1> USE DEF QuietLock
<1>5. CASE UNCHANGED projectVars
  BY <1>2, <1>4, <1>5 DEF projectVars, Project!OneVersionEach
<1>6. ASSUME NEW r \in Offers, Project!Add(r) PROVE QuietLock'
  BY <1>2, <1>3, <1>4, <1>6 DEF Project!Add, Project!OneVersionEach
<1>7. ASSUME NEW r \in Offers, Project!Publish(r) PROVE FALSE
  BY <1>1, <1>7 DEF Project!Publish, Project!May
<1>8. CASE Project!AddWrite
  BY <1>2, <1>8 DEF Project!AddWrite
<1>9. CASE Project!Install
  BY <1>2, <1>4, <1>9 DEF Project!Install
<1>10. CASE Project!Walk
  <2>1. \A r \in Offers : registry'[r] = 0 /\ cache'[r] \in {None, 0}
    BY <1>2, <1>3, <1>10 DEF Project!Walk
  <2>2. CASE Project!OneVersionEach(Project!Needed)
    <3>1. plan' = AtRevisionZero
      BY <1>3, <1>10, <2>2, NeededIsClosed DEF Project!Walk, AtRevisionZero
    <3> QED BY <1>4, <1>10, <2>1, <2>2, <3>1 DEF Project!Walk, Project!OneVersionEach
  <2>3. CASE ~Project!OneVersionEach(Project!Needed)
    BY <1>4, <1>10, <2>1, <2>3 DEF Project!Walk, Project!OneVersionEach
  <2> QED BY <2>2, <2>3
<1>11. CASE Project!WriteLock
  BY <1>2, <1>4, <1>11 DEF Project!WriteLock, Project!OneVersionEach
<1>12. CASE Project!ClearCache
  BY <1>2, <1>4, <1>12 DEF Project!ClearCache, Project!OneVersionEach
<1>13. ASSUME NEW p \in Coordinates, Project!Resolve(p) PROVE QuietLock'
  BY <1>2, <1>3, <1>4, <1>13 DEF Project!Resolve, Project!OneVersionEach
<1>14. ASSUME NEW p \in Coordinates, Project!HandEdit(p) PROVE FALSE
  BY <1>1, <1>14 DEF Project!HandEdit, Project!May
<1> QED BY <1>1, <1>5, <1>6, <1>7, <1>8, <1>9, <1>10, <1>11, <1>12, <1>13, <1>14 DEF Project!Next

(* Only an import changes the answer, and it finds what the lock names. *)
LEMMA AnswerIsLocked ==
  ASSUME Project!TypeOK, QuietLock, Project!Next, world = {}, faults = 0, answer' # answer,
         Project!OneVersionEach(Project!Needed)
  PROVE  lock \notin {None, Torn} /\ answer' \in lock
<1>1. PICK p \in Coordinates : Project!Resolve(p)
  BY DEF Project!Next, Project!Add, Project!Publish, Project!AddWrite, Project!Install, Project!Walk,
         Project!WriteLock, Project!Fail, Project!ClearCache, Project!HandEdit
<1>2. project[p] \in Offers /\ project[p] \in Project!Declared
  BY <1>1 DEF Project!Resolve, Project!TypeOK, Project!Declared
<1>3. project[p] \in Project!Needed
  BY <1>2, NeededIsClosed
<1>4. cache'[project[p]] = 0
  <2>1. cache' = Project!Fetched({project[p]}) /\ cache[project[p]] \in {None, 0} /\ registry[project[p]] = 0
    BY <1>1, <1>2 DEF Project!Resolve, QuietLock
  <2> QED BY <1>2, <2>1 DEF Project!Fetched
<1>5. lock = AtRevisionZero
  BY <1>1, <1>2 DEF Project!Resolve, QuietLock
<1>6. answer' \in lock
  BY <1>1, <1>3, <1>4, <1>5 DEF Project!Resolve, AtRevisionZero
<1>7. AtRevisionZero \in SUBSET [rel : Offers, integrity : 0 .. MaxRevision]
  BY NeededIsClosed, PackagesAssumption DEF AtRevisionZero
<1>8. lock \notin {None, Torn}
  BY <1>5, <1>7, NoneAssumption
<1> QED BY <1>6, <1>8

(* As long as nobody edits the manifest, no command fails, and the         *)
(* registry never changes a release, an import that is resolved between    *)
(* commands has exactly what the lock names, unless the last `add` ended   *)
(* in a version conflict: add writes the manifest before it knows (l.300). *)
THEOREM QuietWorldResolvesLockedAlways == Spec => QuietWorldResolvesLocked
<1> DEFINE Locks == world = {} /\ faults = 0 /\ answer' # answer /\ Project!OneVersionEach(Project!Needed)
                      => lock \notin {None, Torn} /\ answer' \in lock
<1>1. Project!TypeOK /\ QuietLock /\ [Next]_vars => [Locks]_projectVars
  BY ProjectSteps, AnswerIsLocked
<1>2. Spec => [][Locks]_projectVars
  <2> HIDE DEF Locks
  <2> QED BY <1>1, InitProjectTypes, StepProjectTypes, InitQuiet, StepQuiet, PTL DEF Spec
<1> QED BY <1>2 DEF QuietWorldResolvesLocked, Project!QuietWorldResolvesLocked, Project!vars, projectVars

-----------------------------------------------------------------------------
(* The walk takes its own steps. *)
LEMMA GraphSteps == [Next]_vars => Graph!Next \/ UNCHANGED graphVars
  BY DEF Next, vars, CacheStep, GraphStep, ProjectStep

LEMMA GraphInit == Init => Graph!Init
  BY DEF Init

(* What the project depends on is a set of releases with all that they     *)
(* depend on.                                                              *)
LEMMA ClosureIsClosed ==
  ASSUME graph \in [Releases -> Seq(Releases)], root \in Seq(Releases)
  PROVE  /\ Graph!RootSet \subseteq Graph!Closure
         /\ \A r \in Graph!Closure : Graph!Edges(r) \subseteq Graph!Closure
<1>1. Graph!RootSet \subseteq Releases /\ \A r \in Releases : Graph!Edges(r) \subseteq Releases
  BY DEF Graph!RootSet, Graph!Edges
<1>2. ASSUME NEW r \in Graph!Closure, NEW d \in Graph!Edges(r) PROVE d \in Graph!Closure
  BY <1>1, <1>2 DEF Graph!Closure, Graph!Closed
<1> QED BY <1>1, <1>2 DEF Graph!Closure, Graph!Closed

LEMMA ClosureIsLeast ==
  ASSUME NEW S \in SUBSET Releases, Graph!Closed(S)
  PROVE  Graph!Closure \subseteq S
  BY DEF Graph!Closure

(* The calls in progress: the project below, and above it releases that    *)
(* are resolved, each once.                                                *)
Frames == [rel : Releases \cup {"project"}, todo : Seq(Releases)]
InStack == 2 .. Len(stack)
ResolvedSet == {resolved[p] : p \in DOMAIN resolved}
TodoSet(f) == {f.todo[j] : j \in DOMAIN f.todo}

WalkTypes ==
  /\ graph \in [Releases -> Seq(Releases)] /\ root \in Seq(Releases)
  /\ stack \in Seq(Frames) /\ Len(stack) \in 1 .. MaxDepth + 2
  /\ DOMAIN resolved \subseteq {r.pkg : r \in Releases}
  /\ \A p \in DOMAIN resolved : resolved[p] \in Releases /\ resolved[p].pkg = p
  /\ visiting = {stack[i].rel : i \in InStack}
  /\ status \in {"running", "installed", "depth", "conflict", "cycle", "unavailable"}
  /\ \A i \in InStack : stack[i].rel \in ResolvedSet
  /\ \A i, j \in InStack : stack[i].rel = stack[j].rel => i = j

(* What a list holds, head and tail. *)
LEMMA HeadAndTail ==
  ASSUME NEW td \in Seq(Releases), td # <<>>
  PROVE  /\ Head(td) \in Releases /\ Tail(td) \in Seq(Releases)
         /\ {td[j] : j \in DOMAIN td} = {Tail(td)[j] : j \in DOMAIN Tail(td)} \cup {Head(td)}
<1>1. /\ Head(td) \in Releases /\ Tail(td) \in Seq(Releases) /\ Head(td) = td[1]
      /\ Len(td) \in Nat /\ Len(td) >= 1 /\ Len(Tail(td)) = Len(td) - 1
      /\ DOMAIN td = 1 .. Len(td) /\ DOMAIN Tail(td) = 1 .. Len(td) - 1
      /\ \A j \in 1 .. Len(td) - 1 : Tail(td)[j] = td[j + 1]
  <2>1. Len(td) \in Nat \ {0} /\ DOMAIN td = 1 .. Len(td)
    BY LenProperties, EmptySeq
  <2>2. /\ Head(td) \in Releases /\ Tail(td) \in Seq(Releases) /\ Len(Tail(td)) = Len(td) - 1
        /\ \A j \in 1 .. Len(Tail(td)) : Tail(td)[j] = td[j + 1]
    BY HeadTailProperties
  <2>3. DOMAIN Tail(td) = 1 .. Len(Tail(td))
    BY <2>2, LenProperties
  <2>4. Head(td) = td[1]
    BY <2>1
  <2> QED BY <2>1, <2>2, <2>3, <2>4
<1>2. \A j \in 1 .. Len(td) : j = 1 \/ (j - 1 \in 1 .. Len(td) - 1 /\ td[j] = Tail(td)[j - 1])
  <2> TAKE j \in 1 .. Len(td)
  <2>1. CASE j # 1
    <3>1. j - 1 \in 1 .. Len(td) - 1 /\ (j - 1) + 1 = j
      BY <1>1, <2>1
    <3> QED BY <1>1, <3>1
  <2> QED BY <2>1
<1>3. \A j \in DOMAIN Tail(td) : j + 1 \in DOMAIN td /\ Tail(td)[j] = td[j + 1]
  BY <1>1
<1>4. ASSUME NEW j \in DOMAIN td PROVE td[j] \in {Tail(td)[k] : k \in DOMAIN Tail(td)} \cup {Head(td)}
  <2>1. CASE j = 1 BY <1>1, <2>1
  <2>2. CASE j # 1
    <3>1. j - 1 \in DOMAIN Tail(td) /\ td[j] = Tail(td)[j - 1]
      BY <1>1, <1>2, <2>2
    <3> QED BY <3>1
  <2> QED BY <2>1, <2>2
<1>5. {Tail(td)[j] : j \in DOMAIN Tail(td)} \cup {Head(td)} \subseteq {td[j] : j \in DOMAIN td}
  BY <1>1, <1>3
<1> QED BY <1>1, <1>4, <1>5

(* The caller's loop moves on by one dependency. *)
LEMMA SkipShape ==
  ASSUME stack \in Seq(Frames), stack # <<>>, Graph!Top.todo # <<>>,
         NEW n, n = Len(stack), NEW sk, sk = Graph!Skip
  PROVE  /\ n \in Nat /\ n >= 1
         /\ sk \in Seq(Frames) /\ Len(sk) = n
         /\ \A i \in 1 .. n : sk[i].rel = stack[i].rel
         /\ \A i \in 1 .. n : i # n => sk[i] = stack[i]
         /\ Head(Graph!Top.todo) \in Releases
         /\ TodoSet(stack[n]) = TodoSet(sk[n]) \cup {Head(Graph!Top.todo)}
<1> DEFINE td == stack[n].todo
           top == [stack[n] EXCEPT !.todo = Tail(td)]
<1>1. n \in Nat /\ n >= 1 /\ n \in 1 .. Len(stack) /\ Graph!Top.todo = td
  <2>1. Len(stack) \in Nat \ {0}
    BY EmptySeq
  <2> QED BY <2>1 DEF Graph!Top
<1>2. stack[n] \in Frames
  BY <1>1, ElementOfSeq
<1>3. td \in Seq(Releases) /\ td # <<>> /\ stack[n].rel \in Releases \cup {"project"}
  BY <1>1, <1>2 DEF Frames
<1>4. /\ Head(td) \in Releases /\ Tail(td) \in Seq(Releases)
      /\ {td[j] : j \in DOMAIN td} = {Tail(td)[j] : j \in DOMAIN Tail(td)} \cup {Head(td)}
  BY <1>3, HeadAndTail
<1>5. top \in Frames /\ top.rel = stack[n].rel /\ top.todo = Tail(td)
  BY <1>2, <1>3, <1>4 DEF Frames
<1>6. sk = [stack EXCEPT ![n] = top]
  BY DEF Graph!Skip
<1>7. sk \in Seq(Frames) /\ Len(sk) = n /\ \A j \in 1 .. n : sk[j] = IF j = n THEN top ELSE stack[j]
  <2> HIDE DEF top, td
  <2> QED BY <1>1, <1>5, <1>6, ExceptSeq
<1>8. sk[n] = top
  BY <1>1, <1>7
<1>9. TodoSet(stack[n]) = TodoSet(sk[n]) \cup {Head(td)}
  <2>1. TodoSet(stack[n]) = {td[j] : j \in DOMAIN td}
    BY DEF TodoSet
  <2>2. sk[n].todo = Tail(td)
    BY <1>5, <1>8
  <2>3. TodoSet(sk[n]) = {Tail(td)[j] : j \in DOMAIN Tail(td)}
    <3> HIDE DEF td
    <3> QED BY <2>2 DEF TodoSet
  <2> QED BY <1>4, <2>1, <2>3
<1> HIDE DEF top, td
<1>10. \A i \in 1 .. n : sk[i].rel = stack[i].rel
  BY <1>5, <1>7
<1> QED BY <1>1, <1>4, <1>7, <1>9, <1>10

(* What that does to what is still to be visited. *)
LEMMA SkipKeeps ==
  ASSUME stack \in Seq(Frames), stack # <<>>, Graph!Top.todo # <<>>,
         NEW dep, dep = Head(Graph!Top.todo), NEW sk, sk = Graph!Skip
  PROVE  /\ Len(stack) \in Nat /\ Len(stack) >= 1
         /\ sk \in Seq(Frames) /\ Len(sk) = Len(stack)
         /\ dep \in Releases /\ dep \in TodoSet(stack[Len(stack)])
         /\ \A i \in 1 .. Len(stack) : /\ sk[i].rel = stack[i].rel
                                       /\ TodoSet(sk[i]) \subseteq TodoSet(stack[i])
                                       /\ TodoSet(stack[i]) \subseteq TodoSet(sk[i]) \cup {dep}
<1> DEFINE n == Len(stack)
<1>1. /\ n \in Nat /\ n >= 1
      /\ sk \in Seq(Frames) /\ Len(sk) = n
      /\ \A i \in 1 .. n : sk[i].rel = stack[i].rel
      /\ \A i \in 1 .. n : i # n => sk[i] = stack[i]
      /\ dep \in Releases
      /\ TodoSet(stack[n]) = TodoSet(sk[n]) \cup {dep}
  BY SkipShape
<1>2. ASSUME NEW i \in 1 .. n
      PROVE  TodoSet(sk[i]) \subseteq TodoSet(stack[i]) /\ TodoSet(stack[i]) \subseteq TodoSet(sk[i]) \cup {dep}
  <2>1. CASE i = n BY <1>1, <2>1
  <2>2. CASE i # n BY <1>1, <2>2
  <2> QED BY <2>1, <2>2
<1> QED BY <1>1, <1>2

-----------------------------------------------------------------------------
(* Everything found belongs to the project, and everything that belongs to *)
(* it is found or still to be visited by a call in progress.               *)
Found ==
  /\ ResolvedSet \subseteq Graph!Closure
  /\ \A i \in 1 .. Len(stack) : TodoSet(stack[i]) \subseteq Graph!Closure

Pending(r, d) == \E i \in InStack : stack[i].rel = r /\ d \in TodoSet(stack[i])

NothingMissed ==
  /\ Graph!RootSet \subseteq ResolvedSet \cup TodoSet(stack[1])
  /\ \A r \in ResolvedSet : \A d \in Graph!Edges(r) : d \in ResolvedSet \/ Pending(r, d)

EndsEmpty == status = "installed" => Len(stack) = 1 /\ stack[1].todo = <<>>

WalkInv == WalkTypes /\ Found /\ NothingMissed /\ EndsEmpty /\ WalkIsExact

LEMMA InitWalk == Init => WalkInv
<1> SUFFICES ASSUME Graph!Init PROVE WalkInv
  BY GraphInit
<1> DEFINE fr == [rel |-> "project", todo |-> root]
<1>1. graph \in [Releases -> Seq(Releases)] /\ root \in Seq(Releases) /\ stack = <<fr>> /\ fr \in Frames
  BY PackagesAssumption DEF Graph!Init, Frames
<1>2. stack \in Seq(Frames) /\ Len(stack) = 1 /\ stack[1] = fr /\ InStack = {}
  <2> HIDE DEF fr
  <2> QED BY <1>1 DEF InStack
<1>3. ResolvedSet = {}
  BY DEF Graph!Init, ResolvedSet
<1>4. TodoSet(stack[1]) = Graph!RootSet
  BY <1>2 DEF TodoSet, Graph!RootSet
<1>5. WalkTypes
  <2> HIDE DEF fr
  <2> QED BY <1>1, <1>2, PackagesAssumption DEF WalkTypes, Graph!Init
<1>6. Found
  BY <1>1, <1>2, <1>3, <1>4, ClosureIsClosed DEF Found
<1>7. NothingMissed
  BY <1>3, <1>4 DEF NothingMissed
<1> QED BY <1>5, <1>6, <1>7 DEF WalkInv, EndsEmpty, WalkIsExact, Graph!InstalledIsClosure, Graph!ConflictIsReal, Graph!Init

(* A walk that ends leaves everything as it is. *)
LEMMA EndKeeps ==
  ASSUME WalkInv, NEW result \in {"installed", "depth", "conflict", "cycle", "unavailable"}, Graph!End(result),
         result = "installed" => Len(stack) = 1 /\ stack[1].todo = <<>>,
         result = "conflict" => \E r, s \in Graph!Closure : r.pkg = s.pkg /\ r # s
  PROVE  WalkInv'
<1>1. UNCHANGED <<graph, root, resolved, visiting, stack>> /\ status' = result
  BY DEF Graph!End
<1>2. /\ ResolvedSet' = ResolvedSet /\ InStack' = InStack /\ Graph!Closure' = Graph!Closure
      /\ Graph!RootSet' = Graph!RootSet /\ \A r : Graph!Edges(r)' = Graph!Edges(r)
  BY <1>1 DEF ResolvedSet, InStack, Graph!Closure, Graph!Closed, Graph!RootSet, Graph!Edges
<1>3. WalkTypes' /\ Found' /\ NothingMissed' /\ EndsEmpty'
  BY <1>1, <1>2 DEF WalkInv, WalkTypes, Found, NothingMissed, Pending, EndsEmpty
<1>4. result = "installed" => ResolvedSet = Graph!Closure
  <2> SUFFICES ASSUME result = "installed" PROVE ResolvedSet = Graph!Closure
    OBVIOUS
  <2>0. Len(stack) = 1 /\ stack[1].todo = <<>>
    OBVIOUS
  <2>1. InStack = {} /\ TodoSet(stack[1]) = {}
    <3>1. InStack = {}
      BY <2>0 DEF InStack
    <3>2. DOMAIN stack[1].todo = {}
      BY <2>0
    <3> QED BY <3>1, <3>2 DEF TodoSet
  <2>2. Graph!Closed(ResolvedSet)
    <3>1. ASSUME NEW r \in ResolvedSet, NEW d \in Graph!Edges(r) PROVE d \in ResolvedSet
      BY <2>1, <3>1 DEF WalkInv, NothingMissed, Pending
    <3>2. Graph!RootSet \subseteq ResolvedSet
      BY <2>1 DEF WalkInv, NothingMissed
    <3> QED BY <3>1, <3>2 DEF Graph!Closed
  <2>3. ResolvedSet \subseteq Releases
    BY DEF WalkInv, WalkTypes, ResolvedSet
  <2> QED BY <2>2, <2>3, ClosureIsLeast DEF WalkInv, Found
<1>5. \A r, s \in ResolvedSet : r.pkg = s.pkg => r = s
  BY DEF WalkInv, WalkTypes, ResolvedSet
<1> QED BY <1>1, <1>2, <1>3, <1>4, <1>5
        DEF WalkInv, WalkIsExact, Graph!InstalledIsClosure, Graph!ConflictIsReal, ResolvedSet

(* A dependency that is already resolved is passed over. *)
LEMMA SkipStep ==
  ASSUME WalkInv, status = "running", Graph!Top.todo # <<>>,
         NEW dep, dep = Head(Graph!Top.todo), dep \in ResolvedSet,
         stack' = Graph!Skip, UNCHANGED <<graph, root, resolved, visiting, status>>
  PROVE  WalkInv'
<1>1. stack \in Seq(Frames) /\ stack # <<>>
  BY EmptySeq DEF WalkInv, WalkTypes
<1>2. /\ Len(stack) \in Nat /\ Len(stack) >= 1
      /\ stack' \in Seq(Frames) /\ Len(stack') = Len(stack)
      /\ dep \in Releases /\ dep \in TodoSet(stack[Len(stack)])
      /\ \A i \in 1 .. Len(stack) : /\ stack'[i].rel = stack[i].rel
                                    /\ TodoSet(stack'[i]) \subseteq TodoSet(stack[i])
                                    /\ TodoSet(stack[i]) \subseteq TodoSet(stack'[i]) \cup {dep}
  BY <1>1, SkipKeeps
<1>3. /\ ResolvedSet' = ResolvedSet /\ InStack' = InStack /\ Graph!Closure' = Graph!Closure
      /\ Graph!RootSet' = Graph!RootSet /\ \A r : Graph!Edges(r)' = Graph!Edges(r)
  BY <1>2 DEF ResolvedSet, InStack, Graph!Closure, Graph!Closed, Graph!RootSet, Graph!Edges
<1>4. \A i \in InStack : i \in 1 .. Len(stack)
  BY <1>2 DEF InStack
<1>5. WalkTypes'
  <2>1. {stack'[i].rel : i \in InStack} = {stack[i].rel : i \in InStack}
    BY <1>2, <1>4
  <2>2. \A i \in InStack : stack'[i].rel = stack[i].rel
    BY <1>2, <1>4
  <2>3. (visiting = {stack[i].rel : i \in InStack})'
    BY <1>3, <2>1 DEF WalkInv, WalkTypes
  <2>4. (\A i \in InStack : stack[i].rel \in ResolvedSet)'
    BY <1>3, <2>2 DEF WalkInv, WalkTypes
  <2>5. (\A i, j \in InStack : stack[i].rel = stack[j].rel => i = j)'
    BY <1>3, <2>2 DEF WalkInv, WalkTypes
  <2> QED BY <1>2, <2>3, <2>4, <2>5 DEF WalkInv, WalkTypes
<1>6. Found'
  BY <1>2, <1>3 DEF WalkInv, Found
<1>7. NothingMissed'
  <2>1. (Graph!RootSet \subseteq ResolvedSet \cup TodoSet(stack[1]))'
    BY <1>2, <1>3 DEF WalkInv, NothingMissed
  <2>2. ASSUME NEW r \in ResolvedSet, NEW d \in Graph!Edges(r), d \notin ResolvedSet PROVE Pending(r, d)'
    <3>1. PICK i \in InStack : stack[i].rel = r /\ d \in TodoSet(stack[i])
      BY <2>2 DEF WalkInv, NothingMissed, Pending
    <3>2. i \in InStack' /\ stack'[i].rel = r /\ d \in TodoSet(stack'[i])
      BY <1>2, <1>3, <1>4, <2>2, <3>1
    <3> QED BY <3>2 DEF Pending
  <2> QED BY <1>3, <2>1, <2>2 DEF NothingMissed
<1> QED BY <1>5, <1>6, <1>7 DEF WalkInv, EndsEmpty, WalkIsExact, Graph!InstalledIsClosure, Graph!ConflictIsReal

(* A package that is met for the first time is resolved before its own     *)
(* dependencies are visited.                                               *)
Pushes(dep) ==
  /\ status = "running" /\ Graph!Top.todo # <<>> /\ Graph!Depth <= MaxDepth
  /\ dep = Head(Graph!Top.todo) /\ dep.pkg \notin DOMAIN resolved
  /\ visiting' = visiting \cup {dep}
  /\ resolved' = [p \in DOMAIN resolved \cup {dep.pkg} |-> IF p = dep.pkg THEN dep ELSE resolved[p]]
  /\ stack' = Append(Graph!Skip, [rel |-> dep, todo |-> graph[dep]])
  /\ UNCHANGED <<graph, root, status>>

LEMMA PushStep ==
  ASSUME WalkInv, NEW dep, Pushes(dep)
  PROVE  WalkInv'
<1> DEFINE n == Len(stack)
<1>f. PICK fr : fr = [rel |-> dep, todo |-> graph[dep]]
  OBVIOUS
<1>u. UNCHANGED <<graph, root, status>> /\ visiting' = visiting \cup {dep}
  BY DEF Pushes
<1>0. WalkTypes /\ stack \in Seq(Frames) /\ stack # <<>>
  BY EmptySeq DEF WalkInv, WalkTypes
<1>s. PICK sk : sk = Graph!Skip
  OBVIOUS
<1>1. /\ n \in Nat /\ n >= 1
      /\ sk \in Seq(Frames) /\ Len(sk) = n
      /\ dep \in Releases /\ dep \in TodoSet(stack[n])
      /\ \A i \in 1 .. n : /\ sk[i].rel = stack[i].rel
                           /\ TodoSet(sk[i]) \subseteq TodoSet(stack[i])
                           /\ TodoSet(stack[i]) \subseteq TodoSet(sk[i]) \cup {dep}
  BY <1>0, <1>s, SkipKeeps DEF Pushes
<1>2. fr \in Frames /\ fr.rel = dep /\ TodoSet(fr) = Graph!Edges(dep)
  BY <1>0, <1>1, <1>f DEF Frames, WalkTypes, TodoSet, Graph!Edges
<1>3. /\ stack' \in Seq(Frames) /\ Len(stack') = n + 1
      /\ stack'[n + 1] = fr /\ \A i \in 1 .. n : stack'[i] = sk[i]
  <2>1. stack' = Append(sk, fr)
    BY <1>s, <1>f DEF Pushes
  <2> QED BY <1>1, <1>2, <2>1, AppendProperties
<1>4. \A i \in 1 .. n : /\ stack'[i].rel = stack[i].rel
                        /\ TodoSet(stack'[i]) \subseteq TodoSet(stack[i])
                        /\ TodoSet(stack[i]) \subseteq TodoSet(stack'[i]) \cup {dep}
  BY <1>1, <1>3
<1>5. n + 1 \in InStack' /\ InStack' = InStack \cup {n + 1} /\ \A i \in InStack : i \in 1 .. n
  BY <1>1, <1>3 DEF InStack
<1>6. ResolvedSet' = ResolvedSet \cup {dep} /\ dep \notin ResolvedSet
  <2>1. \A p \in DOMAIN resolved : resolved'[p] = resolved[p]
    BY DEF Pushes
  <2>2. resolved'[dep.pkg] = dep /\ DOMAIN resolved' = DOMAIN resolved \cup {dep.pkg}
    BY DEF Pushes
  <2>3. ResolvedSet \cup {dep} \subseteq ResolvedSet'
    BY <2>1, <2>2 DEF ResolvedSet
  <2>4. ResolvedSet' \subseteq ResolvedSet \cup {dep}
    BY <2>1, <2>2 DEF ResolvedSet
  <2>5. dep \notin ResolvedSet
    BY <1>0 DEF WalkTypes, ResolvedSet, Pushes
  <2> QED BY <2>3, <2>4, <2>5
<1>7. /\ Graph!Closure' = Graph!Closure
      /\ Graph!RootSet' = Graph!RootSet /\ \A r : Graph!Edges(r)' = Graph!Edges(r)
  BY <1>u DEF Graph!Closure, Graph!Closed, Graph!RootSet, Graph!Edges
<1>8. stack'[n + 1].rel = dep /\ TodoSet(stack'[n + 1]) = Graph!Edges(dep)
  BY <1>2, <1>3
<1>9. WalkTypes'
  <2>1. (\A p \in DOMAIN resolved : resolved[p] \in Releases /\ resolved[p].pkg = p)'
    BY <1>0, <1>1 DEF WalkTypes, Pushes
  <2>2. (DOMAIN resolved \subseteq {r.pkg : r \in Releases})'
    BY <1>0, <1>1 DEF WalkTypes, Pushes
  <2>3. (visiting = {stack[i].rel : i \in InStack})'
    <3>1. \A i \in InStack : stack'[i].rel = stack[i].rel
      BY <1>4, <1>5
    <3>2. visiting' = {stack[i].rel : i \in InStack} \cup {dep}
      BY <1>0, <1>u DEF WalkTypes
    <3>3. {stack'[i].rel : i \in InStack \cup {n + 1}} = {stack[i].rel : i \in InStack} \cup {dep}
      BY <1>8, <3>1
    <3> QED BY <1>5, <3>2, <3>3
  <2>4. (\A i \in InStack : stack[i].rel \in ResolvedSet)'
    BY <1>0, <1>4, <1>5, <1>6, <1>8 DEF WalkTypes
  <2>5. (\A i, j \in InStack : stack[i].rel = stack[j].rel => i = j)'
    <3>1. \A i \in InStack : stack'[i].rel = stack[i].rel /\ stack[i].rel # dep
      BY <1>0, <1>4, <1>5, <1>6 DEF WalkTypes
    <3>2. \A i, j \in InStack : stack'[i].rel = stack'[j].rel => i = j
      BY <1>0, <3>1 DEF WalkTypes
    <3>3. \A i, j \in InStack \cup {n + 1} : stack'[i].rel = stack'[j].rel => i = j
      BY <1>8, <3>1, <3>2
    <3> QED BY <1>5, <3>3
  <2>6. (Len(stack) \in 1 .. MaxDepth + 2)'
    BY <1>1, <1>3, PackagesAssumption DEF Graph!Depth, Pushes
  <2> QED BY <1>0, <1>u, <1>3, <2>1, <2>2, <2>3, <2>4, <2>5, <2>6 DEF WalkTypes
<1>10. dep \in Graph!Closure /\ Graph!Edges(dep) \subseteq Graph!Closure
  BY <1>0, <1>1, ClosureIsClosed DEF WalkInv, WalkTypes, Found
<1>11. Found'
  <2>1. (\A i \in 1 .. Len(stack) : TodoSet(stack[i]) \subseteq Graph!Closure)'
    <3> SUFFICES ASSUME NEW i \in 1 .. n + 1 PROVE TodoSet(stack'[i]) \subseteq Graph!Closure
      BY <1>3, <1>7
    <3>1. CASE i \in 1 .. n BY <1>4, <3>1 DEF WalkInv, Found
    <3>2. CASE i = n + 1 BY <1>8, <1>10, <3>2
    <3> QED BY <1>1, <3>1, <3>2
  <2> QED BY <1>6, <1>7, <1>10, <2>1 DEF WalkInv, Found
<1>12. NothingMissed'
  <2>1. (Graph!RootSet \subseteq ResolvedSet \cup TodoSet(stack[1]))'
    <3>1. TodoSet(stack[1]) \subseteq TodoSet(stack'[1]) \cup {dep}
      BY <1>1, <1>4
    <3> QED BY <1>6, <1>7, <3>1 DEF WalkInv, NothingMissed
  <2>2. ASSUME NEW r \in ResolvedSet, NEW d \in Graph!Edges(r), d \notin ResolvedSet'
        PROVE  Pending(r, d)'
    <3>1. PICK i \in InStack : stack[i].rel = r /\ d \in TodoSet(stack[i])
      BY <1>6, <2>2 DEF WalkInv, NothingMissed, Pending
    <3>2. i \in InStack' /\ stack'[i].rel = r /\ d \in TodoSet(stack'[i])
      BY <1>4, <1>5, <1>6, <2>2, <3>1
    <3> QED BY <3>2 DEF Pending
  <2>3. ASSUME NEW d \in Graph!Edges(dep) PROVE Pending(dep, d)'
    BY <1>5, <1>8 DEF Pending
  <2> QED BY <1>6, <1>7, <2>1, <2>2, <2>3 DEF NothingMissed
<1> QED BY <1>9, <1>11, <1>12, <1>u DEF Pushes, WalkInv, EndsEmpty, WalkIsExact, Graph!InstalledIsClosure, Graph!ConflictIsReal

(* A visit returns when nothing of its package is left to be visited.      *)
Pops ==
  /\ status = "running" /\ Graph!Top.todo = <<>> /\ Len(stack) # 1
  /\ visiting' = visiting \ {Graph!Top.rel} /\ stack' = Graph!Pop(stack)
  /\ UNCHANGED <<graph, root, resolved, status>>

LEMMA PopStep ==
  ASSUME WalkInv, Pops
  PROVE  WalkInv'
<1> DEFINE n == Len(stack)
<1>u. UNCHANGED <<graph, root, resolved, status>>
  BY DEF Pops
<1>0. WalkTypes /\ stack \in Seq(Frames)
  BY DEF WalkInv, WalkTypes
<1>1. n \in Nat /\ n >= 2 /\ n <= MaxDepth + 2
  <2>1. n \in 1 .. MaxDepth + 2 /\ MaxDepth \in Nat
    BY <1>0, PackagesAssumption DEF WalkTypes
  <2>2. n # 1
    BY DEF Pops
  <2> QED BY <2>1, <2>2
<1>2. stack' \in Seq(Frames) /\ Len(stack') = n - 1 /\ \A i \in 1 .. n - 1 : stack'[i] = stack[i]
  <2>1. \A i \in 1 .. n - 1 : stack[i] \in Frames
    BY <1>0, <1>1, ElementOfSeq
  <2> QED BY <1>1, <2>1, SubSeqProperties DEF Graph!Pop, Pops
<1>3. InStack' = InStack \ {n} /\ n \in InStack /\ \A i \in InStack' : i \in 1 .. n - 1
  BY <1>1, <1>2 DEF InStack
<1>4. /\ ResolvedSet' = ResolvedSet /\ Graph!Closure' = Graph!Closure
      /\ Graph!RootSet' = Graph!RootSet /\ \A r : Graph!Edges(r)' = Graph!Edges(r)
  BY <1>u DEF ResolvedSet, Graph!Closure, Graph!Closed, Graph!RootSet, Graph!Edges
<1>5. TodoSet(stack[n]) = {}
  <2>1. DOMAIN stack[n].todo = {}
    BY DEF Graph!Top, Pops
  <2> QED BY <2>1 DEF TodoSet
<1>6. WalkTypes'
  <2>1. (visiting = {stack[i].rel : i \in InStack})'
    <3>1. \A i \in InStack' : stack'[i].rel = stack[i].rel /\ stack[i].rel # stack[n].rel
      BY <1>0, <1>2, <1>3 DEF WalkTypes
    <3>2. visiting' = {stack[i].rel : i \in InStack} \ {stack[n].rel}
      BY <1>0 DEF WalkTypes, Graph!Top, Pops
    <3>3. {stack'[i].rel : i \in InStack'} = {stack[i].rel : i \in InStack} \ {stack[n].rel}
      BY <1>3, <3>1
    <3> QED BY <3>2, <3>3
  <2>2. (\A i \in InStack : stack[i].rel \in ResolvedSet)'
    BY <1>0, <1>2, <1>3, <1>4 DEF WalkTypes
  <2>3. (\A i, j \in InStack : stack[i].rel = stack[j].rel => i = j)'
    <3>1. \A i \in InStack' : stack'[i] = stack[i] /\ i \in InStack
      BY <1>2, <1>3
    <3>2. \A i, j \in InStack : stack[i].rel = stack[j].rel => i = j
      BY <1>0 DEF WalkTypes
    <3> QED BY <3>1, <3>2
  <2> QED BY <1>0, <1>u, <1>1, <1>2, <1>4, <2>1, <2>2, <2>3, PackagesAssumption DEF WalkTypes
<1>7. Found'
  BY <1>1, <1>2, <1>4 DEF WalkInv, Found
<1>8. NothingMissed'
  <2>1. (Graph!RootSet \subseteq ResolvedSet \cup TodoSet(stack[1]))'
    BY <1>1, <1>2, <1>4 DEF WalkInv, NothingMissed
  <2>2. ASSUME NEW r \in ResolvedSet, NEW d \in Graph!Edges(r), d \notin ResolvedSet PROVE Pending(r, d)'
    <3>1. PICK i \in InStack : stack[i].rel = r /\ d \in TodoSet(stack[i])
      BY <2>2 DEF WalkInv, NothingMissed, Pending
    <3>2. i \in InStack' /\ stack'[i].rel = r /\ d \in TodoSet(stack'[i])
      BY <1>2, <1>3, <1>5, <3>1
    <3> QED BY <3>2 DEF Pending
  <2> QED BY <1>4, <2>1, <2>2 DEF NothingMissed
<1> QED BY <1>6, <1>7, <1>8, <1>u DEF Pops, WalkInv, EndsEmpty, WalkIsExact, Graph!InstalledIsClosure, Graph!ConflictIsReal

LEMMA StepWalk == WalkInv /\ [Next]_vars => WalkInv'
<1> SUFFICES ASSUME WalkInv, Graph!Next \/ UNCHANGED graphVars PROVE WalkInv'
  BY GraphSteps
<1>t. WalkTypes
  BY DEF WalkInv
<1>1. CASE Graph!Visit
  <2>0. status = "running" /\ Graph!Top.todo # <<>>
    BY <1>1 DEF Graph!Visit
  <2> DEFINE dep == Head(Graph!Top.todo)
  <2>1. CASE Graph!Depth > MaxDepth
    <3>1. Graph!End("depth")
      BY <1>1, <2>1 DEF Graph!Visit
    <3> QED BY <3>1, EndKeeps
  <2>2. CASE ~(Graph!Depth > MaxDepth) /\ dep.pkg \in DOMAIN resolved /\ resolved[dep.pkg] # dep
    <3>1. Graph!End("conflict")
      BY <1>1, <2>2 DEF Graph!Visit
    <3>2. dep \in Graph!Closure
      <4>1. stack \in Seq(Frames) /\ stack # <<>>
        BY <1>t, EmptySeq DEF WalkTypes
      <4>2. dep \in TodoSet(stack[Len(stack)]) /\ Len(stack) \in Nat /\ Len(stack) >= 1
        <5> PICK sk : sk = Graph!Skip
          OBVIOUS
        <5> QED BY <2>0, <4>1, SkipKeeps
      <4>3. \A i \in 1 .. Len(stack) : TodoSet(stack[i]) \subseteq Graph!Closure
        BY DEF WalkInv, Found
      <4> HIDE DEF dep
      <4> QED BY <4>2, <4>3
    <3>3. resolved[dep.pkg] \in Graph!Closure /\ resolved[dep.pkg].pkg = dep.pkg
      BY <1>t, <2>2 DEF WalkTypes, WalkInv, Found, ResolvedSet
    <3>4. \E r, s \in Graph!Closure : r.pkg = s.pkg /\ r # s
      BY <2>2, <3>2, <3>3
    <3> QED BY <3>1, <3>4, EndKeeps
  <2>3. CASE ~(Graph!Depth > MaxDepth) /\ dep.pkg \in DOMAIN resolved /\ resolved[dep.pkg] = dep
    <3>1. stack' = Graph!Skip /\ UNCHANGED <<graph, root, resolved, visiting, status>>
      BY <1>1, <2>3 DEF Graph!Visit
    <3>2. dep \in ResolvedSet
      BY <2>3 DEF ResolvedSet
    <3> QED BY <2>0, <3>1, <3>2, SkipStep
  <2>4. CASE ~(Graph!Depth > MaxDepth) /\ dep.pkg \notin DOMAIN resolved /\ dep \in visiting
    <3>1. Graph!End("cycle")
      BY <1>1, <2>4 DEF Graph!Visit
    <3> QED BY <3>1, EndKeeps
  <2>5. CASE ~(Graph!Depth > MaxDepth) /\ dep.pkg \notin DOMAIN resolved /\ dep \notin visiting
    <3>1. Graph!Depth \in Int /\ MaxDepth \in Nat
      BY <1>t, PackagesAssumption DEF WalkTypes, Graph!Depth
    <3>2. Pushes(dep)
      BY <1>1, <2>0, <2>5, <3>1 DEF Graph!Visit, Pushes
    <3> HIDE DEF dep
    <3> QED BY <3>2, PushStep
  <2> QED BY <2>1, <2>2, <2>3, <2>4, <2>5
<1>2. CASE Graph!FetchFails
  <2>1. Graph!End("unavailable")
    BY <1>2 DEF Graph!FetchFails
  <2> QED BY <2>1, EndKeeps
<1>3. CASE Graph!Return
  <2>1. CASE Len(stack) = 1
    <3>1. Graph!End("installed") /\ stack[1].todo = <<>>
      BY <1>3, <2>1 DEF Graph!Return, Graph!Top
    <3> QED BY <2>1, <3>1, EndKeeps
  <2>2. CASE Len(stack) # 1
    <3>1. Pops
      BY <1>3, <2>2 DEF Graph!Return, Pops
    <3> QED BY <3>1, PopStep
  <2> QED BY <2>1, <2>2
<1>4. CASE UNCHANGED graphVars
  <2>1. UNCHANGED <<graph, root, resolved, visiting, stack, status>>
    BY <1>4 DEF graphVars
  <2>2. /\ ResolvedSet' = ResolvedSet /\ InStack' = InStack /\ Graph!Closure' = Graph!Closure
        /\ Graph!RootSet' = Graph!RootSet /\ \A r : Graph!Edges(r)' = Graph!Edges(r)
    BY <2>1 DEF ResolvedSet, InStack, Graph!Closure, Graph!Closed, Graph!RootSet, Graph!Edges
  <2>3. WalkTypes' /\ Found' /\ NothingMissed' /\ EndsEmpty'
    BY <2>1, <2>2 DEF WalkInv, WalkTypes, Found, NothingMissed, Pending, EndsEmpty
  <2>4. WalkIsExact'
    BY <2>1, <2>2 DEF WalkInv, WalkIsExact, Graph!InstalledIsClosure, Graph!ConflictIsReal
  <2> QED BY <2>3, <2>4 DEF WalkInv
<1> QED BY <1>1, <1>2, <1>3, <1>4 DEF Graph!Next

(* A finished installation holds exactly the releases the project needs,   *)
(* one version of each package, for any dependencies, also circular ones,  *)
(* in whatever order and however often the walk met them; a version        *)
(* conflict is reported only if the project really needs two versions of a *)
(* package (installGraph, l.267-288).                                      *)
THEOREM WalkIsExactAlways == Spec => []WalkIsExact
<1>1. WalkInv => WalkIsExact
  BY DEF WalkInv
<1> QED BY <1>1, InitWalk, StepWalk, PTL DEF Spec

NoCycleReported == status # "cycle"

(* Circular dependencies are never refused: the check for a cycle comes    *)
(* after the one for a resolved package (l.272-277), and whatever is being *)
(* visited when it is reached is resolved.                                 *)
THEOREM CyclesAreInstalled == Spec => []NoCycleReported
<1>1. Init => NoCycleReported
  BY GraphInit DEF Graph!Init, NoCycleReported
<1>2. WalkInv /\ NoCycleReported /\ [Next]_vars => NoCycleReported'
  <2> SUFFICES ASSUME WalkInv, status # "cycle", Graph!Next PROVE status' # "cycle"
    BY GraphSteps DEF graphVars, NoCycleReported
  <2>1. ASSUME NEW dep \in visiting PROVE dep.pkg \in DOMAIN resolved
    BY DEF WalkInv, WalkTypes, ResolvedSet
  <2>2. CASE Graph!Visit
    BY <2>1, <2>2 DEF Graph!Visit, Graph!End
  <2>3. CASE ~Graph!Visit
    BY <2>3 DEF Graph!Next, Graph!FetchFails, Graph!Return, Graph!End
  <2> QED BY <2>2, <2>3
<1> QED BY <1>1, <1>2, InitWalk, StepWalk, PTL DEF Spec

-----------------------------------------------------------------------------
(* The processes that fetch take their own steps. *)
LEMMA CacheSteps == [Next]_vars => Cache!Next \/ UNCHANGED cacheVars
  BY DEF Next, vars, CacheStep, GraphStep, ProjectStep

LEMMA CacheInit == Init => Cache!Init
  BY DEF Init

(* The contents of a directory: some of the files, each with its bytes. *)
LEMMA ContentsAre ==
  \A c : c \in Cache!Contents <=> \E S \in SUBSET Files : c \in [S -> 0 .. MaxRevision + 1]
  BY DEF Cache!Contents

LEMMA NoFilesIsContents == Cache!NoFiles \in Cache!Contents /\ DOMAIN Cache!NoFiles = {}
<1>1. Cache!NoFiles \in [{} -> 0 .. MaxRevision + 1]
  BY DEF Cache!NoFiles
<1> QED BY <1>1, ContentsAre DEF Cache!NoFiles

LEMMA ContentsGrow ==
  ASSUME NEW c \in Cache!Contents, NEW f \in Files, NEW v \in 0 .. MaxRevision + 1
  PROVE  [g \in DOMAIN c \cup {f} |-> IF g = f THEN v ELSE c[g]] \in Cache!Contents
<1>1. PICK S \in SUBSET Files : c \in [S -> 0 .. MaxRevision + 1]
  BY ContentsAre
<1>2. DOMAIN c = S /\ S \cup {f} \in SUBSET Files
  BY <1>1
<1>3. [g \in DOMAIN c \cup {f} |-> IF g = f THEN v ELSE c[g]] \in [S \cup {f} -> 0 .. MaxRevision + 1]
  BY <1>1, <1>2
<1> QED BY <1>2, <1>3, ContentsAre

LEMMA ContentsShrink ==
  ASSUME NEW c \in Cache!Contents, NEW e
  PROVE  [g \in DOMAIN c \ {e} |-> c[g]] \in Cache!Contents
<1>1. PICK S \in SUBSET Files : c \in [S -> 0 .. MaxRevision + 1]
  BY ContentsAre
<1>2. DOMAIN c = S /\ S \ {e} \in SUBSET Files
  BY <1>1
<1>3. [g \in DOMAIN c \ {e} |-> c[g]] \in [S \ {e} -> 0 .. MaxRevision + 1]
  BY <1>1, <1>2
<1> QED BY <1>2, <1>3, ContentsAre

LEMMA ContentsEdited ==
  ASSUME NEW c \in Cache!Contents, NEW f \in DOMAIN c
  PROVE  [c EXCEPT ![f] = MaxRevision + 1] \in Cache!Contents
<1>1. PICK S \in SUBSET Files : c \in [S -> 0 .. MaxRevision + 1]
  BY ContentsAre
<1>2. MaxRevision + 1 \in 0 .. MaxRevision + 1
  BY PackagesAssumption
<1>3. [c EXCEPT ![f] = MaxRevision + 1] \in [S -> 0 .. MaxRevision + 1]
  BY <1>1, <1>2
<1> QED BY <1>3, ContentsAre

LEMMA ContentsEqual ==
  ASSUME NEW c \in Cache!Contents, NEW d \in Cache!Contents, DOMAIN c = DOMAIN d, \A f \in DOMAIN c : c[f] = d[f]
  PROVE  c = d
<1>1. PICK S \in SUBSET Files : c \in [S -> 0 .. MaxRevision + 1]
  BY ContentsAre
<1>2. PICK T \in SUBSET Files : d \in [T -> 0 .. MaxRevision + 1]
  BY ContentsAre
<1>3. S = DOMAIN c /\ T = S
  BY <1>1, <1>2
<1>4. c = [f \in S |-> c[f]] /\ d = [f \in S |-> d[f]]
  BY <1>1, <1>2, <1>3
<1>5. \A f \in S : c[f] = d[f]
  BY <1>3
<1> QED BY <1>4, <1>5

LEMMA PublishedIsContents ==
  ASSUME NEW r \in 0 .. MaxRevision
  PROVE  Cache!Published(r) \in Cache!Contents /\ DOMAIN Cache!Published(r) = Files
<1>1. Cache!Published(r) \in [Files -> 0 .. MaxRevision + 1]
  BY PackagesAssumption DEF Cache!Published
<1> QED BY <1>1, ContentsAre

LEMMA DirsAre ==
  \A d \in Cache!Dirs : /\ d # None /\ d.files \in Cache!Contents /\ d.meta \in Cache!Contents \cup {None}
                        /\ d = [files |-> d.files, meta |-> d.meta]
  BY NoneAssumption DEF Cache!Dirs

LEMMA DirsMake ==
  ASSUME NEW c \in Cache!Contents, NEW m \in Cache!Contents \cup {None}
  PROVE  [files |-> c, meta |-> m] \in Cache!Dirs
  BY DEF Cache!Dirs

LEMMA InitCacheTypes == Init => Cache!TypeOK
<1> SUFFICES ASSUME Cache!Init PROVE Cache!TypeOK
  BY CacheInit
<1> QED BY NoFilesIsContents, PackagesAssumption DEF Cache!Init, Cache!TypeOK

LEMMA StepCacheTypes == Cache!TypeOK /\ [Next]_vars => Cache!TypeOK'
<1> SUFFICES ASSUME Cache!TypeOK, Cache!Next \/ UNCHANGED cacheVars PROVE Cache!TypeOK'
  BY CacheSteps
<1>1. CASE UNCHANGED cacheVars
  BY <1>1 DEF cacheVars, Cache!TypeOK
<1>2. CASE Cache!Next
  <2>0. env' = env /\ env' \in Environments
    BY <1>2 DEF Cache!Next, Cache!TypeOK
  <2>1. ASSUME NEW p \in Procs, Cache!Advance(p) PROVE Cache!TypeOK'
    <3>1. CASE Cache!ReadMeta(p)
      BY <2>0, <3>1, NoFilesIsContents, DirsAre DEF Cache!ReadMeta, Cache!AfterMiss, Cache!TypeOK
    <3>2. CASE Cache!Verify(p)
      <4>1. dl[p] \in Cache!Contents /\ dl[p] # None
        BY NoneAssumption DEF Cache!TypeOK
      <4> QED BY <2>0, <3>2, <4>1, NoFilesIsContents DEF Cache!Verify, Cache!AfterMiss, Cache!TypeOK
    <3>3. CASE Cache!ReadIndex(p)
      BY <2>0, <3>3, PublishedIsContents DEF Cache!ReadIndex, Cache!Goto, Cache!TypeOK
    <3>4. CASE Cache!NetworkFails(p)
      BY <2>0, <3>4 DEF Cache!NetworkFails, Cache!TypeOK
    <3>5. ASSUME NEW f \in Files, Cache!ReadFile(p, f) PROVE Cache!TypeOK'
      <4>1. target \in Cache!Dirs /\ f \in DOMAIN target.files
        BY <3>5 DEF Cache!ReadFile, Cache!Unread, Cache!TypeOK
      <4>2. target.files[f] \in 0 .. MaxRevision + 1
        BY <4>1, DirsAre, ContentsAre
      <4>3. dl' \in [Procs -> Cache!Contents]
        <5>1. dl[p] \in Cache!Contents
          BY DEF Cache!TypeOK
        <5>2. [g \in DOMAIN dl[p] \cup {f} |-> IF g = f THEN target.files[f] ELSE dl[p][g]] \in Cache!Contents
          BY <4>2, <5>1, ContentsGrow
        <5>3. dl' = [dl EXCEPT ![p] = [g \in DOMAIN dl[p] \cup {f} |-> IF g = f THEN target.files[f] ELSE dl[p][g]]]
          BY <3>5 DEF Cache!ReadFile
        <5> QED BY <5>2, <5>3 DEF Cache!TypeOK
      <4> QED BY <2>0, <3>5, <4>3 DEF Cache!ReadFile, Cache!TypeOK
    <3>6. ASSUME NEW f \in Files, Cache!Download(p, f) PROVE Cache!TypeOK'
      <4>1. revision \in 0 .. MaxRevision + 1
        BY PackagesAssumption DEF Cache!TypeOK
      <4>2. dl' \in [Procs -> Cache!Contents]
        <5>1. dl[p] \in Cache!Contents
          BY DEF Cache!TypeOK
        <5>2. [g \in DOMAIN dl[p] \cup {f} |-> IF g = f THEN revision ELSE dl[p][g]] \in Cache!Contents
          BY <4>1, <5>1, ContentsGrow
        <5>3. dl' = [dl EXCEPT ![p] = [g \in DOMAIN dl[p] \cup {f} |-> IF g = f THEN revision ELSE dl[p][g]]]
          BY <3>6 DEF Cache!Download
        <5> QED BY <5>2, <5>3 DEF Cache!TypeOK
      <4> QED BY <2>0, <3>6, <4>2 DEF Cache!Download, Cache!TypeOK
    <3>7. CASE Cache!CheckIntegrity(p)
      BY <2>0, <3>7 DEF Cache!CheckIntegrity, Cache!Goto, Cache!TypeOK
    <3>8. CASE Cache!WriteTemp(p)
      <4>1. temp' \in [Procs -> Cache!Dirs \cup {None}]
        BY <3>8, DirsMake DEF Cache!WriteTemp, Cache!TypeOK
      <4> QED BY <2>0, <3>8, <4>1 DEF Cache!WriteTemp, Cache!Goto, Cache!TypeOK
    <3>9. CASE Cache!List(p)
      <4>1. Cache!Entries(target) \subseteq Files \cup {"meta"}
        BY DirsAre, ContentsAre DEF Cache!Entries, Cache!TypeOK
      <4> QED BY <2>0, <3>9, <4>1 DEF Cache!List, Cache!Goto, Cache!TypeOK
    <3>10. ASSUME NEW e \in Files \cup {"meta"}, Cache!Unlink(p, e) PROVE Cache!TypeOK'
      <4>1. target' \in Cache!Dirs \cup {None}
        <5>1. CASE target = None BY <3>10, <5>1 DEF Cache!Unlink
        <5>2. CASE target \in Cache!Dirs
          BY <3>10, <5>2, DirsAre, ContentsShrink DEF Cache!Unlink, Cache!Dirs
        <5> QED BY <5>1, <5>2 DEF Cache!TypeOK
      <4> QED BY <2>0, <3>10, <4>1 DEF Cache!Unlink, Cache!TypeOK
    <3>11. CASE Cache!RemoveDir(p)
      BY <2>0, <3>11 DEF Cache!RemoveDir, Cache!Goto, Cache!TypeOK
    <3>12. CASE Cache!Rename(p)
      <4>1. dl[p] \in Cache!Contents /\ dl[p] # None
        BY NoneAssumption DEF Cache!TypeOK
      <4> QED BY <2>0, <3>12, <4>1 DEF Cache!Rename, Cache!Goto, Cache!TypeOK
    <3> QED BY <2>1, <3>1, <3>2, <3>3, <3>4, <3>5, <3>6, <3>7, <3>8, <3>9, <3>10, <3>11, <3>12 DEF Cache!Advance
  <2>2. ASSUME NEW p \in Procs, Cache!Crash(p) PROVE Cache!TypeOK'
    BY <2>0, <2>2 DEF Cache!Crash, Cache!TypeOK
  <2>3. CASE Cache!Publish
    BY <2>0, <2>3, PackagesAssumption DEF Cache!Publish, Cache!TypeOK
  <2>4. CASE Cache!Tamper
    <3>1. target \in Cache!Dirs /\ tampers' \in 0 .. MaxTampers
      BY <2>4, PackagesAssumption DEF Cache!Tamper, Cache!TypeOK
    <3>2. PICK f \in DOMAIN target.files : target' = [target EXCEPT !.files[f] = MaxRevision + 1]
      BY <2>4 DEF Cache!Tamper
    <3>3. target' \in Cache!Dirs
      BY <3>1, <3>2, DirsAre, ContentsEdited DEF Cache!Dirs
    <3> QED BY <2>0, <2>4, <3>1, <3>3 DEF Cache!Tamper, Cache!TypeOK
  <2> QED BY <1>2, <2>1, <2>2, <2>3, <2>4 DEF Cache!Next
<1> QED BY <1>1, <1>2

-----------------------------------------------------------------------------
(* What the metadata of a directory says is a complete package, of one     *)
(* revision when the index records integrities; so is what a process has   *)
(* checked, written and vouched for.                                       *)
Pinned == "unpinned" \notin env
Good(c) == DOMAIN c = Files /\ (Pinned => \E r \in 0 .. MaxRevision : c = Cache!Published(r))

TargetIsGood == target # None /\ target.meta # None => Good(target.meta)
ReadIsGood(p) ==
  /\ meta[p] # None => Good(meta[p])
  /\ pc[p] \in {"verifying", "reverifying"} => meta[p] # None
WrittenIsGood(p) ==
  /\ pc[p] \in {"checked", "written", "clearing", "renaming"} => Good(dl[p])
  /\ pc[p] \in {"written", "clearing", "renaming"} => temp[p] = [files |-> dl[p], meta |-> dl[p]]
GotIsGood(p) == got[p] # None => Good(got[p])
IndexIsRead(p) ==
  Pinned => /\ index[p] # None => \E r \in 0 .. MaxRevision : index[p] = Cache!Published(r)
            /\ pc[p] \in {"indexed", "reverifying", "listing"} => index[p] # None
ProcessIsGood(p) == ReadIsGood(p) /\ WrittenIsGood(p) /\ GotIsGood(p) /\ IndexIsRead(p)
MetaIsGood == TargetIsGood /\ \A p \in Procs : ProcessIsGood(p)

LEMMA InitMeta == Init => MetaIsGood
<1> SUFFICES ASSUME Cache!Init PROVE MetaIsGood
  BY CacheInit
<1> QED BY DEF Cache!Init, MetaIsGood, TargetIsGood, ProcessIsGood, ReadIsGood, WrittenIsGood, GotIsGood, IndexIsRead

(* Nobody else's files, metadata or answer change when a process moves.    *)
Others(p) ==
  \A q \in Procs \ {p} : /\ pc'[q] = pc[q] /\ dl'[q] = dl[q] /\ meta'[q] = meta[q]
                         /\ temp'[q] = temp[q] /\ got'[q] = got[q] /\ index'[q] = index[q]

LEMMA OthersStayGood ==
  ASSUME MetaIsGood, NEW p \in Procs, Others(p), env' = env, TargetIsGood', ProcessIsGood(p)'
  PROVE  MetaIsGood'
<1>1. ASSUME NEW q \in Procs \ {p} PROVE ProcessIsGood(q)'
  BY DEF MetaIsGood, Others, ProcessIsGood, ReadIsGood, WrittenIsGood, GotIsGood, IndexIsRead, Good, Pinned
<1> QED BY <1>1 DEF MetaIsGood

LEMMA StepMeta == Cache!TypeOK /\ MetaIsGood /\ [Next]_vars => MetaIsGood'
<1> SUFFICES ASSUME Cache!TypeOK, MetaIsGood, Cache!Next \/ UNCHANGED cacheVars PROVE MetaIsGood'
  BY CacheSteps
<1>0. env' = env
  BY DEF Cache!Next, cacheVars
<1>1. (Pinned' <=> Pinned) /\ \A c : Good(c)' <=> Good(c)
  BY <1>0 DEF Pinned, Good
<1>2. TargetIsGood /\ \A p \in Procs : ReadIsGood(p) /\ WrittenIsGood(p) /\ GotIsGood(p) /\ IndexIsRead(p)
  BY DEF MetaIsGood, ProcessIsGood
<1>3. CASE UNCHANGED cacheVars
  BY <1>3 DEF cacheVars, MetaIsGood, TargetIsGood, ProcessIsGood, ReadIsGood, WrittenIsGood, GotIsGood, IndexIsRead, Good, Pinned
<1>4. ASSUME UNCHANGED <<temp, index, dl, meta, got, pc>>, TargetIsGood' PROVE MetaIsGood'
  BY <1>1, <1>2, <1>4 DEF MetaIsGood, ProcessIsGood, ReadIsGood, WrittenIsGood, GotIsGood, IndexIsRead
<1>5. ASSUME target' = target PROVE TargetIsGood'
  BY <1>1, <1>2, <1>5 DEF TargetIsGood
<1>6. CASE Cache!Publish
  BY <1>4, <1>5, <1>6 DEF Cache!Publish
<1>7. CASE Cache!Tamper
  <2>1. target \in Cache!Dirs
    BY <1>7 DEF Cache!Tamper, Cache!TypeOK
  <2>2. target'.meta = target.meta
    BY <1>7, <2>1 DEF Cache!Tamper, Cache!Dirs
  <2>3. TargetIsGood'
    BY <1>1, <1>2, <2>1, <2>2, DirsAre DEF TargetIsGood
  <2> QED BY <1>4, <1>7, <2>3 DEF Cache!Tamper
<1>8. ASSUME NEW p \in Procs, Cache!Crash(p) PROVE MetaIsGood'
  <2>1. Others(p)
    BY <1>8 DEF Cache!Crash, Others, Cache!TypeOK
  <2>2. ProcessIsGood(p)'
    BY <1>1, <1>2, <1>8 DEF Cache!Crash, Cache!TypeOK, ProcessIsGood, ReadIsGood, WrittenIsGood, GotIsGood, IndexIsRead
  <2> QED BY <1>0, <1>5, <1>8, <2>1, <2>2, OthersStayGood DEF Cache!Crash
<1>9. ASSUME NEW p \in Procs, Cache!Advance(p) PROVE MetaIsGood'
  <2> SUFFICES Others(p) /\ TargetIsGood' /\ ReadIsGood(p)' /\ WrittenIsGood(p)' /\ GotIsGood(p)' /\ IndexIsRead(p)'
    BY <1>0, OthersStayGood DEF ProcessIsGood
  <2> USE <1>1, <1>2 DEF Others, Cache!TypeOK, ReadIsGood, WrittenIsGood, GotIsGood, IndexIsRead
  <2>1. CASE Cache!ReadMeta(p)
    BY <1>5, <2>1 DEF Cache!ReadMeta, Cache!AfterMiss, TargetIsGood
  <2>2. CASE Cache!Verify(p)
    BY <1>5, <2>2 DEF Cache!Verify, Cache!AfterMiss
  <2>3. CASE Cache!ReadIndex(p)
    <3>1. Cache!Published(revision) # None
      BY PublishedIsContents, NoneAssumption
    <3> QED BY <1>5, <2>3, <3>1 DEF Cache!ReadIndex, Cache!Goto, Cache!May, Pinned
  <2>4. CASE Cache!NetworkFails(p)
    BY <1>5, <2>4 DEF Cache!NetworkFails
  <2>5. ASSUME NEW f \in Files, Cache!ReadFile(p, f) \/ Cache!Download(p, f) PROVE Others(p) /\ TargetIsGood' /\ ReadIsGood(p)' /\ WrittenIsGood(p)' /\ GotIsGood(p)' /\ IndexIsRead(p)'
    BY <1>5, <2>5 DEF Cache!ReadFile, Cache!Download
  <2>6. CASE Cache!CheckIntegrity(p)
    BY <1>5, <2>6 DEF Cache!CheckIntegrity, Cache!Goto, Good
  <2>7. CASE Cache!WriteTemp(p)
    BY <1>5, <2>7 DEF Cache!WriteTemp, Cache!Goto
  <2>8. CASE Cache!List(p)
    BY <1>5, <2>8 DEF Cache!List, Cache!Goto
  <2>9. ASSUME NEW e \in Files \cup {"meta"}, Cache!Unlink(p, e) PROVE Others(p) /\ TargetIsGood' /\ ReadIsGood(p)' /\ WrittenIsGood(p)' /\ GotIsGood(p)' /\ IndexIsRead(p)'
    <3>1. TargetIsGood'
      BY <2>9, DirsAre DEF Cache!Unlink, TargetIsGood, Cache!Dirs
    <3> QED BY <2>9, <3>1 DEF Cache!Unlink
  <2>10. CASE Cache!RemoveDir(p)
    BY <1>5, <2>10 DEF Cache!RemoveDir, Cache!Goto, TargetIsGood
  <2>11. CASE Cache!Rename(p)
    BY <1>5, <2>11 DEF Cache!Rename, Cache!Goto, TargetIsGood
  <2> QED BY <1>9, <2>1, <2>2, <2>3, <2>4, <2>5, <2>6, <2>7, <2>8, <2>9, <2>10, <2>11 DEF Cache!Advance
<1> QED BY <1>3, <1>6, <1>7, <1>8, <1>9 DEF Cache!Next

(* Whatever other processes, deaths, edits of the cache and changes of the *)
(* registry do meanwhile, any fetch of any number of processes vouches     *)
(* only for a complete package, and when the index records integrities,    *)
(* for one revision of it (verifyCachedPackage l.151, fetchPackage l.200). *)
THEOREM VouchedIsPublishedAlways == Spec => []VouchedIsPublished
<1>1. MetaIsGood => VouchedIsPublished
  BY DEF MetaIsGood, ProcessIsGood, GotIsGood, Good, Pinned, VouchedIsPublished, Cache!VouchedIsPublished, Cache!May
<1> QED BY <1>1, InitCacheTypes, StepCacheTypes, InitMeta, StepMeta, PTL DEF Spec

(* Directories, calls in progress, lock and manifest keep their types.     *)
THEOREM TypesAlways == Spec => []TypeOK
<1>1. WalkInv => Graph!TypeOK
  BY DEF WalkInv, WalkTypes, Graph!TypeOK, InStack
<1>2. Cache!TypeOK /\ WalkInv /\ Project!TypeOK => TypeOK
  BY <1>1 DEF TypeOK
<1> QED BY <1>2, InitCacheTypes, StepCacheTypes, InitWalk, StepWalk, InitProjectTypes, StepProjectTypes, PTL DEF Spec

-----------------------------------------------------------------------------
(* Where fetches follow one another: only one is under way, it reads what  *)
(* is there, and it writes only when no whole package is there.            *)
Sequential == "concurrent" \notin env
OneAtATime == \A p, q \in Procs : Cache!Active(p) /\ Cache!Active(q) => p = q
Reads(p) ==
  /\ pc[p] \in {"verifying", "reverifying"} =>
       /\ target # None /\ target.meta = meta[p]
       /\ DOMAIN dl[p] \subseteq DOMAIN target.files
       /\ \A f \in DOMAIN dl[p] : dl[p][f] = target.files[f]
  /\ pc[p] \in {"missed", "indexed", "reverifying", "listing", "checked", "written", "clearing", "renaming"} =>
       ~Cache!Whole(target)
FetchAlone == Sequential => OneAtATime /\ \A p \in Procs : Reads(p)

LEMMA InitAlone == Init => FetchAlone
<1> SUFFICES ASSUME Cache!Init PROVE FetchAlone
  BY CacheInit
<1> QED BY DEF Cache!Init, FetchAlone, OneAtATime, Reads, Cache!Active

(* A process that has read every file has read the whole directory.        *)
LEMMA AllIsRead ==
  ASSUME Cache!TypeOK, MetaIsGood, NEW p \in Procs, Reads(p), pc[p] \in {"verifying", "reverifying"}, Cache!Unread(p) = {}
  PROVE  target \in Cache!Dirs /\ target.files = dl[p] /\ target.meta = meta[p] /\ meta[p] # None
<1>1. target \in Cache!Dirs /\ target.meta = meta[p] /\ meta[p] # None
  BY DEF Cache!TypeOK, Reads, MetaIsGood, ProcessIsGood, ReadIsGood
<1>2. DOMAIN target.files = DOMAIN dl[p] /\ \A f \in DOMAIN dl[p] : dl[p][f] = target.files[f]
  BY <1>1, DirsAre DEF Reads, Cache!Unread
<1>3. target.files \in Cache!Contents /\ dl[p] \in Cache!Contents
  BY <1>1, DirsAre DEF Cache!TypeOK
<1> QED BY <1>1, <1>2, <1>3, ContentsEqual

(* Whoever moves is the only one under way, before and after.              *)
LEMMA MoverIsAlone ==
  ASSUME Cache!TypeOK, Sequential, OneAtATime, NEW p \in Procs, Cache!Advance(p) \/ Cache!Crash(p)
  PROVE  /\ \A q \in Procs \ {p} : ~Cache!Active(q) /\ pc'[q] = pc[q]
         /\ tampers' = tampers
<1>1. Cache!Active(p) \/ Cache!Alone
  BY DEF Cache!Advance, Cache!Crash, Cache!ReadMeta, Cache!MayStart, Cache!May, Sequential, Cache!Active,
         Cache!Verify, Cache!ReadIndex, Cache!NetworkFails, Cache!ReadFile, Cache!Download, Cache!CheckIntegrity,
         Cache!WriteTemp, Cache!List, Cache!Unlink, Cache!RemoveDir, Cache!Rename, Cache!Goto
<1>2. /\ tampers' = tampers /\ \A q \in Procs \ {p} : pc'[q] = pc[q]
  BY DEF Cache!TypeOK, Cache!Advance, Cache!Crash, Cache!ReadMeta,
         Cache!Verify, Cache!ReadIndex, Cache!NetworkFails, Cache!ReadFile, Cache!Download, Cache!CheckIntegrity,
         Cache!WriteTemp, Cache!List, Cache!Unlink, Cache!RemoveDir, Cache!Rename, Cache!Goto
<1> QED BY <1>1, <1>2 DEF OneAtATime, Cache!Alone

(* A fetch that moves goes on reading what is there, and goes on to write  *)
(* only where no whole package is.                                         *)
LEMMA MoverReads ==
  ASSUME Cache!TypeOK, MetaIsGood, NEW p \in Procs, Reads(p), Cache!Advance(p) \/ Cache!Crash(p)
  PROVE  Reads(p)'
<1> USE DEF Cache!TypeOK, Reads
<1>1. CASE Cache!ReadMeta(p)
  BY <1>1, NoFilesIsContents DEF Cache!ReadMeta, Cache!AfterMiss, Cache!Whole
<1>2. CASE Cache!Verify(p)
  <2>1. dl[p] # meta[p] => ~Cache!Whole(target)
    BY <1>2, AllIsRead DEF Cache!Verify, Cache!Whole
  <2> QED BY <1>2, <2>1 DEF Cache!Verify, Cache!AfterMiss, Cache!Whole
<1>3. CASE Cache!ReadIndex(p)
  BY <1>3 DEF Cache!ReadIndex, Cache!Goto, Cache!Whole
<1>4. CASE Cache!NetworkFails(p)
  BY <1>4 DEF Cache!NetworkFails
<1>5. ASSUME NEW f \in Files, Cache!ReadFile(p, f) PROVE Reads(p)'
  BY <1>5 DEF Cache!ReadFile, Cache!Unread, Cache!Whole
<1>6. ASSUME NEW f \in Files, Cache!Download(p, f) PROVE Reads(p)'
  BY <1>6 DEF Cache!Download, Cache!Whole
<1>7. CASE Cache!CheckIntegrity(p)
  BY <1>7 DEF Cache!CheckIntegrity, Cache!Goto, Cache!Whole
<1>8. CASE Cache!WriteTemp(p)
  BY <1>8 DEF Cache!WriteTemp, Cache!Goto, Cache!Whole
<1>9. CASE Cache!List(p)
  BY <1>9 DEF Cache!List, Cache!Goto, Cache!Whole
<1>10. ASSUME NEW e \in Files \cup {"meta"}, Cache!Unlink(p, e) PROVE Reads(p)'
  <2>1. ~Cache!Whole(target')
    <3>1. CASE target = None BY <1>10, <3>1 DEF Cache!Unlink, Cache!Whole
    <3>2. CASE target \in Cache!Dirs /\ e = "meta"
      <4>1. target'.meta = None
        BY <1>10, <3>2, DirsAre DEF Cache!Unlink, Cache!Dirs
      <4> QED BY <4>1 DEF Cache!Whole
    <3>3. CASE target \in Cache!Dirs /\ e # "meta"
      <4>1. DOMAIN target'.files = DOMAIN target.files \ {e} /\ target'.meta = target.meta
        BY <1>10, <3>3, DirsAre DEF Cache!Unlink, Cache!Dirs
      <4>2. target.meta # None => DOMAIN target.meta = Files
        BY <3>3, DirsAre DEF MetaIsGood, TargetIsGood, Good
      <4> QED BY <3>3, <4>1, <4>2 DEF Cache!Whole
    <3> QED BY <3>1, <3>2, <3>3
  <2> QED BY <1>10, <2>1 DEF Cache!Unlink, Cache!Whole
<1>11. CASE Cache!RemoveDir(p)
  BY <1>11 DEF Cache!RemoveDir, Cache!Goto, Cache!Whole
<1>12. CASE Cache!Rename(p)
  BY <1>12 DEF Cache!Rename, Cache!Goto
<1>13. CASE Cache!Crash(p)
  BY <1>13 DEF Cache!Crash
<1> QED BY <1>1, <1>2, <1>3, <1>4, <1>5, <1>6, <1>7, <1>8, <1>9, <1>10, <1>11, <1>12, <1>13 DEF Cache!Advance

LEMMA StepAlone == Cache!TypeOK /\ MetaIsGood /\ FetchAlone /\ [Next]_vars => FetchAlone'
<1> SUFFICES ASSUME Cache!TypeOK, MetaIsGood, FetchAlone, Cache!Next \/ UNCHANGED cacheVars, Sequential'
             PROVE  OneAtATime' /\ \A q \in Procs : Reads(q)'
  BY CacheSteps DEF FetchAlone
<1>0. Sequential /\ OneAtATime /\ \A q \in Procs : Reads(q)
  BY DEF FetchAlone, Sequential, Cache!Next, cacheVars
<1>1. CASE UNCHANGED cacheVars
  BY <1>0, <1>1 DEF cacheVars, OneAtATime, Reads, Cache!Active, Cache!Whole
<1>2. CASE Cache!Publish
  BY <1>0, <1>2 DEF Cache!Publish, OneAtATime, Reads, Cache!Active, Cache!Whole
<1>3. CASE Cache!Tamper
  BY <1>0, <1>3 DEF Cache!Tamper, Cache!May, Sequential, Cache!Alone, OneAtATime, Reads, Cache!Active
<1>4. ASSUME NEW p \in Procs, Cache!Advance(p) \/ Cache!Crash(p) PROVE OneAtATime' /\ \A q \in Procs : Reads(q)'
  <2>1. \A q \in Procs \ {p} : ~Cache!Active(q) /\ pc'[q] = pc[q]
    BY <1>0, <1>4, MoverIsAlone
  <2>2. \A q \in Procs \ {p} : ~Cache!Active(q)' /\ Reads(q)'
    BY <2>1 DEF Cache!Active, Reads
  <2> QED BY <1>0, <1>4, <2>2, MoverReads DEF OneAtATime
<1> QED BY <1>1, <1>2, <1>3, <1>4 DEF Cache!Next

(* Packages are cached immutably (Runtime/stage1-cli.mjs:24) by any        *)
(* fetches that follow one another, each free to die: once a whole package *)
(* is in the cache, none of them removes or replaces it; and whatever      *)
(* deaths and edits have left there, a fetch that succeeds leaves a whole  *)
(* package (atomicPackageWrite, l.171-173).                                *)
THEOREM CacheKeepsAndHealsAlways == Spec => CacheKeepsAndHeals
<1> DEFINE Keeps == ~Cache!May("concurrent") /\ Cache!Whole(target) /\ tampers' = tampers => target' = target
           Heals == ~Cache!May("concurrent") /\ (\E p \in Procs : pc[p] # "ready" /\ pc'[p] = "ready") => Cache!Whole(target')
           Inv == Cache!TypeOK /\ MetaIsGood /\ FetchAlone
<1>1. ASSUME Inv, Cache!Next, Sequential, Cache!Whole(target), tampers' = tampers PROVE target' = target
  <2>0. \A p \in Procs : pc[p] \notin {"clearing", "renaming"}
    BY <1>1 DEF FetchAlone, Reads
  <2>1. ~Cache!Tamper
    BY <1>1, PackagesAssumption DEF Cache!Tamper, Cache!TypeOK
  <2>2. CASE Cache!Publish BY <2>2 DEF Cache!Publish
  <2>3. ASSUME NEW p \in Procs, Cache!Advance(p) \/ Cache!Crash(p) PROVE target' = target
    BY <2>0, <2>3 DEF Cache!Advance, Cache!Crash, Cache!ReadMeta,
         Cache!Verify, Cache!ReadIndex, Cache!NetworkFails, Cache!ReadFile, Cache!Download, Cache!CheckIntegrity,
         Cache!WriteTemp, Cache!List, Cache!Unlink, Cache!RemoveDir, Cache!Rename, Cache!Goto
  <2> QED BY <1>1, <2>1, <2>2, <2>3 DEF Cache!Next
<1>2. ASSUME Inv, Cache!Next, Sequential, NEW p \in Procs, pc[p] # "ready", pc'[p] = "ready" PROVE Cache!Whole(target')
  <2>1. Cache!Verify(p) \/ Cache!Rename(p)
    <3>1. PICK q \in Procs : Cache!Advance(q) \/ Cache!Crash(q)
      BY <1>2 DEF Cache!Next, Cache!Publish, Cache!Tamper
    <3>2. q = p
      BY <1>2, <3>1, MoverIsAlone DEF FetchAlone
    <3> QED BY <1>2, <3>1, <3>2 DEF Cache!TypeOK, Cache!Advance, Cache!Crash, Cache!ReadMeta, Cache!AfterMiss,
              Cache!ReadIndex, Cache!NetworkFails, Cache!ReadFile, Cache!Download, Cache!CheckIntegrity,
              Cache!WriteTemp, Cache!List, Cache!Unlink, Cache!RemoveDir, Cache!Goto
  <2>2. CASE Cache!Verify(p)
    <3>1. pc[p] \in {"verifying", "reverifying"} /\ Cache!Unread(p) = {} /\ target' = target /\ dl[p] = meta[p]
      BY <1>2, <2>2 DEF Cache!Verify, Cache!AfterMiss, Cache!TypeOK
    <3>2. target \in Cache!Dirs /\ target.files = dl[p] /\ target.meta = meta[p] /\ meta[p] # None
      BY <1>2, <3>1, AllIsRead DEF FetchAlone
    <3> QED BY <3>1, <3>2, DirsAre DEF Cache!Whole
  <2>3. CASE Cache!Rename(p)
    <3>1. target' = temp[p] /\ pc[p] = "renaming"
      BY <1>2, <2>3 DEF Cache!Rename, Cache!Goto, Cache!TypeOK
    <3>2. temp[p] = [files |-> dl[p], meta |-> dl[p]] /\ dl[p] \in Cache!Contents /\ dl[p] # None
      BY <1>2, <3>1, NoneAssumption DEF MetaIsGood, ProcessIsGood, WrittenIsGood, Cache!TypeOK
    <3> QED BY <3>1, <3>2, DirsMake, NoneAssumption DEF Cache!Whole
  <2> QED BY <2>1, <2>2, <2>3
<1>3. Inv /\ [Next]_vars => [Keeps]_(Cache!vars) /\ [Heals]_(Cache!vars)
  BY <1>1, <1>2, CacheSteps DEF Cache!May, Sequential, Cache!vars, cacheVars
<1>4. Spec => [][Keeps]_(Cache!vars) /\ [][Heals]_(Cache!vars)
  <2> HIDE DEF Keeps, Heals
  <2> QED BY <1>3, InitCacheTypes, StepCacheTypes, InitMeta, StepMeta, InitAlone, StepAlone, PTL DEF Spec
<1> QED BY <1>4 DEF CacheKeepsAndHeals, Cache!CachedImmutably, Cache!SuccessHeals
=============================================================================
