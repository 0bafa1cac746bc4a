------------------------------ MODULE Packages ------------------------------
(***************************************************************************)
(* The package manager (Runtime/package-manager.mjs) from its three sides: *)
(* processes that fetch a package into the shared cache (PkgCache), the    *)
(* walk over the manifests (PkgInstall), and a project with its manifest   *)
(* and lock (PkgProject).  `object` says which side a behaviour is about;  *)
(* the others rest in one of their initial states.                         *)
(***************************************************************************)
EXTENDS Integers, Sequences

CONSTANTS
  Objects,             \* the sides to consider: "cache", "graph", "project"
  None, MaxRevision,
  Procs, Files, MaxTampers, OfflineProcs, Environments,
  Releases, Graphs, Roots, MaxDepth,
  Offers,              \* the releases the registry offers the project
  Coordinates, DependsOn, Torn, MaxFaults, Worlds

ASSUME PackagesAssumption ==
  /\ Objects \subseteq {"cache", "graph", "project"}
  /\ Files # {} /\ MaxRevision \in Nat /\ MaxTampers \in Nat /\ MaxFaults \in Nat
  /\ OfflineProcs \subseteq Procs /\ MaxDepth \in Nat
  /\ Environments \subseteq SUBSET {"concurrent", "crashes", "unpinned"}
  /\ Worlds \subseteq SUBSET {"edits", "moves"}
  /\ Graphs \subseteq [Releases -> Seq(Releases)] /\ Roots \subseteq Seq(Releases)
  /\ DependsOn \in [Offers -> SUBSET Offers]
  /\ \A r \in Offers : r.pkg \in Coordinates

VARIABLES
  object,
  env, revision, target, temp, index, dl, todo, meta, got, tampers, pc,
  graph, root, resolved, visiting, stack, status,
  world, project, lock, cache, registry, phase, adding, plan, answer, faults

cacheVars == <<env, revision, target, temp, index, dl, todo, meta, got, tampers, pc>>
graphVars == <<graph, root, resolved, visiting, stack, status>>
projectVars == <<world, project, lock, cache, registry, phase, adding, plan, answer, faults>>
vars == <<object, cacheVars, graphVars, projectVars>>

Cache == INSTANCE PkgCache
Graph == INSTANCE PkgInstall
Project == INSTANCE PkgProject WITH
  Packages <- Coordinates, Releases <- Offers, Environments <- Worlds, env <- world, pc <- phase

(* What stands for nothing is not one of the things.                       *)
ASSUME NoneAssumption ==
  /\ None \notin Offers /\ None \notin Cache!Contents /\ None \notin Cache!Dirs
  /\ \A S \in SUBSET [rel : Offers, integrity : 0 .. MaxRevision] : S \notin {None, Torn}

Init ==
  /\ object \in Objects
  /\ Cache!Init /\ (object # "cache" => env = CHOOSE e \in Environments : TRUE)
  /\ Graph!Init /\ (object # "graph" => graph = CHOOSE g \in Graphs : TRUE)
  /\ object # "graph" => root = CHOOSE r \in Roots : TRUE
  /\ Project!Init /\ (object # "project" => world = CHOOSE w \in Worlds : TRUE)

CacheStep == object = "cache" /\ Cache!Next /\ UNCHANGED <<object, graphVars, projectVars>>
GraphStep == object = "graph" /\ Graph!Next /\ UNCHANGED <<object, cacheVars, projectVars>>
ProjectStep == object = "project" /\ Project!Next /\ UNCHANGED <<object, cacheVars, graphVars>>

Next == CacheStep \/ GraphStep \/ ProjectStep

Spec == Init /\ [][Next]_vars

(* Every operation of the manager is awaited to its end or its time limit. *)
Fetch(p) ==
  object = "cache" /\ Cache!Advance(p) /\ UNCHANGED <<object, env, graphVars, projectVars>>

FairSpec == Spec /\ WF_vars(GraphStep) /\ \A p \in Procs : WF_vars(Fetch(p))

-----------------------------------------------------------------------------
(* Directories, calls in progress, lock and manifest have their types.     *)
TypeOK == Cache!TypeOK /\ Graph!TypeOK /\ Project!TypeOK

(* Whatever other processes, deaths, edits of the cache and changes of the *)
(* registry do meanwhile, a fetch vouches only for a complete package, and *)
(* when the index records integrities, for one revision of it: files of two*)
(* revisions or edited files are refused (verifyCachedPackage l.151,       *)
(* fetchPackage l.200).                                                    *)
VouchedIsPublished == Cache!VouchedIsPublished

(* Packages are cached immutably (Runtime/stage1-cli.mjs:24) by fetches    *)
(* that follow one another, each free to die: once a whole package is in   *)
(* the cache, none of them removes or replaces it, whatever the registry   *)
(* serves by then; and whatever deaths and edits have left there, a fetch  *)
(* that succeeds leaves a whole package (atomicPackageWrite, l.171-173).   *)
CacheKeepsAndHeals == Cache!CachedImmutably /\ Cache!SuccessHeals

(* Every fetch comes to an answer, even when several processes clear and   *)
(* rename the same directory (atomicPackageWrite, l.171-176), and every    *)
(* walk ends, also on manifests that depend on each other in a circle:     *)
(* `resolved` is set before the children are visited (installGraph, l.281).*)
(* A process fetches once, so that all of them are at rest in the end.     *)
EveryOperationEnds ==
  <>[]((\A p \in Procs : ~Cache!Active(p)) /\ (object = "graph" => status # "running"))

(* A finished installation holds exactly the releases the project needs,   *)
(* one version of each package, in whatever order and however often the    *)
(* walk met them; a version conflict is reported only if the project       *)
(* really needs two versions of a package (installGraph, l.267-288).       *)
WalkIsExact == Graph!InstalledIsClosure /\ Graph!ConflictIsReal

(* Whatever commands fail or die, and however the manifest is edited, the  *)
(* lock holds a complete installation: one version of a package, and with  *)
(* a release everything it depends on (installProject, l.290-295).         *)
LockIsComplete == Project!LockIsComplete

(* As long as nobody edits the manifest, no command fails, and the         *)
(* registry never changes a release, an import that is resolved between    *)
(* commands has exactly what the lock names, unless the last `add` ended   *)
(* in a version conflict: add writes the manifest before it knows (l.300). *)
QuietWorldResolvesLocked == Project!QuietWorldResolvesLocked

(* Doc/WORKSPACES_AND_BUILDS.md:62: the lockfile remains authoritative. An  *)
(* import resolves to the locked release with the locked SHA-256 identity  *)
(* (resolvePackageImports, l.305-319).                                     *)
ResolvesWhatIsLocked == Project!ResolvesWhatIsLocked
-----------------------------------------------------------------------------
(* The instance TLC checks.  Three processes, one of them offline, in      *)
(* every surroundings.  Three packages, one of them in two versions, with  *)
(* every choice of up to two dependencies for the first two and of one for *)
(* each version of the third: chains, diamonds, circles, and version       *)
(* conflicts at any depth.  And a project that may use two packages, where *)
(* a needs the first version of b, so that it conflicts with the second.   *)
MCEnvironments == SUBSET {"concurrent", "crashes"} \cup SUBSET {"concurrent", "unpinned"}

Version(p, v) == [pkg |-> p, ver |-> v]
RelA == Version("a", 1)
RelB1 == Version("b", 1)
RelB2 == Version("b", 2)
RelC1 == Version("c", 1)
RelC2 == Version("c", 2)
MCReleases == {RelA, RelB1, RelC1, RelC2}

UpTo1(S) == {<<>>} \cup {<<r>> : r \in S}
UpTo2(S) == UpTo1(S) \cup {<<r, s>> : r \in S, s \in S}
MCGraphs ==
  {[r \in MCReleases |-> CASE r = RelA -> x [] r = RelB1 -> y [] r = RelC1 -> z [] r = RelC2 -> w] :
     x \in UpTo2({RelB1, RelC1}), y \in UpTo2({RelA, RelC1, RelC2}), z \in UpTo1({RelA, RelB1}),
     w \in UpTo1({RelB1})}
MCRoots == {<<RelA>>, <<RelB1, RelA>>, <<RelA, RelC2>>}

MCOffers == {RelA, RelB1, RelB2}
MCDependsOn == [r \in MCOffers |-> IF r = RelA THEN {RelB1} ELSE {}]
MCWorlds == {{}, {"edits"}, {"moves"}}
MovesOnly == {{"moves"}}
=============================================================================
