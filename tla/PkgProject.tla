----------------------------- MODULE PkgProject -----------------------------
(***************************************************************************)
(* A project's manifest, its lock and the cache under the commands of      *)
(* Runtime/package-manager.mjs: add, install and the resolution of package *)
(* imports by check and run.  The walk of installGraph is one step here    *)
(* (PkgInstall refines it), a cached package is its integrity (PkgCache).  *)
(***************************************************************************)
EXTENDS Naturals, FiniteSets

CONSTANTS
  Packages,     \* package coordinates
  Releases,     \* [pkg, ver] records offered by the registry
  DependsOn,    \* [Releases -> SUBSET Releases]: the manifests
  None,         \* nothing: no cached copy, no lock, no release in hand
  Torn,         \* a lock file cut short
  MaxRevision,  \* bound: how often a release's content may change
  MaxFaults,    \* bound: crashes and failed requests
  Environments  \* the surroundings to consider: what may happen in them

(* "edits": the user may edit project.nqr by hand; "moves": the registry   *)
(* may change the content of a release.                                    *)
VARIABLES
  env,       \* the surroundings of this behaviour
  project,   \* the dependencies block: package -> release or None
  lock,      \* noqeri.lock: None, Torn, or a set of [rel, integrity]
  cache,     \* release -> integrity or None
  registry,  \* release -> the revision the registry serves
  pc,        \* what the tool is doing
  adding,    \* the release `add` has fetched
  plan,      \* the items installGraph returned
  answer,    \* the last import resolved: [rel, integrity]
  faults

vars == <<env, project, lock, cache, registry, pc, adding, plan, answer, faults>>

Declared == {project[p] : p \in Packages} \ {None}

(* The releases installGraph visits, from those the manifest declares. *)
Needed ==
  {r \in Releases :
     \A S \in SUBSET Releases :
       Declared \subseteq S /\ (\A s \in S : DependsOn[s] \subseteq S) => r \in S}

OneVersionEach(S) == \A r, s \in S : r.pkg = s.pkg => r = s

(* fetchPackage: a verified copy is used as it is, whatever the registry   *)
(* or the lock say; otherwise the registry's current content is cached.    *)
Fetched(S) == [r \in Releases |-> IF r \in S /\ cache[r] = None THEN registry[r] ELSE cache[r]]

May(what) == what \in env

Init ==
  /\ env \in Environments
  /\ project = [p \in Packages |-> None]
  /\ lock = None /\ plan = {} /\ adding = None /\ answer = None
  /\ cache = [r \in Releases |-> None]
  /\ registry = [r \in Releases |-> 0]
  /\ pc = "idle" /\ faults = 0

(* addPackage: fetch, rewrite project.nqr, then install. *)
Add(r) ==
  /\ pc = "idle"
  /\ pc' = "adding" /\ adding' = r
  /\ cache' = Fetched({r})
  /\ UNCHANGED <<project, lock, registry, plan, answer, faults>>

AddWrite ==
  /\ pc = "adding"
  /\ pc' = "installing" /\ adding' = None
  /\ project' = [project EXCEPT ![adding.pkg] = adding]
  /\ UNCHANGED <<lock, cache, registry, plan, answer, faults>>

Install ==
  /\ pc = "idle" /\ pc' = "installing"
  /\ UNCHANGED <<project, lock, cache, registry, adding, plan, answer, faults>>

(* installGraph returns, or throws on a version conflict. *)
Walk ==
  /\ pc = "installing"
  /\ IF OneVersionEach(Needed)
     THEN /\ pc' = "locking"
          /\ cache' = Fetched(Needed)
          /\ plan' = {[rel |-> r, integrity |-> cache'[r]] : r \in Needed}
     ELSE /\ pc' = "idle"
          /\ \E S \in SUBSET Needed : cache' = Fetched(S)
          /\ UNCHANGED plan
  /\ UNCHANGED <<project, lock, registry, adding, answer, faults>>

(* Mutant: the new items are added to the lock there was. *)
WriteLockMerges ==
  /\ pc = "locking" /\ pc' = "idle"
  /\ lock' = plan \cup (IF lock \in {None, Torn} THEN {} ELSE lock)
  /\ plan' = {}
  /\ UNCHANGED <<project, cache, registry, adding, answer, faults>>

WriteLock ==
  /\ pc = "locking" /\ pc' = "idle"
  /\ lock' = plan /\ plan' = {}
  /\ UNCHANGED <<project, cache, registry, adding, answer, faults>>

(* A request fails, or the process dies: what is on disk stays there; the  *)
(* lock and the manifest are written in place, so a death while writing    *)
(* may truncate them.  A manifest cut before its dependencies declares     *)
(* none; one cut inside them is refused by every command, which is as if   *)
(* none were run.                                                          *)
Fail ==
  /\ faults < MaxFaults /\ pc # "idle"
  /\ faults' = faults + 1
  /\ pc' = "idle" /\ adding' = None /\ plan' = {}
  /\ lock' \in (IF pc = "locking" THEN {lock, Torn} ELSE {lock})
  /\ project' \in {project} \cup (IF pc = "adding" THEN {[p \in Packages |-> None]} ELSE {})
  /\ \E S \in SUBSET (IF pc = "installing" THEN Needed ELSE {}) : cache' = Fetched(S)
  /\ UNCHANGED <<registry, answer>>

(* Mutant: any version of the declared package will do. *)
ResolveAnyVersion(p) ==
  /\ pc = "idle" /\ project[p] # None
  /\ \E r \in {x \in Releases : x.pkg = p} :
       /\ cache' = Fetched({r})
       /\ answer' = [rel |-> r, integrity |-> cache'[r]]
  /\ UNCHANGED <<project, lock, registry, pc, adding, plan, faults>>

(* resolvePackageImports: the manifest's version, not the lock's. *)
Resolve(p) ==
  /\ pc = "idle" /\ project[p] # None
  /\ cache' = Fetched({project[p]})
  /\ answer' = [rel |-> project[p], integrity |-> cache'[project[p]]]
  /\ UNCHANGED <<project, lock, registry, pc, adding, plan, faults>>

(* The environment: the registry's branch moves, the cache is cleared, the *)
(* user edits the manifest.                                                *)
Publish(r) ==
  /\ May("moves") /\ registry[r] < MaxRevision
  /\ registry' = [registry EXCEPT ![r] = @ + 1]
  /\ UNCHANGED <<project, lock, cache, pc, adding, plan, answer, faults>>

ClearCache ==
  /\ pc = "idle"
  /\ cache' = [r \in Releases |-> None]
  /\ UNCHANGED <<project, lock, registry, pc, adding, plan, answer, faults>>

HandEdit(p) ==
  /\ May("edits") /\ pc = "idle"
  /\ \E r \in {x \in Releases : x.pkg = p} \cup {None} : project' = [project EXCEPT ![p] = r]
  /\ UNCHANGED <<lock, cache, registry, pc, adding, plan, answer, faults>>

Next ==
  /\ \/ \E r \in Releases : Add(r) \/ Publish(r)
     \/ AddWrite \/ Install \/ Walk \/ WriteLock \/ Fail \/ ClearCache
     \/ \E p \in Packages : Resolve(p) \/ HandEdit(p)
  /\ UNCHANGED env

Spec == Init /\ [][Next]_vars

-----------------------------------------------------------------------------
Items == [rel : Releases, integrity : 0 .. MaxRevision]

TypeOK ==
  /\ env \in Environments
  /\ project \in [Packages -> Releases \cup {None}]
  /\ lock \in {None, Torn} \cup SUBSET Items
  /\ cache \in [Releases -> 0 .. MaxRevision \cup {None}]
  /\ registry \in [Releases -> 0 .. MaxRevision]
  /\ pc \in {"idle", "adding", "installing", "locking"}
  /\ adding \in Releases \cup {None} /\ (pc = "adding" <=> adding # None)
  /\ plan \subseteq Items /\ answer \in Items \cup {None}
  /\ faults \in 0 .. MaxFaults

Locked == IF lock \in {None, Torn} THEN {} ELSE {i.rel : i \in lock}

(* Whatever commands fail or die, and however the manifest is edited, the  *)
(* lock holds a complete installation: one version of a package, and with  *)
(* a release everything it depends on (installProject, l.290-295).         *)
LockIsComplete ==
  /\ OneVersionEach(Locked)
  /\ \A r \in Locked : DependsOn[r] \subseteq Locked

(* Doc/WORKSPACES_AND_BUILDS.md:62: the lockfile remains authoritative. An  *)
(* import resolves to the locked release with the locked SHA-256 identity  *)
(* (resolvePackageImports, l.305-319).                                     *)
ResolvesWhatIsLocked ==
  [][answer' # answer /\ lock \notin {None, Torn} => answer' \in lock]_vars

(* As long as nobody edits the manifest, no command fails, and the         *)
(* registry never changes a release, an import that is resolved between    *)
(* commands has exactly what the lock names, unless the last `add` ended   *)
(* in a version conflict: add writes the manifest before it knows (l.300). *)
QuietWorldResolvesLocked ==
  [][env = {} /\ faults = 0 /\ answer' # answer /\ OneVersionEach(Needed)
       => lock \notin {None, Torn} /\ answer' \in lock]_vars
=============================================================================
