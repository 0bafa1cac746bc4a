----------------------------- MODULE PkgInstall -----------------------------
(***************************************************************************)
(* installGraph of Runtime/package-manager.mjs: the awaited depth-first    *)
(* walk over the dependency blocks of the manifests.  A package release is *)
(* a record [pkg, ver]; `graph` gives the dependency list of each release. *)
(***************************************************************************)
EXTENDS Naturals, Sequences

CONSTANTS
  Releases,  \* the releases the registry offers
  Graphs,    \* the dependency lists to consider: [Releases -> Seq(Releases)]
  Roots,     \* the dependency lists a project may have
  MaxDepth   \* the depth limit, 32 in the code

VARIABLES
  graph,     \* the manifests
  root,      \* the project's dependency list
  resolved,  \* Map: package -> release
  visiting,  \* Set of releases being visited
  stack,     \* the calls of visit in progress: [rel, todo], the project below
  status     \* "running", or how installGraph ended

vars == <<graph, root, resolved, visiting, stack, status>>

Edges(r) == {graph[r][i] : i \in DOMAIN graph[r]}
RootSet == {root[i] : i \in DOMAIN root}

Init ==
  /\ graph \in Graphs /\ root \in Roots
  /\ resolved = [p \in {} |-> {}]
  /\ visiting = {}
  /\ stack = <<[rel |-> "project", todo |-> root]>>
  /\ status = "running"

Depth == Len(stack) - 1
Top == stack[Len(stack)]
Pop(s) == SubSeq(s, 1, Len(s) - 1)

(* The `for` of the caller moves on to its next dependency. *)
Skip == [stack EXCEPT ![Len(stack)].todo = Tail(@)]

End(result) == status' = result /\ UNCHANGED <<graph, root, resolved, visiting, stack>>

(* Visit with another treatment of a package that is already resolved. *)
VisitOr(dep, Prior) ==
  /\ status = "running"
  /\ IF Depth > MaxDepth THEN End("depth")
     ELSE IF dep.pkg \in DOMAIN resolved THEN Prior
     ELSE /\ visiting' = visiting \cup {dep}
          /\ resolved' = [p \in DOMAIN resolved \cup {dep.pkg} |->
                            IF p = dep.pkg THEN dep ELSE resolved[p]]
          /\ stack' = Append(Skip, [rel |-> dep, todo |-> graph[dep]])
          /\ UNCHANGED <<graph, root, status>>

Unchanged == UNCHANGED <<graph, root, resolved, visiting, status>>

(* Mutant: the versions are not compared. *)
VisitAnyVersion == Top.todo # <<>> /\ VisitOr(Head(Top.todo), stack' = Skip /\ Unchanged)

(* visit(dep, depth), in the order of its checks. *)
Visit ==
  /\ status = "running" /\ Top.todo # <<>>
  /\ LET dep == Head(Top.todo)
     IN  IF Depth > MaxDepth THEN End("depth")
         ELSE IF dep.pkg \in DOMAIN resolved
              THEN IF resolved[dep.pkg] # dep THEN End("conflict")
                   ELSE stack' = Skip /\ UNCHANGED <<graph, root, resolved, visiting, status>>
         ELSE IF dep \in visiting THEN End("cycle")
         ELSE /\ visiting' = visiting \cup {dep}
              /\ resolved' = [p \in DOMAIN resolved \cup {dep.pkg} |->
                                IF p = dep.pkg THEN dep ELSE resolved[p]]
              /\ stack' = Append(Skip, [rel |-> dep, todo |-> graph[dep]])
              /\ UNCHANGED <<graph, root, status>>

(* fetchPackage rejects: no such release, no network, bad content. *)
FetchFails ==
  /\ status = "running" /\ Top.todo # <<>>
  /\ Depth <= MaxDepth
  /\ Head(Top.todo).pkg \notin DOMAIN resolved
  /\ End("unavailable")

(* A visit returns, or the walk is complete. *)
Return ==
  /\ status = "running" /\ Top.todo = <<>>
  /\ IF Len(stack) = 1 THEN End("installed")
     ELSE /\ visiting' = visiting \ {Top.rel}
          /\ stack' = Pop(stack)
          /\ UNCHANGED <<graph, root, resolved, status>>

Next == Visit \/ FetchFails \/ Return

Spec == Init /\ [][Next]_vars

-----------------------------------------------------------------------------
(* The releases that the project depends on, directly or not: those in     *)
(* every set of releases that holds its own and is closed under `graph`.   *)
Closed(S) == RootSet \subseteq S /\ \A r \in S : Edges(r) \subseteq S
Closure == {r \in Releases : \A S \in SUBSET Releases : Closed(S) => r \in S}

TypeOK ==
  /\ DOMAIN resolved \subseteq {r.pkg : r \in Releases}
  /\ \A p \in DOMAIN resolved : resolved[p] \in Releases /\ resolved[p].pkg = p
  /\ visiting = {stack[i].rel : i \in 2 .. Len(stack)}
  /\ Len(stack) \in 1 .. MaxDepth + 2
  /\ status \in {"running", "installed", "depth", "conflict", "cycle", "unavailable"}

(* A finished installation holds exactly the releases the project needs,   *)
(* one version of each package, in whatever order and however often the    *)
(* walk met them (installGraph, l.267-288).                                *)
InstalledIsClosure ==
  status = "installed" =>
    /\ {resolved[p] : p \in DOMAIN resolved} = Closure
    /\ \A r, s \in Closure : r.pkg = s.pkg => r = s

(* A version conflict is reported only if the project really needs two     *)
(* versions of a package (l.272-275).                                      *)
ConflictIsReal ==
  status = "conflict" => \E r, s \in Closure : r.pkg = s.pkg /\ r # s
=============================================================================
