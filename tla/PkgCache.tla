------------------------------ MODULE PkgCache ------------------------------
(***************************************************************************)
(* One package version in the registry cache of Runtime/package-manager.mjs*)
(* as seen by several processes that fetch it: verifyCachedPackage,        *)
(* fetchPackage with an exact version, and atomicPackageWrite.  A digest is*)
(* the content it was computed from (SHA-256 without collisions), and a    *)
(* file's bytes are the registry revision they came from.                  *)
(***************************************************************************)
EXTENDS Naturals

CONSTANTS
  Procs,         \* processes that fetch the package
  Files,         \* the files of the package
  None,          \* no such directory, no metadata, no answer
  MaxRevision,   \* bound: how often the registry's content may change
  MaxTampers,    \* bound: how often somebody edits a cached file
  OfflineProcs,  \* the processes that run with NOQERI_OFFLINE=1
  Environments   \* the surroundings to consider: what may happen in them

(* "concurrent": two processes may fetch at once; "crashes": a process may *)
(* die between two steps; "unpinned": the index records no integrities.    *)
VARIABLES
  env,      \* the surroundings of this behaviour
  revision, \* the registry's current revision of the package
  target,   \* the cache directory: None or [files, meta]
  temp,     \* each process's temporary directory
  index,    \* release.integrity as each process read it
  dl,       \* the files each process has read or downloaded
  todo,     \* the entries each process has yet to unlink
  meta,     \* the metadata each process read while verifying
  got,      \* what fetchPackage returned: the content it vouches for
  tampers,
  pc

vars == <<env, revision, target, temp, index, dl, meta, todo, got, tampers, pc>>

Published(r) == [f \in Files |-> r]
NoFiles == [f \in {} |-> 0]
Whole(dir) == dir # None /\ dir.meta # None /\ dir.files = dir.meta

May(what) == what \in env

Init ==
  /\ env \in Environments
  /\ revision = 0 /\ tampers = 0
  /\ target = None
  /\ temp = [p \in Procs |-> None]
  /\ index = [p \in Procs |-> None]
  /\ dl = [p \in Procs |-> NoFiles]
  /\ meta = [p \in Procs |-> None]
  /\ todo = [p \in Procs |-> {}]
  /\ got = [p \in Procs |-> None]
  /\ pc = [p \in Procs |-> "start"]

Active(p) == pc[p] \notin {"start", "ready", "failed"}

Goto(p, from, to) == pc[p] = from /\ pc' = [pc EXCEPT ![p] = to]

(* The tool is run again only after it has ended, or at the same time.     *)
Alone == \A p \in Procs : ~Active(p)
MayStart(p) == pc[p] = "start" => May("concurrent") \/ Alone

(* What follows a cached package that does not verify: with an exact       *)
(* version the cache is looked at before the index is read, and again      *)
(* after that.                                                             *)
AfterMiss(p) ==
  IF pc[p] \in {"indexed", "reverifying"} THEN "listing"
  ELSE IF p \in OfflineProcs THEN "failed" ELSE "missed"

(* verifyCachedPackage reads the metadata first, then file after file, and *)
(* hashes what it has read.                                                *)
ReadMeta(p) ==
  /\ pc[p] \in {"start", "indexed"} /\ MayStart(p)
  /\ dl' = [dl EXCEPT ![p] = NoFiles]
  /\ IF target # None /\ target.meta # None
     THEN /\ meta' = [meta EXCEPT ![p] = target.meta]
          /\ pc' = [pc EXCEPT ![p] = IF @ = "start" THEN "verifying" ELSE "reverifying"]
     ELSE /\ pc' = [pc EXCEPT ![p] = AfterMiss(p)]
          /\ UNCHANGED meta
  /\ UNCHANGED <<revision, target, temp, index, todo, got, tampers>>

Unread(p) == IF target = None THEN {} ELSE DOMAIN target.files \ DOMAIN dl[p]

ReadFile(p, f) ==
  /\ pc[p] \in {"verifying", "reverifying"} /\ f \in Unread(p)
  /\ dl' = [dl EXCEPT ![p] = [g \in DOMAIN @ \cup {f} |-> IF g = f THEN target.files[f] ELSE @[g]]]
  /\ UNCHANGED <<revision, target, temp, index, meta, todo, got, tampers, pc>>

(* Mutant: the files are not hashed again. *)
VerifyNothing(p) ==
  /\ pc[p] \in {"verifying", "reverifying"} /\ Unread(p) = {}
  /\ pc' = [pc EXCEPT ![p] = "ready"]
  /\ got' = [got EXCEPT ![p] = dl[p]]
  /\ UNCHANGED <<revision, target, temp, index, dl, meta, todo, tampers>>

(* Mutant: the verified package is not returned. *)
VerifyNoResult(p) ==
  /\ pc[p] \in {"verifying", "reverifying"} /\ Unread(p) = {}
  /\ pc' = [pc EXCEPT ![p] = IF dl[p] = meta[p] THEN "ready" ELSE AfterMiss(p)]
  /\ dl' = [dl EXCEPT ![p] = NoFiles]
  /\ UNCHANGED <<revision, target, temp, index, meta, todo, got, tampers>>

Verify(p) ==
  /\ pc[p] \in {"verifying", "reverifying"} /\ Unread(p) = {}
  /\ IF dl[p] = meta[p]
     THEN /\ pc' = [pc EXCEPT ![p] = "ready"]
          /\ got' = [got EXCEPT ![p] = meta[p]]
     ELSE /\ pc' = [pc EXCEPT ![p] = AfterMiss(p)]
          /\ UNCHANGED got
  /\ dl' = [dl EXCEPT ![p] = NoFiles]
  /\ UNCHANGED <<revision, target, temp, index, meta, todo, tampers>>

(* registryIndex and chooseRelease; an unusable release or a failed        *)
(* request ends the fetch.                                                 *)
ReadIndex(p) ==
  /\ Goto(p, "missed", "indexed")
  /\ index' = [index EXCEPT ![p] = IF May("unpinned") THEN None ELSE Published(revision)]
  /\ UNCHANGED <<revision, target, temp, dl, meta, todo, got, tampers>>

NetworkFails(p) ==
  /\ pc[p] \in {"missed", "listing"}
  /\ pc' = [pc EXCEPT ![p] = "failed"]
  /\ UNCHANGED <<revision, target, temp, index, dl, meta, todo, got, tampers>>

(* listPackageFiles fetches the files one request after the other. *)
Download(p, f) ==
  /\ pc[p] = "listing" /\ f \notin DOMAIN dl[p]
  /\ dl' = [dl EXCEPT ![p] = [g \in DOMAIN @ \cup {f} |-> IF g = f THEN revision ELSE @[g]]]
  /\ UNCHANGED <<revision, target, temp, index, meta, todo, got, tampers, pc>>

CheckIntegrity(p) ==
  /\ DOMAIN dl[p] = Files
  /\ Goto(p, "listing", IF index[p] \in {None, dl[p]} THEN "checked" ELSE "failed")
  /\ UNCHANGED <<revision, target, temp, index, dl, meta, todo, got, tampers>>

(* Mutant: the integrity file is not written. *)
WriteTempBare(p) ==
  /\ Goto(p, "checked", "written")
  /\ temp' = [temp EXCEPT ![p] = [files |-> dl[p], meta |-> None]]
  /\ UNCHANGED <<revision, target, index, dl, meta, todo, got, tampers>>

(* atomicPackageWrite: files, then metadata, into a directory of its own. *)
WriteTemp(p) ==
  /\ Goto(p, "checked", "written")
  /\ temp' = [temp EXCEPT ![p] = [files |-> dl[p], meta |-> dl[p]]]
  /\ UNCHANGED <<revision, target, index, dl, meta, todo, got, tampers>>

(* rm(target, recursive) lists the directory, unlinks what it listed, one  *)
(* entry after the other, and then removes the directory.                  *)
Entries(dir) ==
  IF dir = None THEN {} ELSE DOMAIN dir.files \cup (IF dir.meta = None THEN {} ELSE {"meta"})

List(p) ==
  /\ Goto(p, "written", "clearing")
  /\ todo' = [todo EXCEPT ![p] = Entries(target)]
  /\ UNCHANGED <<revision, target, temp, index, dl, meta, got, tampers>>

Unlink(p, e) ==
  /\ pc[p] = "clearing" /\ e \in todo[p]
  /\ todo' = [todo EXCEPT ![p] = @ \ {e}]
  /\ target' = IF target = None THEN None
               ELSE IF e = "meta" THEN [target EXCEPT !.meta = None]
               ELSE [target EXCEPT !.files = [g \in DOMAIN @ \ {e} |-> @[g]]]
  /\ UNCHANGED <<revision, temp, index, dl, meta, got, tampers, pc>>

(* Mutant: a directory that is not empty is cleared again and again.       *)
RemoveDirRetries(p) ==
  /\ todo[p] = {} /\ Entries(target) = {}
  /\ Goto(p, "clearing", "renaming")
  /\ target' = None
  /\ UNCHANGED <<revision, temp, index, dl, meta, todo, got, tampers>>

RemoveDir(p) ==
  /\ todo[p] = {}
  /\ IF Entries(target) = {}
     THEN Goto(p, "clearing", "renaming") /\ target' = None /\ UNCHANGED temp
     ELSE /\ Goto(p, "clearing", "failed")          \* ENOTEMPTY
          /\ temp' = [temp EXCEPT ![p] = None]
          /\ UNCHANGED target
  /\ UNCHANGED <<revision, index, dl, meta, todo, got, tampers>>

(* A rename replaces an empty directory and refuses any other. *)
Rename(p) ==
  /\ IF Entries(target) = {}
     THEN /\ Goto(p, "renaming", "ready")
          /\ target' = temp[p]
          /\ got' = [got EXCEPT ![p] = dl[p]]
     ELSE /\ Goto(p, "renaming", "failed")          \* ENOTEMPTY
          /\ UNCHANGED <<target, got>>
  /\ temp' = [temp EXCEPT ![p] = None]
  /\ UNCHANGED <<revision, index, dl, meta, todo, tampers>>

Crash(p) ==
  /\ May("crashes") /\ Active(p)
  /\ pc' = [pc EXCEPT ![p] = "failed"]
  /\ UNCHANGED <<revision, target, temp, index, dl, meta, todo, got, tampers>>

(* The environment: the registry's branch moves, a cached file is edited. *)
Publish ==
  /\ revision < MaxRevision
  /\ revision' = revision + 1
  /\ UNCHANGED <<target, temp, index, dl, meta, todo, got, tampers, pc>>

Tamper ==
  /\ tampers < MaxTampers /\ target # None
  /\ May("concurrent") \/ Alone
  /\ \E f \in DOMAIN target.files : target' = [target EXCEPT !.files[f] = MaxRevision + 1]
  /\ tampers' = tampers + 1
  /\ UNCHANGED <<revision, temp, index, dl, meta, todo, got, pc>>

Advance(p) ==
  \/ ReadMeta(p) \/ Verify(p) \/ ReadIndex(p) \/ NetworkFails(p)
  \/ (\E f \in Files : ReadFile(p, f) \/ Download(p, f))
  \/ CheckIntegrity(p) \/ WriteTemp(p) \/ List(p)
  \/ (\E e \in Files \cup {"meta"} : Unlink(p, e)) \/ RemoveDir(p) \/ Rename(p)

Next ==
  /\ (\E p \in Procs : Advance(p) \/ Crash(p)) \/ Publish \/ Tamper
  /\ UNCHANGED env

Spec == Init /\ [][Next]_vars

-----------------------------------------------------------------------------
Contents == UNION {[S -> 0 .. MaxRevision + 1] : S \in SUBSET Files}
Dirs == [files : Contents, meta : Contents \cup {None}]

TypeOK ==
  /\ env \in Environments
  /\ revision \in 0 .. MaxRevision /\ tampers \in 0 .. MaxTampers
  /\ target \in Dirs \cup {None}
  /\ temp \in [Procs -> Dirs \cup {None}]
  /\ dl \in [Procs -> Contents]
  /\ index \in [Procs -> Contents \cup {None}]
  /\ todo \in [Procs -> SUBSET (Files \cup {"meta"})]
  /\ meta \in [Procs -> Contents \cup {None}]
  /\ got \in [Procs -> Contents \cup {None}]
  /\ pc \in [Procs -> {"start", "verifying", "missed", "indexed", "reverifying", "listing", "checked",
                       "written", "clearing", "renaming", "ready", "failed"}]
  /\ \A p \in Procs : pc[p] = "ready" => got[p] # None

(* Whatever other processes, deaths, edits of the cache and changes of the *)
(* registry do meanwhile, a fetch vouches only for a complete package, and *)
(* when the index records integrities, for one revision of it: files of two*)
(* revisions or edited files are refused (verifyCachedPackage l.151,       *)
(* fetchPackage l.200).                                                    *)
VouchedIsPublished ==
  \A p \in Procs : got[p] # None =>
    /\ DOMAIN got[p] = Files
    /\ ~May("unpinned") => \E r \in 0 .. MaxRevision : got[p] = Published(r)

(* Packages are cached immutably (Runtime/stage1-cli.mjs:24) by fetches    *)
(* that follow one another, each free to die: once a whole package is in   *)
(* the cache, none of them removes or replaces it, whatever the registry   *)
(* serves by then.  Two processes that miss at the same time do: the       *)
(* slower one clears what the faster one installed (l.171).                *)
CachedImmutably ==
  [][~May("concurrent") /\ Whole(target) /\ tampers' = tampers => target' = target]_vars

(* Whatever deaths and edits have left in the cache, a fetch that succeeds *)
(* while no other runs leaves a whole package there (l.171-173).           *)
SuccessHeals ==
  [][~May("concurrent") /\ (\E p \in Procs : pc[p] # "ready" /\ pc'[p] = "ready")
       => Whole(target')]_vars
=============================================================================
