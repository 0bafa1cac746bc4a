-------------------------- MODULE Database_proofs --------------------------
(***************************************************************************)
(* Proofs about the NoqeriDB host (Compiler/bootstrap/noqeridb_host.cpp):  *)
(* how saveState replaces a file, for any processes in any surroundings,   *)
(* and what the statements of a script do to any tables of any rows.       *)
(***************************************************************************)
EXTENDS Database, FiniteSetTheorems, SequenceTheorems, TLAPS

InFlight == {"opened", "written", "removed"}
Sequential == "concurrent" \notin env

(* The inodes are created by path.tmp's first opener; path and path.tmp    *)
(* never name the same one.                                                *)
FilesNamed ==
  /\ \A p \in Procs : pc[p] \in {"start", "loaded"} => fd[p] = None
  /\ \A p \in Procs : pc[p] \in InFlight \cup {"ok"} => fd[p] # None
  /\ \A p \in Procs : fd[p] # None => fd[fd[p]] = fd[p]
  /\ main # None => fd[main] = main /\ main # temp
  /\ temp # None => fd[temp] = temp

(* Only a rename takes path.tmp away, and only an open that finds none     *)
(* makes one.                                                              *)
Creators == {p \in Procs : fd[p] = p}
RenamesCounted ==
  /\ IsFiniteSet(Creators) /\ IsFiniteSet(Store!Succeeded)
  /\ Cardinality(Creators) = Cardinality(Store!Succeeded) + (IF temp = None THEN 0 ELSE 1)

(* A text that nobody else opened is what its writer made it.              *)
OpenedAlone(p) == \A q \in Procs : fd[q] = p <=> q = p
OwnText ==
  "power" \notin env =>
    \A p \in Procs : OpenedAlone(p) =>
      /\ pc[p] = "opened" => content[p] = Store!Empty
      /\ pc[p] \in {"written", "removed", "ok"} => content[p].whole

RenamedOrReported ==
  Store!Succeeded = {} \/ main # None \/ \E p \in Procs : pc[p] \in {"removed", "failed"}

(* Scripts that follow one another: the one at work has path.tmp for       *)
(* itself, and what it loaded is what path shows until it removes it, if   *)
(* the power does not fail.                                                *)
OneAtATime == Sequential => \A p, q \in Procs : Store!Active(p) /\ Store!Active(q) => p = q
HasTemp(p) ==
  /\ pc[p] \in InFlight => temp = fd[p]
  /\ pc[p] = "opened" => content[fd[p]] = Store!Empty
  /\ pc[p] \in {"written", "removed"} => content[fd[p]] = [whole |-> TRUE, has |-> view[p] \cup {p}]
HasView(p) ==
  /\ "power" \notin env =>
       /\ pc[p] \in {"loaded", "opened", "written"} => view[p] = Store!Visible
       /\ pc[p] = "removed" /\ main # None => view[p] = Store!Visible
  /\ Store!Active(p) => view[p] \subseteq Store!Succeeded
OwnTemp == Sequential => \A p \in Procs : HasTemp(p) /\ HasView(p)

(* While nothing is lost yet, a file that is there lacks nothing.          *)
KeptInMain ==
  Sequential /\ "power" \notin env /\ main # None /\ Store!Recoverable => Store!Succeeded \subseteq Store!Visible

-----------------------------------------------------------------------------
(* The store takes its own steps, whichever side a behaviour is about.     *)
LEMMA StoreSteps == [Next]_vars => Store!Next \/ UNCHANGED storeVars
  BY DEF Next, vars

LEMMA StoreInit == Init => Store!Init
  BY DEF Init

LEMMA InitTypes == Init => Store!TypeOK
<1> SUFFICES ASSUME Store!Init PROVE Store!TypeOK
  BY StoreInit
<1>1. content \in [Procs -> [whole : BOOLEAN, has : SUBSET Procs]]
  BY DEF Store!Init, Store!Empty
<1> QED BY <1>1 DEF Store!Init, Store!TypeOK

LEMMA StepTypes == Store!TypeOK /\ [Next]_vars => Store!TypeOK'
<1> SUFFICES ASSUME Store!TypeOK, Store!Next \/ UNCHANGED storeVars PROVE Store!TypeOK'
  BY StoreSteps
<1> USE DatabaseAssumption DEF Store!TypeOK, Store!Goto, Store!Empty
<1>1. ASSUME NEW p \in Procs, Store!Step(p), env' = env PROVE Store!TypeOK'
  <2>1. CASE Store!Load(p)
    <3>1. main # None => \A left \in SUBSET content[main].has : left \in SUBSET Procs
      OBVIOUS
    <3>2. view' \in [Procs -> SUBSET Procs]
      BY <2>1, <3>1 DEF Store!Load
    <3> QED BY <1>1, <2>1, <3>2 DEF Store!Load
  <2>2. CASE Store!Refuse(p) BY <1>1, <2>2 DEF Store!Refuse
  <2>3. CASE Store!OpenTemp(p) BY <1>1, <2>3 DEF Store!OpenTemp
  <2>4. CASE Store!Write(p) BY <1>1, <2>4 DEF Store!Write
  <2>5. CASE Store!WriteFails(p) BY <1>1, <2>5 DEF Store!WriteFails
  <2>6. CASE Store!Remove(p) BY <1>1, <2>6 DEF Store!Remove
  <2>7. CASE Store!Rename(p) BY <1>1, <2>7 DEF Store!Rename
  <2>8. CASE Store!RenameFails(p) BY <1>1, <2>8 DEF Store!RenameFails
  <2>9. CASE Store!Crash(p) BY <1>1, <2>9 DEF Store!Crash
  <2> QED BY <1>1, <2>1, <2>2, <2>3, <2>4, <2>5, <2>6, <2>7, <2>8, <2>9 DEF Store!Step
<1>2. ASSUME NEW p \in Procs, Store!WriteBack(p), env' = env PROVE Store!TypeOK'
  BY <1>2 DEF Store!WriteBack
<1>3. ASSUME Store!LosePower, env' = env PROVE Store!TypeOK'
  BY <1>3 DEF Store!LosePower
<1>4. CASE UNCHANGED storeVars BY <1>4 DEF storeVars
<1> QED BY <1>1, <1>2, <1>3, <1>4 DEF Store!Next

(* Every step of the store is a step of a process, or the system's. *)
LEMMA StoreCases ==
  ASSUME [Next]_vars
  PROVE  \/ \E p \in Procs : Store!Step(p) /\ env' = env
         \/ \E i \in Procs : Store!WriteBack(i) /\ env' = env
         \/ Store!LosePower /\ env' = env
         \/ UNCHANGED storeVars
  BY StoreSteps DEF Store!Next

LEMMA InitFiles == Init => FilesNamed
  BY StoreInit DEF Store!Init, FilesNamed, InFlight

LEMMA StepFiles == Store!TypeOK /\ FilesNamed /\ [Next]_vars => FilesNamed'
<1> SUFFICES ASSUME Store!TypeOK, FilesNamed, [Next]_vars PROVE FilesNamed'
  OBVIOUS
<1> USE DatabaseAssumption DEF Store!TypeOK, FilesNamed, InFlight, Store!Goto, Store!Active
<1>1. ASSUME NEW p \in Procs, Store!Step(p) PROVE FilesNamed'
  <2>1. CASE Store!Load(p) BY <2>1 DEF Store!Load
  <2>2. CASE Store!Refuse(p) BY <2>2 DEF Store!Refuse
  <2>3. CASE Store!OpenTemp(p)
    <3>1. CASE temp = None BY <2>3, <3>1 DEF Store!OpenTemp
    <3>2. CASE temp # None BY <2>3, <3>2 DEF Store!OpenTemp
    <3> QED BY <3>1, <3>2
  <2>4. CASE Store!Write(p) BY <2>4 DEF Store!Write
  <2>5. CASE Store!WriteFails(p) BY <2>5 DEF Store!WriteFails
  <2>6. CASE Store!Remove(p) BY <2>6 DEF Store!Remove
  <2>7. CASE Store!Rename(p) BY <2>7 DEF Store!Rename
  <2>8. CASE Store!RenameFails(p) BY <2>8 DEF Store!RenameFails
  <2>9. CASE Store!Crash(p) BY <2>9 DEF Store!Crash
  <2> QED BY <1>1, <2>1, <2>2, <2>3, <2>4, <2>5, <2>6, <2>7, <2>8, <2>9 DEF Store!Step
<1>2. ASSUME NEW i \in Procs, Store!WriteBack(i) PROVE FilesNamed' BY <1>2 DEF Store!WriteBack
<1>3. CASE Store!LosePower BY <1>3 DEF Store!LosePower
<1>4. CASE UNCHANGED storeVars BY <1>4 DEF storeVars
<1> QED BY <1>1, <1>2, <1>3, <1>4, StoreCases

(* Somebody renamed a file into place, unless nobody succeeded yet. *)
LEMMA StepReported == Store!TypeOK /\ FilesNamed /\ RenamedOrReported /\ [Next]_vars => RenamedOrReported'
<1> SUFFICES ASSUME Store!TypeOK, FilesNamed, RenamedOrReported, [Next]_vars PROVE RenamedOrReported'
  OBVIOUS
<1> USE DatabaseAssumption DEF Store!TypeOK, RenamedOrReported, Store!Goto, Store!Active, Store!Succeeded
<1>1. ASSUME NEW p \in Procs, Store!Step(p) PROVE RenamedOrReported'
  <2>1. CASE Store!Load(p) BY <2>1 DEF Store!Load
  <2>2. CASE Store!Refuse(p) BY <2>2 DEF Store!Refuse
  <2>3. CASE Store!OpenTemp(p) BY <2>3 DEF Store!OpenTemp
  <2>4. CASE Store!Write(p) BY <2>4 DEF Store!Write
  <2>5. CASE Store!WriteFails(p) BY <2>5 DEF Store!WriteFails
  <2>6. CASE Store!Remove(p) BY <2>6 DEF Store!Remove
  <2>7. CASE Store!Rename(p) BY <2>7 DEF Store!Rename
  <2>8. CASE Store!RenameFails(p) BY <2>8 DEF Store!RenameFails
  <2>9. CASE Store!Crash(p) BY <2>9 DEF Store!Crash
  <2> QED BY <1>1, <2>1, <2>2, <2>3, <2>4, <2>5, <2>6, <2>7, <2>8, <2>9 DEF Store!Step
<1>2. ASSUME NEW i \in Procs, Store!WriteBack(i) PROVE RenamedOrReported' BY <1>2 DEF Store!WriteBack
<1>3. CASE Store!LosePower BY <1>3 DEF Store!LosePower
<1>4. CASE UNCHANGED storeVars BY <1>4 DEF storeVars
<1> QED BY <1>1, <1>2, <1>3, <1>4, StoreCases

(* Steps that neither make nor rename a temporary keep the counts. *)
LEMMA OthersCount ==
  ASSUME fd' = fd, temp' = temp, Store!Succeeded' = Store!Succeeded, RenamesCounted
  PROVE  RenamesCounted'
<1>1. Creators' = Creators BY DEF Creators
<1> QED BY <1>1 DEF RenamesCounted

LEMMA StepCounted == Store!TypeOK /\ FilesNamed /\ RenamesCounted /\ [Next]_vars => RenamesCounted'
<1> SUFFICES ASSUME Store!TypeOK, FilesNamed, RenamesCounted, [Next]_vars PROVE RenamesCounted'
  OBVIOUS
<1> USE DatabaseAssumption DEF Store!TypeOK, FilesNamed, InFlight
<1>1. ASSUME NEW p \in Procs, Store!OpenTemp(p) PROVE RenamesCounted'
  <2>1. Store!Succeeded' = Store!Succeeded
    BY <1>1 DEF Store!OpenTemp, Store!Goto, Store!Succeeded
  <2>2. CASE temp = None
    <3>1. Creators' = Creators \cup {p} /\ p \notin Creators /\ temp' # None
      BY <1>1, <2>2 DEF Store!OpenTemp, Store!Goto, Creators
    <3>2. IsFiniteSet(Creators') /\ Cardinality(Creators') = Cardinality(Creators) + 1
      BY <3>1, FS_AddElement DEF RenamesCounted
    <3>3. Cardinality(Store!Succeeded) \in Nat
      BY FS_CardinalityType DEF RenamesCounted
    <3> QED BY <2>1, <2>2, <3>1, <3>2, <3>3 DEF RenamesCounted
  <2>3. CASE temp # None
    <3>1. Creators' = Creators /\ temp' = temp
      BY <1>1, <2>3 DEF Store!OpenTemp, Store!Goto, Creators
    <3> QED BY <2>1, <3>1 DEF RenamesCounted
  <2> QED BY <2>2, <2>3
<1>2. ASSUME NEW p \in Procs, Store!Rename(p) PROVE RenamesCounted'
  <2>1. Creators' = Creators
    BY <1>2 DEF Store!Rename, Creators
  <2>2. Store!Succeeded' = Store!Succeeded \cup {p} /\ p \notin Store!Succeeded
    BY <1>2 DEF Store!Rename, Store!Goto, Store!Succeeded
  <2>3. IsFiniteSet(Store!Succeeded') /\ Cardinality(Store!Succeeded') = Cardinality(Store!Succeeded) + 1
    BY <2>2, FS_AddElement DEF RenamesCounted
  <2>4. temp # None /\ temp' = None
    BY <1>2 DEF Store!Rename
  <2>5. Cardinality(Store!Succeeded) \in Nat
    BY FS_CardinalityType DEF RenamesCounted
  <2> QED BY <2>1, <2>3, <2>4, <2>5 DEF RenamesCounted
<1>3. ASSUME NEW p \in Procs, Store!Step(p), ~Store!OpenTemp(p), ~Store!Rename(p) PROVE RenamesCounted'
  <2>1. fd' = fd /\ temp' = temp
    BY <1>3 DEF Store!Step, Store!Load, Store!Refuse, Store!Write, Store!WriteFails, Store!Remove,
                Store!RenameFails, Store!Crash
  <2>2. Store!Succeeded' = Store!Succeeded
    BY <1>3 DEF Store!Step, Store!Load, Store!Refuse, Store!Write, Store!WriteFails, Store!Remove,
                Store!RenameFails, Store!Crash, Store!Goto, Store!Active, Store!Succeeded
  <2> QED BY <2>1, <2>2, OthersCount
<1>4. ASSUME NEW i \in Procs, Store!WriteBack(i) PROVE RenamesCounted'
  BY <1>4, OthersCount DEF Store!WriteBack, Store!Succeeded
<1>5. CASE Store!LosePower
  BY <1>5, OthersCount DEF Store!LosePower, Store!Active, Store!Succeeded
<1>6. CASE UNCHANGED storeVars
  BY <1>6, OthersCount DEF storeVars, Store!Succeeded
<1> QED BY <1>1, <1>2, <1>3, <1>4, <1>5, <1>6, StoreCases

LEMMA InitCounted == Init => RenamesCounted
<1> SUFFICES ASSUME Store!Init PROVE RenamesCounted
  BY StoreInit
<1>1. Creators = {} /\ Store!Succeeded = {} /\ temp = None
  BY DatabaseAssumption DEF Store!Init, Creators, Store!Succeeded
<1> QED BY <1>1, FS_EmptySet DEF RenamesCounted

-----------------------------------------------------------------------------
(* Without losses of power, who opened a file alone finds its own text. *)
LEMMA StepOwnText == Store!TypeOK /\ FilesNamed /\ OwnText /\ [Next]_vars => OwnText'
<1> SUFFICES ASSUME Store!TypeOK, FilesNamed, OwnText, [Next]_vars PROVE OwnText'
  OBVIOUS
<1>0. env' = env
  BY StoreCases DEF storeVars
<1> SUFFICES ASSUME "power" \notin env, NEW i \in Procs, OpenedAlone(i)'
             PROVE  /\ pc'[i] = "opened" => content'[i] = Store!Empty
                    /\ pc'[i] \in {"written", "removed", "ok"} => content'[i].whole
  BY <1>0 DEF OwnText, Store!Empty
<1> USE DatabaseAssumption DEF Store!TypeOK, FilesNamed, InFlight, OpenedAlone
<1>1. ASSUME NEW p \in Procs, Store!OpenTemp(p)
      PROVE  /\ pc'[i] = "opened" => content'[i] = Store!Empty
             /\ pc'[i] \in {"written", "removed", "ok"} => content'[i].whole
  <2>1. CASE p = i BY <1>1, <2>1 DEF Store!OpenTemp, Store!Goto
  <2>2. CASE p # i
    <3>1. OpenedAlone(i) /\ content'[i] = content[i] /\ pc'[i] = pc[i]
      BY <1>1, <2>2 DEF Store!OpenTemp, Store!Goto
    <3> QED BY <3>1 DEF OwnText
  <2> QED BY <2>1, <2>2
<1>2. ASSUME NEW p \in Procs, Store!Write(p)
      PROVE  /\ pc'[i] = "opened" => content'[i] = Store!Empty
             /\ pc'[i] \in {"written", "removed", "ok"} => content'[i].whole
  <2>1. OpenedAlone(i) /\ fd[p] \in Procs /\ (fd[p] = i <=> p = i)
    BY <1>2 DEF Store!Write, Store!Goto
  <2>2. CASE p = i
    BY <1>2, <2>1, <2>2 DEF Store!Write, Store!Goto, OwnText, Store!Empty
  <2>3. CASE p # i
    <3>1. content'[i] = content[i] /\ pc'[i] = pc[i]
      BY <1>2, <2>1, <2>3 DEF Store!Write, Store!Goto
    <3> QED BY <2>1, <3>1 DEF OwnText
  <2> QED BY <2>2, <2>3
<1>3. ASSUME fd' = fd, content' = content,
             \/ pc'[i] = pc[i] \/ pc'[i] \in {"loaded", "failed"}
             \/ pc[i] \in {"written", "removed"} /\ pc'[i] # "opened"
      PROVE  /\ pc'[i] = "opened" => content'[i] = Store!Empty
             /\ pc'[i] \in {"written", "removed", "ok"} => content'[i].whole
  BY <1>3 DEF OwnText
<1>4. ASSUME NEW p \in Procs, Store!Step(p), ~Store!OpenTemp(p), ~Store!Write(p)
      PROVE  /\ fd' = fd /\ content' = content
             /\ \/ pc'[i] = pc[i] \/ pc'[i] \in {"loaded", "failed"}
                \/ pc[i] \in {"written", "removed"} /\ pc'[i] # "opened"
  BY <1>4 DEF Store!Step, Store!Load, Store!Refuse, Store!WriteFails, Store!Remove, Store!Rename,
              Store!RenameFails, Store!Crash, Store!Goto
<1>5. ASSUME NEW j \in Procs, Store!WriteBack(j) PROVE FALSE
  BY <1>5 DEF Store!WriteBack, Store!May
<1>6. CASE Store!LosePower BY <1>6 DEF Store!LosePower, Store!May
<1>7. CASE UNCHANGED storeVars BY <1>3, <1>7 DEF storeVars
<1> QED BY <1>1, <1>2, <1>3, <1>4, <1>5, <1>6, <1>7, StoreCases

-----------------------------------------------------------------------------
(* Scripts that follow one another. *)
SequentialInv == OneAtATime /\ OwnTemp /\ Store!OnlySuccessIsVisible /\ Store!MainIsWhole

LEMMA InitSequential == Init => SequentialInv
  BY StoreInit DEF Store!Init, SequentialInv, OneAtATime, OwnTemp, HasTemp, HasView, InFlight, Store!Active,
                   Store!OnlySuccessIsVisible, Store!MainIsWhole, Store!Visible, Store!Succeeded

(* A script begins when no other is at work, and works alone. *)
LEMMA StepOneAtATime == Store!TypeOK /\ OneAtATime /\ [Next]_vars => OneAtATime'
<1> SUFFICES ASSUME Store!TypeOK, OneAtATime, [Next]_vars, Sequential PROVE OneAtATime'
  BY StoreCases DEF OneAtATime, Sequential, storeVars
<1> USE DEF Store!TypeOK, OneAtATime, Store!Goto, Store!Active
<1>1. ASSUME NEW p \in Procs, Store!Step(p) PROVE OneAtATime'
  <2>1. CASE Store!Load(p) BY <2>1 DEF Store!Load, Store!May, Sequential
  <2>2. CASE ~Store!Load(p)
    <3>1. Store!Active(p) /\ \A q \in Procs \ {p} : pc'[q] = pc[q]
      BY <1>1, <2>2 DEF Store!Step, Store!Refuse, Store!OpenTemp, Store!Write, Store!WriteFails, Store!Remove,
                        Store!Rename, Store!RenameFails, Store!Crash
    <3> QED BY <3>1
  <2> QED BY <2>1, <2>2
<1>2. ASSUME NEW i \in Procs, Store!WriteBack(i) PROVE OneAtATime' BY <1>2 DEF Store!WriteBack
<1>3. CASE Store!LosePower BY <1>3 DEF Store!LosePower
<1>4. CASE UNCHANGED storeVars BY <1>4 DEF storeVars
<1> QED BY <1>1, <1>2, <1>3, <1>4, StoreCases

(* Who works alone does not meet the files of others. *)
LEMMA AloneSteps ==
  ASSUME Store!TypeOK, OneAtATime, Sequential, NEW p \in Procs, Store!Step(p)
  PROVE  \A q \in Procs \ {p} : ~Store!Active(q) /\ ~Store!Active(q)'
<1> USE DEF Store!TypeOK, OneAtATime, Store!Goto, Store!Active
<1>1. CASE Store!Load(p) BY <1>1 DEF Store!Load, Store!May, Sequential
<1>2. CASE ~Store!Load(p)
  BY <1>2 DEF Store!Step, Store!Refuse, Store!OpenTemp, Store!Write, Store!WriteFails, Store!Remove,
              Store!Rename, Store!RenameFails, Store!Crash
<1> QED BY <1>1, <1>2

LEMMA StepOwnTemp ==
  Store!TypeOK /\ FilesNamed /\ SequentialInv /\ [Next]_vars => OwnTemp'
<1> SUFFICES ASSUME Store!TypeOK, FilesNamed, SequentialInv, [Next]_vars, Sequential, env' = env
             PROVE  \A p \in Procs : HasTemp(p)' /\ HasView(p)'
  BY StoreCases DEF OwnTemp, Sequential, storeVars
<1> USE DatabaseAssumption DEF Store!TypeOK, FilesNamed, SequentialInv, Store!Goto, Store!Active, InFlight
<1>1. ASSUME NEW p \in Procs, Store!Step(p) PROVE \A q \in Procs : HasTemp(q)' /\ HasView(q)'
  <2>1. SUFFICES HasTemp(p)' /\ HasView(p)'
    <3>1. ASSUME NEW q \in Procs \ {p} PROVE HasTemp(q)' /\ HasView(q)'
      <4>1. pc'[q] \notin {"loaded", "opened", "written", "removed"}
        BY <1>1, <3>1, AloneSteps
      <4> QED BY <4>1 DEF HasTemp, HasView
    <3> QED BY <3>1, <2>1
  <2>2. HasTemp(p) /\ HasView(p)
    BY DEF OwnTemp
  <2> USE DEF HasTemp, HasView, Store!Visible, Store!Succeeded
  <2>3. CASE Store!Load(p)
    <3>1. /\ Store!Visible \subseteq Store!Succeeded
          /\ "power" \notin env /\ main # None => content[main].whole
      BY DEF Store!OnlySuccessIsVisible, Store!MainIsWhole, Store!May, Sequential
    <3>2. \/ pc'[p] = "failed"
          \/ /\ pc'[p] = "loaded" /\ view'[p] \subseteq Store!Visible
             /\ "power" \notin env => view'[p] = Store!Visible
      <4>1. CASE main = None BY <2>3, <4>1 DEF Store!Load
      <4>2. CASE main # None
        <5>1. content[main].has \in SUBSET Procs BY <4>2
        <5> QED BY <2>3, <3>1, <4>2, <5>1 DEF Store!Load
      <4> QED BY <4>1, <4>2
    <3>3. Store!Visible' = Store!Visible /\ Store!Succeeded' = Store!Succeeded
      BY <2>3 DEF Store!Load
    <3> HIDE DEF Store!Visible, Store!Succeeded
    <3> QED BY <3>1, <3>2, <3>3
  <2>4. CASE Store!Refuse(p) BY <2>4 DEF Store!Refuse
  <2>5. CASE Store!OpenTemp(p)
    <3>1. Store!Visible' = Store!Visible /\ Store!Succeeded' = Store!Succeeded
      BY <2>5 DEF Store!OpenTemp
    <3>2. HasTemp(p)'
      <4>1. PICK i \in Procs : temp' = i /\ fd' = [fd EXCEPT ![p] = i] /\ content' = [content EXCEPT ![i] = Store!Empty]
        BY <2>5 DEF Store!OpenTemp
      <4>2. pc'[p] = "opened" /\ temp' = fd'[p] /\ content'[fd'[p]] = Store!Empty
        BY <2>5, <4>1 DEF Store!OpenTemp
      <4> QED BY <4>2 DEF Store!Empty
    <3> QED BY <2>2, <2>5, <3>1, <3>2 DEF Store!OpenTemp
  <2>6. CASE Store!Write(p)
    <3>1. Store!Visible' = Store!Visible /\ Store!Succeeded' = Store!Succeeded
      BY <2>2, <2>6 DEF Store!Write
    <3>2. HasTemp(p)'
      <4>1. PICK whole \in BOOLEAN :
              /\ content[fd[p]].has = {} => whole
              /\ content' = [content EXCEPT ![fd[p]] = [whole |-> whole, has |-> view[p] \cup {p}]]
        BY <2>6 DEF Store!Write
      <4>2. fd[p] \in Procs /\ content[fd[p]] = Store!Empty /\ pc'[p] = "written" /\ temp' = fd[p] /\ fd' = fd /\ view' = view
        BY <2>2, <2>6 DEF Store!Write
      <4>3. whole = TRUE
        BY <4>1, <4>2 DEF Store!Empty
      <4>4. content'[fd[p]] = [whole |-> TRUE, has |-> view[p] \cup {p}]
        BY <4>1, <4>2, <4>3
      <4> QED BY <4>2, <4>4
    <3>3. pc[p] = "opened" /\ pc'[p] = "written" /\ view' = view
      BY <2>6 DEF Store!Write
    <3>4. HasView(p)'
      <4> HIDE DEF Store!Visible, Store!Succeeded
      <4> QED BY <2>2, <3>1, <3>3
    <3> QED BY <3>2, <3>4
  <2>7. CASE Store!WriteFails(p) BY <2>7 DEF Store!WriteFails
  <2>8. CASE Store!Remove(p)
    <3>1. Store!Succeeded' = Store!Succeeded /\ (main' # None => Store!Visible' = Store!Visible)
      BY <2>8 DEF Store!Remove
    <3>2. HasTemp(p)'
      BY <2>2, <2>8 DEF Store!Remove
    <3>3. pc[p] = "written" /\ pc'[p] = "removed" /\ view' = view
      BY <2>8 DEF Store!Remove
    <3>4. HasView(p)'
      <4> HIDE DEF Store!Visible, Store!Succeeded
      <4> QED BY <2>2, <3>1, <3>3
    <3> QED BY <3>2, <3>4
  <2>9. CASE Store!Rename(p) BY <2>9 DEF Store!Rename
  <2>10. CASE Store!RenameFails(p) BY <2>10 DEF Store!RenameFails
  <2>11. CASE Store!Crash(p) BY <2>11 DEF Store!Crash
  <2> QED BY <1>1, <2>3, <2>4, <2>5, <2>6, <2>7, <2>8, <2>9, <2>10, <2>11 DEF Store!Step
<1>2. ASSUME NEW i \in Procs, Store!WriteBack(i) PROVE \A q \in Procs : HasTemp(q)' /\ HasView(q)'
  BY <1>2 DEF Store!WriteBack, OwnTemp, HasTemp, HasView, Store!Visible, Store!Succeeded
<1>3. CASE Store!LosePower BY <1>3 DEF Store!LosePower, HasTemp, HasView
<1>4. CASE UNCHANGED storeVars BY <1>4 DEF storeVars, OwnTemp, HasTemp, HasView, Store!Visible, Store!Succeeded
<1> QED BY <1>1, <1>2, <1>3, <1>4, StoreCases

(* The only step that shows something new is the rename of a script that   *)
(* succeeds by it.                                                         *)
LEMMA StepVisible ==
  Store!TypeOK /\ FilesNamed /\ SequentialInv /\ [Next]_vars => Store!OnlySuccessIsVisible' /\ Store!MainIsWhole'
<1> SUFFICES ASSUME Store!TypeOK, FilesNamed, SequentialInv, [Next]_vars, Sequential
             PROVE  /\ Store!Visible' \subseteq Store!Succeeded'
                    /\ "power" \notin env /\ main' # None => content'[main'].whole
  BY StoreCases DEF Store!OnlySuccessIsVisible, Store!MainIsWhole, Store!May, Sequential, storeVars
<1> USE DatabaseAssumption DEF Store!TypeOK, FilesNamed, Store!Goto, Store!Active, InFlight
<1>0. /\ Store!Visible \subseteq Store!Succeeded
      /\ "power" \notin env /\ main # None => content[main].whole
  BY DEF SequentialInv, Store!OnlySuccessIsVisible, Store!MainIsWhole, Store!May, Sequential
<1>1. ASSUME Store!Succeeded \subseteq Store!Succeeded', main' = main \/ main' = None,
             main # None => content'[main] = content[main]
      PROVE  /\ Store!Visible' \subseteq Store!Succeeded'
             /\ "power" \notin env /\ main' # None => content'[main'].whole
  BY <1>0, <1>1 DEF Store!Visible
<1>2. ASSUME NEW p \in Procs, Store!Step(p), ~Store!Rename(p)
      PROVE  /\ Store!Succeeded \subseteq Store!Succeeded' /\ (main' = main \/ main' = None)
             /\ main # None => content'[main] = content[main]
  <2>1. Store!Succeeded \subseteq Store!Succeeded' /\ (main' = main \/ main' = None)
    BY <1>2 DEF Store!Step, Store!Load, Store!Refuse, Store!OpenTemp, Store!Write, Store!WriteFails, Store!Remove,
                Store!RenameFails, Store!Crash, Store!Succeeded
  <2>2. CASE Store!Write(p)
    <3>1. temp = fd[p] /\ fd[p] # main
      BY <2>2 DEF Store!Write, SequentialInv, OwnTemp, HasTemp
    <3> QED BY <2>1, <2>2, <3>1 DEF Store!Write
  <2>3. CASE Store!OpenTemp(p) BY <2>1, <2>3 DEF Store!OpenTemp
  <2>4. CASE ~Store!Write(p) /\ ~Store!OpenTemp(p)
    BY <1>2, <2>1, <2>4 DEF Store!Step, Store!Load, Store!Refuse, Store!WriteFails, Store!Remove, Store!RenameFails,
                            Store!Crash
  <2> QED BY <2>2, <2>3, <2>4
<1>3. ASSUME NEW p \in Procs, Store!Rename(p)
      PROVE  /\ Store!Visible' \subseteq Store!Succeeded'
             /\ "power" \notin env /\ main' # None => content'[main'].whole
  <2>1. /\ content'[main'] = [whole |-> TRUE, has |-> view[p] \cup {p}]
        /\ main' # None /\ view[p] \subseteq Store!Succeeded
    BY <1>3 DEF Store!Rename, SequentialInv, OwnTemp, HasTemp, HasView
  <2>2. Store!Succeeded' = Store!Succeeded \cup {p}
    BY <1>3 DEF Store!Rename, Store!Succeeded
  <2> QED BY <2>1, <2>2 DEF Store!Visible
<1>4. ASSUME NEW i \in Procs, Store!WriteBack(i)
      PROVE  /\ Store!Visible' \subseteq Store!Succeeded'
             /\ "power" \notin env /\ main' # None => content'[main'].whole
  BY <1>1, <1>4 DEF Store!WriteBack, Store!Succeeded
<1>5. CASE Store!LosePower
  <2>1. "power" \in env /\ main' = main /\ Store!Succeeded' = Store!Succeeded
    BY <1>5 DEF Store!LosePower, Store!May, Store!Succeeded
  <2>2. main # None => content'[main] = content[main] \/ content'[main] = Store!Empty
    BY <1>5 DEF Store!LosePower
  <2> QED BY <1>0, <2>1, <2>2 DEF Store!Visible, Store!Empty
<1>6. CASE UNCHANGED storeVars BY <1>1, <1>6 DEF storeVars, Store!Succeeded
<1> QED BY <1>1, <1>2, <1>3, <1>4, <1>5, <1>6, StoreCases

-----------------------------------------------------------------------------
StoreInv ==
  /\ Store!TypeOK /\ FilesNamed /\ RenamesCounted /\ OwnText /\ RenamedOrReported /\ SequentialInv

LEMMA InitInv == Init => StoreInv
<1> SUFFICES ASSUME Init PROVE StoreInv
  OBVIOUS
<1>1. RenamedOrReported
  BY StoreInit DEF Store!Init, RenamedOrReported, Store!Succeeded
<1>2. OwnText
  BY StoreInit DEF Store!Init, OwnText
<1> QED BY <1>1, <1>2, InitTypes, InitFiles, InitCounted, InitSequential DEF StoreInv

LEMMA StepInv == StoreInv /\ [Next]_vars => StoreInv'
  BY StepTypes, StepFiles, StepCounted, StepOwnText, StepReported, StepOneAtATime, StepOwnTemp, StepVisible
  DEF StoreInv, SequentialInv

LEMMA InvAlways == Spec => []StoreInv
  BY InitInv, StepInv, PTL DEF Spec

(* Directory entries, inodes and descriptors are what the types say: who   *)
(* writes has a file open (saveState, l.61-62).                            *)
THEOREM StoreTypesAlways == Spec => []Store!TypeOK
  BY InvAlways, PTL DEF StoreInv

(* If everybody succeeded, as many files were made as scripts succeeded:   *)
(* each opened one that nobody else had open, and the last one is there.   *)
LEMMA NothingLost == StoreInv => Store!LossIsReported
<1> SUFFICES ASSUME StoreInv, "power" \notin env, Store!Quiet, Store!Succeeded # {}, \A p \in Procs : pc[p] # "failed"
             PROVE  main # None /\ content[main].whole
  BY DEF Store!LossIsReported, Store!May
<1> USE DatabaseAssumption DEF StoreInv, Store!TypeOK, FilesNamed, InFlight
<1>1. \A p \in Procs : pc[p] \in {"start", "ok"}
  BY DEF Store!Quiet, Store!Active
<1>2. main # None
  BY <1>1 DEF RenamedOrReported
<1>3. Creators \subseteq Store!Succeeded
  BY <1>1 DEF Creators, Store!Succeeded
<1>4. Creators = Store!Succeeded
  <2>1. Cardinality(Creators) <= Cardinality(Store!Succeeded)
    BY <1>3, FS_Subset DEF RenamesCounted
  <2>2. Cardinality(Creators) \in Nat /\ Cardinality(Store!Succeeded) \in Nat
    BY FS_CardinalityType DEF RenamesCounted
  <2>3. Cardinality(Creators) = Cardinality(Store!Succeeded)
    BY <2>1, <2>2 DEF RenamesCounted
  <2> QED BY <1>3, <2>3, FS_Subset DEF RenamesCounted
<1>5. \A q \in Procs : fd[q] = main => q = main
  BY <1>1, <1>2, <1>4 DEF Creators, Store!Succeeded
<1>6. OpenedAlone(main) /\ pc[main] = "ok"
  BY <1>1, <1>2, <1>5 DEF OpenedAlone
<1> QED BY <1>2, <1>6 DEF OwnText

(* Scripts that follow one another, each free to die at any step and the   *)
(* power too, never leave a half-written file under the database's name,   *)
(* nor one that shows a script that did not succeed, and of scripts that   *)
(* run at the same time somebody is told when the file is lost or torn     *)
(* (saveState l.61-65).                                                    *)
THEOREM FileIsHonestAlways == Spec => []FileIsHonest
<1>1. StoreInv => FileIsHonest
  BY NothingLost DEF StoreInv, SequentialInv, FileIsHonest
<1> QED BY <1>1, InvAlways, PTL

-----------------------------------------------------------------------------
(* Without losses of power: what succeeded may be missing from path only   *)
(* while path.tmp alone is there, or once it is lost.                      *)
Destroys(p) == main = None /\ pc[p] = "loaded" /\ pc'[p] = "opened"
TempHasAll == temp # None /\ content[temp].whole /\ Store!Succeeded \subseteq content[temp].has

(* The steps of a script, from a state in which nothing is lost. *)
LEMMA StepKeeps ==
  ASSUME StoreInv, KeptInMain, Sequential, "power" \notin env, NEW p \in Procs, Store!Step(p), env' = env
  PROVE  /\ KeptInMain'
         /\ Store!Recoverable => Store!Recoverable' \/ Destroys(p)
<1> USE DatabaseAssumption DEF StoreInv, Store!TypeOK, FilesNamed, InFlight, Store!Goto, Store!Active
<1>1. HasTemp(p) /\ HasView(p)
  BY DEF SequentialInv, OwnTemp
<1>2. Store!Recoverable <=> (Store!Succeeded \subseteq Store!Visible \/ TempHasAll)
  BY DEF Store!Recoverable, TempHasAll
<1>3. Store!Recoverable' <=> (Store!Succeeded' \subseteq Store!Visible' \/ TempHasAll')
  BY DEF Store!Recoverable, TempHasAll
<1>4. ASSUME Store!Succeeded' = Store!Succeeded, Store!Visible' = Store!Visible, main' = main, TempHasAll' => TempHasAll,
             TempHasAll => TempHasAll'
      PROVE  KeptInMain' /\ (Store!Recoverable => Store!Recoverable')
  BY <1>2, <1>3, <1>4 DEF KeptInMain, Sequential
<1>5. CASE Store!OpenTemp(p)
  <2>1. Store!Succeeded' = Store!Succeeded /\ Store!Visible' = Store!Visible /\ main' = main
    BY <1>5 DEF Store!OpenTemp, Store!Succeeded, Store!Visible
  <2>2. ~TempHasAll'
    <3>1. temp' \in Procs /\ content'[temp'] = Store!Empty
      BY <1>5 DEF Store!OpenTemp
    <3> QED BY <3>1 DEF TempHasAll, Store!Empty
  <2>3. pc[p] = "loaded" /\ pc'[p] = "opened"
    BY <1>5 DEF Store!OpenTemp
  <2> QED BY <1>2, <1>3, <2>1, <2>2, <2>3 DEF KeptInMain, Destroys, Sequential
<1>6. CASE Store!Write(p)
  <2>1. Store!Succeeded' = Store!Succeeded /\ main' = main
    BY <1>6 DEF Store!Write, Store!Succeeded
  <2>2. temp # main /\ temp = fd[p] /\ content[temp] = Store!Empty /\ p \notin Store!Succeeded
    BY <1>1, <1>6 DEF Store!Write, HasTemp, Store!Succeeded
  <2>3. Store!Visible' = Store!Visible
    BY <1>6, <2>2 DEF Store!Write, Store!Visible
  <2>4. content'[temp'].has = view[p] \cup {p}
    BY <1>6, <2>2 DEF Store!Write
  <2>5. TempHasAll' => Store!Succeeded \subseteq Store!Visible
    BY <1>1, <1>6, <2>1, <2>2, <2>4 DEF TempHasAll, HasView, Store!Write
  <2>6. ~TempHasAll
    BY <2>2 DEF TempHasAll, Store!Empty
  <2> QED BY <1>2, <1>3, <2>1, <2>3, <2>5, <2>6 DEF KeptInMain, Sequential
<1>7. CASE Store!Remove(p)
  <2>1. Store!Succeeded' = Store!Succeeded /\ (main' = main \/ main' = None) /\ temp' = temp /\ content' = content
    BY <1>7 DEF Store!Remove, Store!Succeeded
  <2>2. TempHasAll' <=> TempHasAll
    BY <2>1 DEF TempHasAll
  <2>3. temp # None /\ content[temp] = [whole |-> TRUE, has |-> view[p] \cup {p}] /\ view[p] = Store!Visible
    BY <1>1, <1>7 DEF Store!Remove, HasTemp, HasView
  <2>4. Store!Succeeded \subseteq Store!Visible => TempHasAll
    BY <2>3 DEF TempHasAll
  <2>5. main' # None => main' = main /\ Store!Visible' = Store!Visible
    BY <2>1 DEF Store!Visible
  <2> QED BY <1>2, <1>3, <2>1, <2>2, <2>4, <2>5 DEF KeptInMain, Sequential
<1>8. CASE Store!Rename(p)
  <2>1. Store!Succeeded' = Store!Succeeded \cup {p} /\ temp' = None
    BY <1>8 DEF Store!Rename, Store!Succeeded
  <2>2. Store!Visible' = view[p] \cup {p} /\ content[temp].has = view[p] \cup {p} /\ p \notin Store!Succeeded
    BY <1>1, <1>8 DEF Store!Rename, HasTemp, Store!Visible, Store!Succeeded
  <2>3. ~TempHasAll'
    BY <2>1 DEF TempHasAll
  <2>4. main = None => Store!Visible = {}
    BY DEF Store!Visible
  <2>5. main # None => view[p] = Store!Visible
    BY <1>1, <1>8 DEF Store!Rename, HasView
  <2>6. Store!Recoverable => Store!Succeeded' \subseteq Store!Visible'
    BY <1>2, <2>1, <2>2, <2>4, <2>5 DEF TempHasAll
  <2> QED BY <1>3, <2>3, <2>6 DEF KeptInMain
<1>9. CASE ~Store!OpenTemp(p) /\ ~Store!Write(p) /\ ~Store!Remove(p) /\ ~Store!Rename(p)
  <2>1. Store!Succeeded' = Store!Succeeded /\ main' = main /\ temp' = temp /\ content' = content
    BY <1>9 DEF Store!Step, Store!Load, Store!Refuse, Store!WriteFails, Store!RenameFails, Store!Crash, Store!Succeeded
  <2> QED BY <1>4, <2>1 DEF Store!Visible, TempHasAll
<1> QED BY <1>5, <1>6, <1>7, <1>8, <1>9

LEMMA InitKept == Init => KeptInMain
  BY StoreInit DEF Store!Init, KeptInMain

LEMMA StepKept == StoreInv /\ KeptInMain /\ [Next]_vars => KeptInMain'
<1> SUFFICES ASSUME StoreInv, KeptInMain, [Next]_vars, Sequential, "power" \notin env PROVE KeptInMain'
  BY StoreCases DEF KeptInMain, Sequential, storeVars
<1>1. CASE UNCHANGED storeVars
  BY <1>1 DEF storeVars, KeptInMain, Store!Recoverable, Store!Succeeded, Store!Visible, Sequential
<1>2. ASSUME NEW i \in Procs, Store!WriteBack(i) PROVE FALSE
  BY <1>2 DEF Store!WriteBack, Store!May
<1>3. CASE Store!LosePower BY <1>3 DEF Store!LosePower, Store!May
<1> QED BY <1>1, <1>2, <1>3, StepKeeps, StoreCases

(* Without concurrency or loss of power, what succeeded is under the       *)
(* database's name or in path.tmp until a script that found no file opens  *)
(* path.tmp with trunc (l.63-64, l.68).                                    *)
THEOREM OnlyTheNextScriptDestroysAlways == Spec => OnlyTheNextScriptDestroys
<1> DEFINE Kept == ~Store!May("concurrent") /\ ~Store!May("power") /\ Store!Recoverable =>
                     Store!Recoverable' \/ \E p \in Procs : main = None /\ pc[p] = "loaded" /\ pc'[p] = "opened"
<1>1. StoreInv /\ KeptInMain /\ [Next]_vars => [Kept]_storeVars
  <2> SUFFICES ASSUME StoreInv, KeptInMain, [Next]_vars, Sequential, "power" \notin env, Store!Recoverable,
                      ~UNCHANGED storeVars
               PROVE  Store!Recoverable' \/ \E p \in Procs : Destroys(p)
    BY DEF Sequential, Store!May, Destroys
  <2>1. ASSUME NEW i \in Procs, Store!WriteBack(i) PROVE FALSE
    BY <2>1 DEF Store!WriteBack, Store!May
  <2>2. CASE Store!LosePower BY <2>2 DEF Store!LosePower, Store!May
  <2> QED BY <2>1, <2>2, StepKeeps, StoreCases
<1>2. Spec => [][Kept]_storeVars
  <2> HIDE DEF Kept
  <2> QED BY <1>1, InitKept, StepKept, InvAlways, PTL DEF Spec
<1> QED BY <1>2 DEF OnlyTheNextScriptDestroys, Store!OnlyTheNextScriptDestroys, Store!vars, storeVars

-----------------------------------------------------------------------------
(* The abstract store: between the remove and the rename it is what the    *)
(* renaming script loaded, otherwise what path shows.                      *)
LEMMA DurableWhileRemoved ==
  ASSUME OneAtATime, Sequential, NEW p \in Procs, pc[p] = "removed"
  PROVE  Store!Durable = view[p]
<1>1. \A q \in Procs : pc[q] = "removed" => q = p
  BY DEF OneAtATime, Store!Active
<1> QED BY <1>1 DEF Store!Durable

LEMMA DurableOtherwise ==
  ASSUME \A p \in Procs : pc[p] # "removed"
  PROVE  Store!Durable = Store!Visible
  BY DEF Store!Durable

LEMMA InitAbstract == Init => Store!Abstract!Init
<1> SUFFICES ASSUME Store!Init PROVE Store!Abstract!Init
  BY StoreInit
<1>1. Store!Durable = {}
  BY DurableOtherwise DEF Store!Init, Store!Visible
<1>2. Store!Outcome = [p \in Procs |-> "pending"]
  BY DEF Store!Init, Store!Outcome
<1> QED BY <1>1, <1>2 DEF Store!Abstract!Init

(* A step of a script commits, aborts or changes nothing of the abstract   *)
(* store.                                                                  *)
LEMMA StepAbstract ==
  ASSUME StoreInv, env = {}, NEW p \in Procs, Store!Step(p), env' = env
  PROVE  Store!Abstract!Next \/ UNCHANGED <<Store!Durable, Store!Outcome>>
<1> USE DatabaseAssumption DEF StoreInv, Store!TypeOK, FilesNamed, InFlight, Store!Goto
<1>1. HasTemp(p) /\ HasView(p) /\ Sequential /\ OneAtATime
  BY DEF SequentialInv, OwnTemp, Sequential
<1>2. \A q \in Procs \ {p} : ~Store!Active(q) /\ ~Store!Active(q)'
  BY <1>1, AloneSteps
<1>3. \A q \in Procs : pc[q] = "removed" => q = p
  BY <1>2 DEF Store!Active
<1>4. \A q \in Procs : pc'[q] = "removed" => q = p
  BY <1>2 DEF Store!Active
<1>5. pc[p] # "removed" => Store!Durable = Store!Visible
  BY <1>3, DurableOtherwise
<1>6. pc'[p] # "removed" => Store!Durable' = Store!Visible'
  BY <1>4 DEF Store!Durable
<1>7. pc[p] = "removed" => Store!Durable = view[p]
  BY <1>1, DurableWhileRemoved
<1>8. pc'[p] = "removed" => Store!Durable' = view'[p]
  BY <1>4 DEF Store!Durable
<1>9. ASSUME pc' = [pc EXCEPT ![p] = "failed"], pc[p] \notin {"ok", "failed"}
       PROVE  Store!Outcome' = [Store!Outcome EXCEPT ![p] = "failed"] /\ Store!Outcome[p] = "pending"
  BY <1>9 DEF Store!Outcome
<1>10. ASSUME pc'[p] \notin {"ok", "failed"}, pc[p] \notin {"ok", "failed"}, \A q \in Procs \ {p} : pc'[q] = pc[q]
       PROVE  Store!Outcome' = Store!Outcome
  BY <1>10 DEF Store!Outcome
<1>11. CASE Store!Load(p)
  <2>1. pc[p] = "start" /\ pc'[p] \in {"loaded", "failed"} /\ Store!Visible' = Store!Visible
    BY <1>11 DEF Store!Load, Store!Visible
  <2>2. Store!Durable' = Store!Durable
    BY <1>5, <1>6, <2>1
  <2>3. CASE pc' = [pc EXCEPT ![p] = "failed"]
    BY <1>9, <2>1, <2>2, <2>3 DEF Store!Abstract!Next, Store!Abstract!Abort
  <2>4. CASE pc' = [pc EXCEPT ![p] = "loaded"]
    BY <1>10, <2>1, <2>2, <2>4
  <2> QED BY <1>11, <2>3, <2>4 DEF Store!Load
<1>12. CASE Store!Refuse(p) \/ Store!WriteFails(p)
  <2>1. /\ pc[p] \in {"loaded", "opened"} /\ pc' = [pc EXCEPT ![p] = "failed"]
        /\ Store!Visible' = Store!Visible
    BY <1>12 DEF Store!Refuse, Store!WriteFails, Store!Visible
  <2> QED BY <1>5, <1>6, <1>9, <2>1 DEF Store!Abstract!Next, Store!Abstract!Abort
<1>13. CASE Store!OpenTemp(p) \/ Store!Write(p)
  <2>1. pc[p] \in {"loaded", "opened"} /\ pc'[p] \in {"opened", "written"} /\ \A q \in Procs \ {p} : pc'[q] = pc[q]
    BY <1>13 DEF Store!OpenTemp, Store!Write
  <2>2. CASE Store!OpenTemp(p)
    <3>1. Store!Visible' = Store!Visible
      BY <2>2 DEF Store!OpenTemp, Store!Visible
    <3> QED BY <1>5, <1>6, <1>10, <2>1, <3>1
  <2>3. CASE Store!Write(p)
    <3>1. fd[p] # main /\ main' = main
      BY <1>1, <2>3 DEF Store!Write, HasTemp
    <3>2. Store!Visible' = Store!Visible
      BY <2>3, <3>1 DEF Store!Write, Store!Visible
    <3> QED BY <1>5, <1>6, <1>10, <2>1, <3>2
  <2> QED BY <1>13, <2>2, <2>3
<1>14. CASE Store!Remove(p)
  <2>1. /\ pc[p] = "written" /\ pc'[p] = "removed" /\ \A q \in Procs \ {p} : pc'[q] = pc[q]
        /\ view' = view
    BY <1>14 DEF Store!Remove
  <2>2. view[p] = Store!Visible
    BY <1>1, <2>1 DEF HasView
  <2> QED BY <1>5, <1>8, <1>10, <2>1, <2>2
<1>15. CASE Store!Rename(p)
  <2>1. pc[p] = "removed" /\ pc' = [pc EXCEPT ![p] = "ok"]
    BY <1>15 DEF Store!Rename
  <2>2. Store!Visible' = view[p] \cup {p}
    BY <1>1, <1>15 DEF Store!Rename, HasTemp, Store!Visible
  <2>3. Store!Durable' = Store!Durable \cup {p}
    BY <1>6, <1>7, <2>1, <2>2
  <2>4. Store!Outcome' = [Store!Outcome EXCEPT ![p] = "ok"] /\ Store!Outcome[p] = "pending"
    BY <2>1 DEF Store!Outcome
  <2> QED BY <2>3, <2>4 DEF Store!Abstract!Next, Store!Abstract!Commit
<1>16. CASE Store!RenameFails(p)
  BY <1>1, <1>16 DEF Store!RenameFails, HasTemp, Store!May
<1>17. CASE Store!Crash(p) BY <1>17 DEF Store!Crash, Store!May
<1> QED BY <1>11, <1>12, <1>13, <1>14, <1>15, <1>16, <1>17 DEF Store!Step

(* Where nothing may go wrong, scripts implement the durable store: the    *)
(* rename is the commit, and every other step aborts or changes nothing    *)
(* that a reader finds (saveState, l.61-65).                               *)
THEOREM ScriptsAreDurable == Spec => ImplementsDurableStore
<1> DEFINE Refines == env = {} => Store!Abstract!Next
<1>1. StoreInv /\ [Next]_vars => [Refines]_<<Store!Durable, Store!Outcome>>
  <2> SUFFICES ASSUME StoreInv, [Next]_vars, env = {}
               PROVE  Store!Abstract!Next \/ UNCHANGED <<Store!Durable, Store!Outcome>>
    OBVIOUS
  <2>1. ASSUME NEW i \in Procs, Store!WriteBack(i) PROVE FALSE
    BY <2>1 DEF Store!WriteBack, Store!May
  <2>2. CASE Store!LosePower BY <2>2 DEF Store!LosePower, Store!May
  <2>3. CASE UNCHANGED storeVars
    BY <2>3 DEF storeVars, Store!Durable, Store!Outcome, Store!Visible
  <2> QED BY <2>1, <2>2, <2>3, StepAbstract, StoreCases
<1>2. Spec => [][Refines]_<<Store!Durable, Store!Outcome>>
  <2> HIDE DEF Refines
  <2> QED BY <1>1, InvAlways, PTL DEF Spec
<1>3. Spec => (env = {} => Store!Abstract!Init)
  BY InitAbstract, PTL DEF Spec
<1> QED BY <1>2, <1>3 DEF ImplementsDurableStore, Store!ImplementsDurableStore

-----------------------------------------------------------------------------
(* The scripts: a statement that was refused has recorded an error, and    *)
(* the files are written by the step that commits, or never.               *)
Clauses == Wheres \cup {Script!NoWhere}
Statements ==
  [op : {"table"}, t : TableNames, cols : Schemas] \cup [op : {"insert"}, t : TableNames, row : Rows] \cup
  [op : {"delete"}, t : TableNames, w : Clauses] \cup
  [op : {"update"}, t : TableNames, patch : Patches, w : Clauses] \cup [op : {"refused"}]

NothingByHalves ==
  /\ phase = "committed" => \A i \in DOMAIN log : log[i].op # "refused"
  /\ phase = "failed" => disk = before

ScriptInv ==
  /\ log \in Seq(Statements)
  /\ ~errors => \A i \in DOMAIN log : log[i].op # "refused"
  /\ phase = "committed" => ~errors
  /\ phase # "committed" => disk = before

LEMMA InitScript == Init => ScriptInv
  BY DEF Init, Script!Init, ScriptInv

(* An accepted statement is added to those before it. *)
LEMMA Accepted ==
  ASSUME ScriptInv, NEW s \in Statements, log' = Append(log, s), phase' = phase, disk' = disk, before' = before,
         errors => errors', s.op = "refused" => errors', phase = "running"
  PROVE  ScriptInv'
<1>1. log' \in Seq(Statements)
  BY DEF ScriptInv
<1>2. \A i \in DOMAIN log' : log'[i] = s \/ (i \in DOMAIN log /\ log'[i] = log[i])
  BY DEF ScriptInv
<1> QED BY <1>1, <1>2 DEF ScriptInv

LEMMA StepScript == ScriptInv /\ [Next]_vars => ScriptInv'
<1> SUFFICES ASSUME ScriptInv, Script!Next \/ UNCHANGED scriptVars PROVE ScriptInv'
  BY DEF Next, vars
<1> USE DEF ScriptInv, Script!Running, Script!Accept
<1>1. CASE Script!Begin BY <1>1 DEF Script!Begin
<1>2. CASE Script!Refused BY <1>2 DEF Script!Refused
<1>3. CASE Script!Finish BY <1>3 DEF Script!Finish
<1>4. ASSUME NEW p \in Paths, Script!Database(p) PROVE ScriptInv' BY <1>4 DEF Script!Database
<1>5. ASSUME NEW t \in TableNames, NEW cols \in Schemas, Script!Table(t, cols) PROVE ScriptInv'
  <2>1. [op |-> "table", t |-> t, cols |-> cols] \in Statements BY DEF Statements
  <2> QED BY <1>5, <2>1, Accepted DEF Script!Table
<1>6. ASSUME NEW t \in TableNames, NEW row \in Rows, Script!Insert(t, row) PROVE ScriptInv'
  <2>1. [op |-> "insert", t |-> t, row |-> row] \in Statements BY DEF Statements
  <2> QED BY <1>6, <2>1, Accepted DEF Script!Insert
<1>7. ASSUME NEW t \in TableNames, NEW w \in Clauses, Script!Delete(t, w) PROVE ScriptInv'
  <2>1. [op |-> "delete", t |-> t, w |-> w] \in Statements BY DEF Statements
  <2> QED BY <1>7, <2>1, Accepted DEF Script!Delete
<1>8. ASSUME NEW t \in TableNames, NEW w \in Clauses, NEW patch \in Patches, Script!Update(t, patch, w)
      PROVE  ScriptInv'
  <2>1. [op |-> "update", t |-> t, patch |-> patch, w |-> w] \in Statements BY DEF Statements
  <2> QED BY <1>8, <2>1, Accepted DEF Script!Update
<1>9. ASSUME NEW t \in TableNames, NEW w \in Clauses, NEW patch \in Patches, Script!UpdateFails(t, patch, w)
      PROVE  ScriptInv'
  BY <1>9 DEF Script!UpdateFails
<1>10. ASSUME NEW t \in TableNames, Script!MalformedWhere(t) PROVE ScriptInv'
  <2>1. [op |-> "refused"] \in Statements BY DEF Statements
  <2> QED BY <1>10, <2>1, Accepted DEF Script!MalformedWhere
<1>11. CASE UNCHANGED scriptVars BY <1>11 DEF scriptVars
<1> QED BY <1>1, <1>2, <1>3, <1>4, <1>5, <1>6, <1>7, <1>8, <1>9, <1>10, <1>11 DEF Script!Next, Clauses

(* A script that run() accepts had no statement refused, not even one with *)
(* a malformed where that went on, and a script that fails, at whichever   *)
(* statement, leaves every file as it was (run, l.77-82).                  *)
THEOREM NothingByHalvesAlways == Spec => []NothingByHalves
<1>1. ScriptInv => NothingByHalves
  BY DEF ScriptInv, NothingByHalves
<1> QED BY <1>1, InitScript, StepScript, PTL DEF Spec

-----------------------------------------------------------------------------
(* Rows, one after the other. *)

\* The order of the natural numbers.
Below == {pair \in Nat \X Nat : pair[1] < pair[2]}

LEMMA LeastOf ==
  ASSUME NEW S \in SUBSET Nat, S # {}
  PROVE  \E first \in S : \A other \in S : first <= other
<1>1. IsWellFoundedOn(Below, Nat)
  BY NatLessThanWellFounded DEF OpToRel, Below
<1>2. PICK first \in S : \A other \in S : <<other, first>> \notin Below
  BY <1>1, WFMin
<1>3. ASSUME NEW other \in S
      PROVE  first <= other
  <2>1. <<other, first>> \in Below <=> other < first
    BY DEF Below
  <2> QED BY <1>2, <2>1
<1> QED BY <1>3

LEMMA RowsAre ==
  ASSUME NEW rows, IsRows(rows)
  PROVE  /\ Len(rows) \in Nat /\ DOMAIN rows = 1 .. Len(rows)
         /\ rows = [i \in 1 .. Len(rows) |-> rows[i]]
<1> DEFINE R == {rows[i] : i \in DOMAIN rows}
<1>1. rows \in Seq(R)
  BY DEF IsRows
<1> HIDE DEF R
<1> QED BY <1>1, LenProperties

LEMMA AreRows ==
  ASSUME NEW n \in Nat, NEW rows, rows = [i \in 1 .. n |-> rows[i]]
  PROVE  IsRows(rows) /\ Len(rows) = n
<1> DEFINE R == {rows[i] : i \in DOMAIN rows}
<1>1. DOMAIN rows = 1 .. n
  OBVIOUS
<1>2. rows \in [1 .. n -> R]
  BY <1>1
<1>3. rows \in Seq(R)
  <2> HIDE DEF R
  <2> QED BY <1>2, SeqDef
<1>4. Len(rows) = n
  <2> HIDE DEF R
  <2>1. Len(rows) \in Nat /\ 1 .. Len(rows) = 1 .. n
    BY <1>1, <1>3, LenProperties
  <2> QED BY <2>1
<1> QED BY <1>3, <1>4 DEF IsRows

LEMMA RowAppended ==
  ASSUME NEW rows, IsRows(rows), NEW r
  PROVE  LET more == Append(rows, r)
         IN  /\ IsRows(more) /\ Len(more) = Len(rows) + 1
             /\ more[Len(rows) + 1] = r /\ \A i \in 1 .. Len(rows) : more[i] = rows[i]
<1> DEFINE R == {rows[i] : i \in DOMAIN rows} \cup {r}
<1>1. rows \in Seq(R) /\ r \in R
  <2>1. {rows[i] : i \in DOMAIN rows} \subseteq R
    OBVIOUS
  <2> QED BY <2>1, SeqMonotonic DEF IsRows
<1> HIDE DEF R
<1> DEFINE more == Append(rows, r)
<1>2. /\ more \in Seq(R) /\ Len(more) = Len(rows) + 1
      /\ more[Len(rows) + 1] = r /\ \A i \in 1 .. Len(rows) : more[i] = rows[i]
  BY <1>1, AppendProperties
<1>3. Len(more) \in Nat /\ more = [i \in 1 .. Len(more) |-> more[i]]
  BY <1>2, LenProperties
<1> HIDE DEF more
<1>4. IsRows(more)
  BY <1>3, AreRows
<1> QED BY <1>2, <1>4 DEF more

LEMMA NoRows == IsRows(<<>>) /\ Len(<<>>) = 0
<1>1. <<>> \in Seq({}) /\ Len(<<>>) = 0
  BY EmptySeq
<1>2. <<>> \in Seq({<<>>[i] : i \in DOMAIN <<>>})
  BY <1>1, SeqMonotonic
<1> QED BY <1>1, <1>2 DEF IsRows

(* The loop of delete, and that of update, have a value after every turn. *)
KeptLoop(rows, w, n, kept) ==
  kept = [i \in 0 .. n |->
            IF i = 0 THEN <<>>
            ELSE IF Script!matches(rows[i], w) THEN kept[i - 1] ELSE Append(kept[i - 1], rows[i])]

LEMMA KeptTurn ==
  ASSUME NEW rows, NEW w, NEW n, NEW kept, KeptLoop(rows, w, n, kept), NEW i \in 0 .. n
  PROVE  kept[i] = IF i = 0 THEN <<>>
                   ELSE IF Script!matches(rows[i], w) THEN kept[i - 1] ELSE Append(kept[i - 1], rows[i])
<1> DEFINE turns == [j \in 0 .. n |->
              IF j = 0 THEN <<>>
              ELSE IF Script!matches(rows[j], w) THEN kept[j - 1] ELSE Append(kept[j - 1], rows[j])]
<1>1. kept = turns
  BY DEF KeptLoop
<1>2. turns[i] = IF i = 0 THEN <<>>
                 ELSE IF Script!matches(rows[i], w) THEN kept[i - 1] ELSE Append(kept[i - 1], rows[i])
  OBVIOUS
<1> HIDE DEF turns
<1> QED BY <1>1, <1>2

LEMMA KeptLoops ==
  ASSUME NEW rows, NEW w, NEW n \in Nat
  PROVE  \E kept : KeptLoop(rows, w, n, kept)
<1> DEFINE Without == {m \in Nat : ~\E kept : KeptLoop(rows, w, m, kept)}
<1> SUFFICES ASSUME Without # {} PROVE FALSE
  OBVIOUS
<1>1. PICK m \in Without : \A other \in Without : m <= other
  BY LeastOf
<1>2. CASE m = 0
  <2>1. KeptLoop(rows, w, 0, [i \in 0 .. 0 |-> <<>>])
    BY DEF KeptLoop
  <2> QED BY <1>2, <2>1
<1>3. CASE m # 0
  <2>1. m \in Nat /\ m - 1 \in Nat /\ m - 1 \notin Without
    BY <1>1, <1>3
  <2>2. PICK kept : KeptLoop(rows, w, m - 1, kept)
    BY <2>1
  <2> DEFINE last == IF Script!matches(rows[m], w) THEN kept[m - 1] ELSE Append(kept[m - 1], rows[m])
             more == [i \in 0 .. m |-> IF i < m THEN kept[i] ELSE last]
  <2>3. ASSUME NEW i \in 0 .. m
        PROVE  more[i] = IF i = 0 THEN <<>>
                         ELSE IF Script!matches(rows[i], w) THEN more[i - 1] ELSE Append(more[i - 1], rows[i])
    <3>1. more[i] = IF i < m THEN kept[i] ELSE last
      OBVIOUS
    <3>2. i # 0 => i - 1 \in 0 .. m - 1 /\ more[i - 1] = kept[i - 1]
      BY <2>1
    <3>3. i < m => kept[i] = IF i = 0 THEN <<>>
                     ELSE IF Script!matches(rows[i], w) THEN kept[i - 1] ELSE Append(kept[i - 1], rows[i])
      BY <2>1, <2>2, KeptTurn
    <3> HIDE DEF more
    <3>4. i < m \/ i = m
      BY <2>1
    <3>5. CASE i = m BY <1>3, <3>1, <3>2, <3>5
    <3> QED BY <3>1, <3>2, <3>3, <3>4, <3>5
  <2>4. KeptLoop(rows, w, m, more)
    <3>1. more = [i \in 0 .. m |-> more[i]]
      OBVIOUS
    <3> HIDE DEF more
    <3> QED BY <2>3, <3>1 DEF KeptLoop
  <2> QED BY <2>4
<1> QED BY <1>2, <1>3

LEMMA RowsKeptAre ==
  ASSUME NEW rows, NEW w, Len(rows) \in Nat
  PROVE  \E kept : KeptLoop(rows, w, Len(rows), kept) /\ Script!RowsKept(rows, w) = kept[Len(rows)]
<1> DEFINE kept == CHOOSE k : KeptLoop(rows, w, Len(rows), k)
<1>1. KeptLoop(rows, w, Len(rows), kept)
  BY KeptLoops
<1>2. Script!RowsKept(rows, w) = kept[Len(rows)]
  BY DEF Script!RowsKept, KeptLoop
<1> QED BY <1>1, <1>2
(* update: what is done after the first rows. *)
PatchLoop(table, patch, w, n, done) ==
  done = [i \in 0 .. n |-> IF i = 0 THEN [ok |-> TRUE, hit |-> FALSE, table |-> table] ELSE Script!PatchRow(done[i - 1], patch, w, i)]

LEMMA PatchTurn ==
  ASSUME NEW table, NEW patch, NEW w, NEW n, NEW done, PatchLoop(table, patch, w, n, done), NEW i \in 0 .. n
  PROVE  done[i] = IF i = 0 THEN [ok |-> TRUE, hit |-> FALSE, table |-> table] ELSE Script!PatchRow(done[i - 1], patch, w, i)
<1> DEFINE turns == [j \in 0 .. n |-> IF j = 0 THEN [ok |-> TRUE, hit |-> FALSE, table |-> table] ELSE Script!PatchRow(done[j - 1], patch, w, j)]
<1>1. done = turns
  BY DEF PatchLoop
<1>2. turns[i] = IF i = 0 THEN [ok |-> TRUE, hit |-> FALSE, table |-> table] ELSE Script!PatchRow(done[i - 1], patch, w, i)
  OBVIOUS
<1> HIDE DEF turns
<1> QED BY <1>1, <1>2

LEMMA PatchLoops ==
  ASSUME NEW table, NEW patch, NEW w, NEW n \in Nat
  PROVE  \E done : PatchLoop(table, patch, w, n, done)
<1> DEFINE Without == {m \in Nat : ~\E done : PatchLoop(table, patch, w, m, done)}
<1> SUFFICES ASSUME Without # {} PROVE FALSE
  OBVIOUS
<1>1. PICK m \in Without : \A other \in Without : m <= other
  BY LeastOf
<1>2. CASE m = 0
  <2>1. PatchLoop(table, patch, w, 0, [i \in 0 .. 0 |-> [ok |-> TRUE, hit |-> FALSE, table |-> table]])
    BY DEF PatchLoop
  <2> QED BY <1>2, <2>1
<1>3. CASE m # 0
  <2>1. m \in Nat /\ m - 1 \in Nat /\ m - 1 \notin Without
    BY <1>1, <1>3
  <2>2. PICK done : PatchLoop(table, patch, w, m - 1, done)
    BY <2>1
  <2> DEFINE more == [i \in 0 .. m |-> IF i < m THEN done[i] ELSE Script!PatchRow(done[m - 1], patch, w, m)]
  <2>3. ASSUME NEW i \in 0 .. m
        PROVE  more[i] = IF i = 0 THEN [ok |-> TRUE, hit |-> FALSE, table |-> table] ELSE Script!PatchRow(more[i - 1], patch, w, i)
    <3>1. more[i] = IF i < m THEN done[i] ELSE Script!PatchRow(done[m - 1], patch, w, m)
      OBVIOUS
    <3>2. i # 0 => i - 1 \in 0 .. m - 1 /\ more[i - 1] = done[i - 1]
      BY <2>1
    <3>3. i < m => done[i] = IF i = 0 THEN [ok |-> TRUE, hit |-> FALSE, table |-> table] ELSE Script!PatchRow(done[i - 1], patch, w, i)
      BY <2>1, <2>2, PatchTurn
    <3> HIDE DEF more
    <3>4. i < m \/ i = m
      BY <2>1
    <3>5. CASE i = m BY <1>3, <3>1, <3>2, <3>5
    <3> QED BY <3>1, <3>2, <3>3, <3>4, <3>5
  <2>4. PatchLoop(table, patch, w, m, more)
    <3>1. more = [i \in 0 .. m |-> more[i]]
      OBVIOUS
    <3> HIDE DEF more
    <3> QED BY <2>3, <3>1 DEF PatchLoop
  <2> QED BY <2>4
<1> QED BY <1>2, <1>3

LEMMA PatchRowsAre ==
  ASSUME NEW table, NEW patch, NEW w, Len(table.rows) \in Nat
  PROVE  \E done : /\ PatchLoop(table, patch, w, Len(table.rows), done)
                   /\ Script!PatchRows(table, patch, w) = done[Len(table.rows)]
<1> DEFINE done == CHOOSE d : PatchLoop(table, patch, w, Len(table.rows), d)
<1>1. PatchLoop(table, patch, w, Len(table.rows), done)
  BY PatchLoops
<1>2. Script!PatchRows(table, patch, w) = done[Len(table.rows)]
  BY DEF Script!PatchRows, PatchLoop
<1> QED BY <1>1, <1>2

(* The effect of the first statements of a list. *)
ReplayLoop(tables, list, n, done) ==
  done = [i \in 0 .. n |-> IF i = 0 THEN tables ELSE Script!Promise(done[i - 1], list[i])]

LEMMA ReplayTurn ==
  ASSUME NEW tables, NEW list, NEW n, NEW done, ReplayLoop(tables, list, n, done), NEW i \in 0 .. n
  PROVE  done[i] = IF i = 0 THEN tables ELSE Script!Promise(done[i - 1], list[i])
<1> DEFINE turns == [j \in 0 .. n |-> IF j = 0 THEN tables ELSE Script!Promise(done[j - 1], list[j])]
<1>1. done = turns
  BY DEF ReplayLoop
<1>2. turns[i] = IF i = 0 THEN tables ELSE Script!Promise(done[i - 1], list[i])
  OBVIOUS
<1> HIDE DEF turns
<1> QED BY <1>1, <1>2

LEMMA ReplayLoops ==
  ASSUME NEW tables, NEW list, NEW n \in Nat
  PROVE  \E done : ReplayLoop(tables, list, n, done)
<1> DEFINE Without == {m \in Nat : ~\E done : ReplayLoop(tables, list, m, done)}
<1> SUFFICES ASSUME Without # {} PROVE FALSE
  OBVIOUS
<1>1. PICK m \in Without : \A other \in Without : m <= other
  BY LeastOf
<1>2. CASE m = 0
  <2>1. ReplayLoop(tables, list, 0, [i \in 0 .. 0 |-> tables])
    BY DEF ReplayLoop
  <2> QED BY <1>2, <2>1
<1>3. CASE m # 0
  <2>1. m \in Nat /\ m - 1 \in Nat /\ m - 1 \notin Without
    BY <1>1, <1>3
  <2>2. PICK done : ReplayLoop(tables, list, m - 1, done)
    BY <2>1
  <2> DEFINE more == [i \in 0 .. m |-> IF i < m THEN done[i] ELSE Script!Promise(done[m - 1], list[m])]
  <2>3. ASSUME NEW i \in 0 .. m
        PROVE  more[i] = IF i = 0 THEN tables ELSE Script!Promise(more[i - 1], list[i])
    <3>1. more[i] = IF i < m THEN done[i] ELSE Script!Promise(done[m - 1], list[m])
      OBVIOUS
    <3>2. i # 0 => i - 1 \in 0 .. m - 1 /\ more[i - 1] = done[i - 1]
      BY <2>1
    <3>3. i < m => done[i] = IF i = 0 THEN tables ELSE Script!Promise(done[i - 1], list[i])
      BY <2>1, <2>2, ReplayTurn
    <3> HIDE DEF more
    <3>4. i < m \/ i = m
      BY <2>1
    <3>5. CASE i = m BY <1>3, <3>1, <3>2, <3>5
    <3> QED BY <3>1, <3>2, <3>3, <3>4, <3>5
  <2>4. ReplayLoop(tables, list, m, more)
    <3>1. more = [i \in 0 .. m |-> more[i]]
      OBVIOUS
    <3> HIDE DEF more
    <3> QED BY <2>3, <3>1 DEF ReplayLoop
  <2> QED BY <2>4
<1> QED BY <1>2, <1>3

LEMMA ReplayedIs ==
  ASSUME NEW tables, NEW list, Len(list) \in Nat
  PROVE  \E done : ReplayLoop(tables, list, Len(list), done) /\ Script!Replayed(tables, list) = done[Len(list)]
<1> DEFINE done == CHOOSE d : ReplayLoop(tables, list, Len(list), d)
<1>1. ReplayLoop(tables, list, Len(list), done)
  BY ReplayLoops
<1>2. Script!Replayed(tables, list) = done[Len(list)]
  BY DEF Script!Replayed, ReplayLoop
<1> QED BY <1>1, <1>2

-----------------------------------------------------------------------------
(* Statements replayed. *)

LEMMA ReplayedNone ==
  ASSUME NEW tables
  PROVE  Script!Replayed(tables, <<>>) = tables
<1>1. Len(<<>>) = 0
  BY NoRows
<1>2. PICK done : ReplayLoop(tables, <<>>, 0, done) /\ Script!Replayed(tables, <<>>) = done[0]
  BY <1>1, ReplayedIs
<1>3. done[0] = tables
  BY <1>2, ReplayTurn
<1> QED BY <1>2, <1>3

LEMMA ReplayedMore ==
  ASSUME NEW tables, NEW S, NEW list \in Seq(S), NEW s \in S
  PROVE  Script!Replayed(tables, Append(list, s)) = Script!Promise(Script!Replayed(tables, list), s)
<1> DEFINE more == Append(list, s)
           n == Len(list)
<1>1. n \in Nat /\ n + 1 \in Nat /\ Len(more) = n + 1 /\ more[n + 1] = s /\ \A i \in 1 .. n : more[i] = list[i]
  BY AppendProperties, LenProperties
<1>2. PICK done : ReplayLoop(tables, list, n, done) /\ Script!Replayed(tables, list) = done[n]
  BY <1>1, ReplayedIs
<1> HIDE DEF more
<1>3. PICK all : ReplayLoop(tables, more, n + 1, all) /\ Script!Replayed(tables, more) = all[n + 1]
  BY <1>1, ReplayedIs
<1> DEFINE Apart == {i \in Nat : i <= n /\ all[i] # done[i]}
<1>4. Apart = {}
  <2> SUFFICES ASSUME Apart # {} PROVE FALSE
    OBVIOUS
  <2>1. PICK i \in Apart : \A other \in Apart : i <= other
    BY LeastOf
  <2>2. i \in 0 .. n /\ i \in 0 .. n + 1
    BY <1>1, <2>1
  <2>3. i # 0 => i - 1 \notin Apart /\ i - 1 \in Nat /\ i - 1 <= n /\ more[i] = list[i]
    BY <1>1, <2>1, <2>2
  <2>4. all[i] = IF i = 0 THEN tables ELSE Script!Promise(all[i - 1], more[i])
    BY <1>3, <2>2, ReplayTurn
  <2>5. done[i] = IF i = 0 THEN tables ELSE Script!Promise(done[i - 1], list[i])
    BY <1>2, <2>2, ReplayTurn
  <2> QED BY <2>1, <2>3, <2>4, <2>5
<1>5. all[n] = done[n]
  BY <1>1, <1>4
<1>6. all[n + 1] = Script!Promise(all[n], s)
  <2>1. n + 1 \in 0 .. n + 1 /\ n + 1 # 0 /\ (n + 1) - 1 = n
    BY <1>1
  <2> QED BY <1>1, <1>3, <2>1, ReplayTurn
<1> QED BY <1>2, <1>3, <1>5, <1>6 DEF more

-----------------------------------------------------------------------------
(* delete: each row that stays goes to the place its rank says. *)

LEMMA RankSteps ==
  ASSUME NEW rows, NEW w, IsRows(rows)
  PROVE  /\ Script!Rank(rows, w, 0) = 0
         /\ \A m \in 1 .. Len(rows) :
              Script!Rank(rows, w, m) = IF Script!matches(rows[m], w) THEN Script!Rank(rows, w, m - 1)
                                        ELSE Script!Rank(rows, w, m - 1) + 1
         /\ \A m \in 0 .. Len(rows) : Script!Rank(rows, w, m) \in Nat
<1> DEFINE Upto(m) == {j \in Script!Stays(rows, w) : j <= m}
<1>1. Len(rows) \in Nat /\ DOMAIN rows = 1 .. Len(rows)
  BY RowsAre
<1>2. Upto(0) = {}
  BY <1>1 DEF Script!Stays
<1>3. ASSUME NEW m \in 0 .. Len(rows)
      PROVE  IsFiniteSet(Upto(m)) /\ Cardinality(Upto(m)) \in Nat
  <2>1. Upto(m) \in SUBSET (1 .. Len(rows))
    BY <1>1 DEF Script!Stays
  <2>2. IsFiniteSet(1 .. Len(rows))
    BY <1>1, FS_Interval
  <2> QED BY <2>1, <2>2, FS_Subset, FS_CardinalityType
<1>4. ASSUME NEW m \in 1 .. Len(rows)
      PROVE  /\ Script!matches(rows[m], w) => Upto(m) = Upto(m - 1)
             /\ ~Script!matches(rows[m], w) => Upto(m) = Upto(m - 1) \cup {m} /\ m \notin Upto(m - 1)
             /\ m - 1 \in 0 .. Len(rows)
  <2>1. \A j \in 1 .. Len(rows) : j <= m <=> j <= m - 1 \/ j = m
    BY <1>1
  <2>2. m - 1 \in 0 .. Len(rows) /\ ~(m <= m - 1)
    BY <1>1
  <2> HIDE DEF Script!matches
  <2> QED BY <1>1, <2>1, <2>2 DEF Script!Stays
<1>5. \A m : Script!Rank(rows, w, m) = Cardinality(Upto(m))
  BY DEF Script!Rank, Script!Cardinality, Cardinality
<1> HIDE DEF Upto
<1>6. ASSUME NEW m \in 1 .. Len(rows)
      PROVE  Cardinality(Upto(m)) = IF Script!matches(rows[m], w) THEN Cardinality(Upto(m - 1))
                                    ELSE Cardinality(Upto(m - 1)) + 1
  <2>1. IsFiniteSet(Upto(m - 1))
    BY <1>3, <1>4
  <2>2. m \notin Upto(m - 1) => Cardinality(Upto(m - 1) \cup {m}) = Cardinality(Upto(m - 1)) + 1
    BY <2>1, FS_AddElement
  <2> QED BY <1>4, <2>2
<1> QED BY <1>2, <1>3, <1>5, <1>6, FS_EmptySet

(* What delete has collected after the first m rows. *)
KeptUpTo(rows, w, m, kept) ==
  /\ IsRows(kept) /\ Len(kept) = Script!Rank(rows, w, m) /\ Len(kept) <= m
  /\ \A i \in Script!Stays(rows, w) :
       i <= m => Script!Rank(rows, w, i) \in 1 .. Len(kept) /\ kept[Script!Rank(rows, w, i)] = rows[i]
  /\ \A k \in 1 .. Len(kept) : \E i \in Script!Stays(rows, w) : i <= m /\ Script!Rank(rows, w, i) = k
  /\ Len(kept) = m => \A i \in 1 .. m : kept[i] = rows[i]

LEMMA KeptTurnKeeps ==
  ASSUME NEW rows, NEW w, IsRows(rows), NEW m \in 1 .. Len(rows), NEW kept, KeptUpTo(rows, w, m - 1, kept)
  PROVE  KeptUpTo(rows, w, m, IF Script!matches(rows[m], w) THEN kept ELSE Append(kept, rows[m]))
<1>0. IsRows(kept) /\ Len(kept) = Script!Rank(rows, w, m - 1) /\ Len(kept) <= m - 1
  BY DEF KeptUpTo
<1>1. /\ Len(rows) \in Nat /\ DOMAIN rows = 1 .. Len(rows)
      /\ Len(kept) \in Nat
  BY <1>0, RowsAre
<1>2. \A i \in Script!Stays(rows, w) : i \in 1 .. Len(rows) /\ (i <= m <=> i <= m - 1 \/ i = m)
  BY <1>1 DEF Script!Stays
<1>3. m \in Script!Stays(rows, w) <=> ~Script!matches(rows[m], w)
  BY <1>1 DEF Script!Stays
<1> HIDE DEF Script!matches
<1>4. CASE Script!matches(rows[m], w)
  <2>1. Script!Rank(rows, w, m) = Script!Rank(rows, w, m - 1)
    BY <1>4, RankSteps
  <2>2. Len(kept) # m /\ Len(kept) <= m
    BY <1>0, <1>1
  <2>3. \A i \in Script!Stays(rows, w) : i <= m <=> i <= m - 1
    BY <1>2, <1>3, <1>4
  <2>4. KeptUpTo(rows, w, m, kept)
    BY <1>0, <2>1, <2>2, <2>3 DEF KeptUpTo
  <2> QED BY <1>4, <2>4
<1>5. CASE ~Script!matches(rows[m], w)
  <2>1. Script!Rank(rows, w, m) = Len(kept) + 1
    BY <1>0, <1>5, RankSteps
  <2> DEFINE more == Append(kept, rows[m])
  <2>2. /\ IsRows(more) /\ Len(more) = Len(kept) + 1
        /\ more[Len(kept) + 1] = rows[m] /\ \A i \in 1 .. Len(kept) : more[i] = kept[i]
    BY <1>0, RowAppended
  <2> HIDE DEF more
  <2>3. ASSUME NEW i \in Script!Stays(rows, w), i <= m
        PROVE  Script!Rank(rows, w, i) \in 1 .. Len(more) /\ more[Script!Rank(rows, w, i)] = rows[i]
    <3>1. CASE i = m BY <1>1, <2>1, <2>2, <3>1
    <3>2. CASE i <= m - 1 BY <1>1, <2>2, <3>2 DEF KeptUpTo
    <3> QED BY <1>2, <2>3, <3>1, <3>2
  <2>4. ASSUME NEW k \in 1 .. Len(more)
        PROVE  \E i \in Script!Stays(rows, w) : i <= m /\ Script!Rank(rows, w, i) = k
    <3>1. CASE k = Len(kept) + 1 BY <1>1, <1>3, <1>5, <2>1, <3>1
    <3>2. CASE k \in 1 .. Len(kept) BY <1>2, <3>2 DEF KeptUpTo
    <3> QED BY <1>1, <2>2, <3>1, <3>2
  <2>5. Len(more) = m => \A i \in 1 .. m : more[i] = rows[i]
    <3>1. ASSUME Len(more) = m, NEW i \in 1 .. m PROVE more[i] = rows[i]
      <4>1. CASE i = m BY <1>1, <2>2, <3>1, <4>1
      <4>2. CASE i \in 1 .. m - 1 BY <1>1, <2>2, <3>1, <4>2 DEF KeptUpTo
      <4> QED BY <1>1, <4>1, <4>2
    <3> QED BY <3>1
  <2>6. Len(more) <= m
    BY <1>0, <1>1, <2>2
  <2>7. KeptUpTo(rows, w, m, more)
    BY <2>1, <2>2, <2>3, <2>4, <2>5, <2>6 DEF KeptUpTo
  <2> QED BY <1>5, <2>7 DEF more
<1> QED BY <1>4, <1>5

LEMMA RowsKeptUpTo ==
  ASSUME NEW rows, NEW w, IsRows(rows)
  PROVE  KeptUpTo(rows, w, Len(rows), Script!RowsKept(rows, w))
<1>1. Len(rows) \in Nat
  BY RowsAre
<1>2. PICK kept : KeptLoop(rows, w, Len(rows), kept) /\ Script!RowsKept(rows, w) = kept[Len(rows)]
  BY <1>1, RowsKeptAre
<1> DEFINE Bad == {m \in Nat : m <= Len(rows) /\ ~KeptUpTo(rows, w, m, kept[m])}
<1>3. Bad = {}
  <2> SUFFICES ASSUME Bad # {} PROVE FALSE
    OBVIOUS
  <2>1. PICK m \in Bad : \A other \in Bad : m <= other
    BY LeastOf
  <2>2. m \in 0 .. Len(rows) /\ m \in Nat
    BY <1>1, <2>1
  <2>3. kept[m] = IF m = 0 THEN <<>>
                  ELSE IF Script!matches(rows[m], w) THEN kept[m - 1] ELSE Append(kept[m - 1], rows[m])
    BY <1>2, <2>2, KeptTurn
  <2>4. CASE m = 0
    <3>1. kept[m] = <<>> /\ Script!Rank(rows, w, m) = 0 /\ Len(<<>>) = 0 /\ IsRows(<<>>)
      BY <2>3, <2>4, RankSteps, NoRows
    <3>2. \A i \in Script!Stays(rows, w) : ~(i <= 0)
      BY <1>1, RowsAre DEF Script!Stays
    <3>3. KeptUpTo(rows, w, m, kept[m])
      <4>1. KeptUpTo(rows, w, 0, <<>>)
        BY <2>4, <3>1, <3>2 DEF KeptUpTo
      <4> QED BY <2>4, <3>1, <4>1
    <3> QED BY <2>1, <3>3
  <2>5. CASE m # 0
    <3>1. m \in 1 .. Len(rows) /\ m - 1 \in Nat /\ m - 1 <= Len(rows) /\ ~(m <= m - 1)
      BY <1>1, <2>2, <2>5
    <3>2. KeptUpTo(rows, w, m - 1, kept[m - 1])
      BY <2>1, <3>1
    <3>3. KeptUpTo(rows, w, m, kept[m])
      <4> HIDE DEF Bad
      <4> QED BY <2>3, <2>5, <3>1, <3>2, KeptTurnKeeps
    <3> QED BY <2>1, <3>3
  <2> QED BY <2>4, <2>5
<1> QED BY <1>1, <1>2, <1>3

(* delete keeps in their order the rows that do not match; when it keeps   *)
(* as many as there were, it keeps them all.                               *)
LEMMA DeleteKeeps ==
  ASSUME NEW rows, NEW w, IsRows(rows)
  PROVE  LET kept == Script!RowsKept(rows, w)
         IN  /\ IsRows(kept) /\ kept = Script!Remaining(rows, w)
             /\ \A k \in DOMAIN kept : \E i \in DOMAIN rows :
                  kept[k] = rows[i] /\ Script!Rank(rows, w, i) = k
             /\ Len(kept) = Len(rows) => kept = rows
<1> DEFINE kept == Script!RowsKept(rows, w)
           rank(i) == Script!Rank(rows, w, i)
<1>1. KeptUpTo(rows, w, Len(rows), kept)
  BY RowsKeptUpTo
<1> HIDE DEF kept
<1>2. /\ Len(rows) \in Nat /\ DOMAIN rows = 1 .. Len(rows) /\ rows = [i \in 1 .. Len(rows) |-> rows[i]]
      /\ Len(kept) \in Nat /\ DOMAIN kept = 1 .. Len(kept) /\ kept = [i \in 1 .. Len(kept) |-> kept[i]]
  BY <1>1, RowsAre DEF KeptUpTo
<1>3. \A i \in Script!Stays(rows, w) : i \in DOMAIN rows /\ i <= Len(rows)
  BY <1>2 DEF Script!Stays
<1>4. \A i \in Script!Stays(rows, w) : kept[rank(i)] = rows[i]
  BY <1>1, <1>3 DEF KeptUpTo
<1>5. \A k \in 1 .. Len(kept) : \E i \in Script!Stays(rows, w) : rank(i) = k
  BY <1>1 DEF KeptUpTo
<1>6. \A k \in 1 .. Len(kept) : kept[k] = rows[CHOOSE i \in Script!Stays(rows, w) : rank(i) = k]
  BY <1>4, <1>5
<1>7. kept = Script!Remaining(rows, w)
  BY <1>1, <1>2, <1>6 DEF Script!Remaining, KeptUpTo
<1>8. Len(kept) = Len(rows) => kept = rows
  BY <1>1, <1>2 DEF KeptUpTo
<1>9. \A k \in DOMAIN kept : \E i \in DOMAIN rows : kept[k] = rows[i] /\ rank(i) = k
  BY <1>2, <1>3, <1>4, <1>5
<1>10. IsRows(kept)
  BY <1>1 DEF KeptUpTo
<1> QED BY <1>7, <1>8, <1>9, <1>10 DEF kept

-----------------------------------------------------------------------------
(* The constraints of a table, row by row and pair by pair. *)
Fits(cols, r) ==
  /\ {c \in DOMAIN cols : cols[c].required} \subseteq DOMAIN r
  /\ \A c \in DOMAIN r : c \in DOMAIN cols /\ Script!compatible(cols[c].ty, r[c])
Differ(cols, r, s) ==
  \A c \in DOMAIN r : cols[c].unique /\ c \in DOMAIN s => s[c].n # r[c].n

LEMMA WellFormedIs ==
  ASSUME NEW table
  PROVE  Script!WellFormed(table) <=>
           \A i \in DOMAIN table.rows :
             /\ Fits(table.cols, table.rows[i])
             /\ \A j \in DOMAIN table.rows \ {i} : Differ(table.cols, table.rows[i], table.rows[j])
  BY DEF Script!WellFormed, Fits, Differ

LEMMA DifferBoth ==
  ASSUME NEW cols, NEW r, NEW s, Differ(cols, r, s)
  PROVE  Differ(cols, s, r)
  BY DEF Differ

LEMMA TableOf ==
  ASSUME NEW cols \in Schemas, NEW rows, IsRows(rows),
         \A i \in DOMAIN rows : Fits(cols, rows[i]) /\ \A j \in DOMAIN rows \ {i} : Differ(cols, rows[i], rows[j])
  PROVE  IsTable([cols |-> cols, rows |-> rows])
<1> DEFINE table == [cols |-> cols, rows |-> rows]
<1>1. table.cols = cols /\ table.rows = rows
  OBVIOUS
<1>2. table = [cols |-> table.cols, rows |-> table.rows]
  OBVIOUS
<1> HIDE DEF table
<1>3. Script!WellFormed(table)
  BY <1>1, WellFormedIs
<1>4. IsTable(table)
  BY <1>1, <1>2, <1>3 DEF IsTable
<1> QED BY <1>4 DEF table

LEMMA TableIs ==
  ASSUME NEW table, IsTable(table)
  PROVE  /\ table = [cols |-> table.cols, rows |-> table.rows]
         /\ table.cols \in Schemas /\ IsRows(table.rows)
         /\ \A i \in DOMAIN table.rows :
              /\ Fits(table.cols, table.rows[i])
              /\ \A j \in DOMAIN table.rows \ {i} : Differ(table.cols, table.rows[i], table.rows[j])
  BY WellFormedIs DEF IsTable

(* What validate accepts has no number that another row has: values of one *)
(* column are of its type, or an int in a column of reals, and those are   *)
(* compared as numbers.                                                    *)
LEMMA ValidDiffers ==
  ASSUME NEW table, IsTable(table), NEW r, NEW skip, Script!validate(table, r, skip)
  PROVE  /\ Fits(table.cols, r)
         /\ \A j \in DOMAIN table.rows \ skip : Differ(table.cols, r, table.rows[j])
<1>1. Fits(table.cols, r)
  BY DEF Script!validate, Fits
<1>2. ASSUME NEW j \in DOMAIN table.rows \ skip PROVE Differ(table.cols, r, table.rows[j])
  <2> SUFFICES ASSUME NEW c \in DOMAIN r, table.cols[c].unique, c \in DOMAIN table.rows[j]
               PROVE  table.rows[j][c].n # r[c].n
    BY DEF Differ
  <2>1. ~Script!valueEqual(table.rows[j][c], r[c])
    BY <1>1 DEF Script!validate, Script!Collides, Fits
  <2>2. Script!compatible(table.cols[c].ty, r[c])
    BY <1>1 DEF Fits
  <2>3. Script!compatible(table.cols[c].ty, table.rows[j][c])
    BY TableIs DEF Fits
  <2> QED BY <2>1, <2>2, <2>3 DEF Script!valueEqual, Script!compatible
<1> QED BY <1>1, <1>2

LEMMA RowInserted ==
  ASSUME NEW table, IsTable(table), NEW r, Script!validate(table, r, {})
  PROVE  IsTable([table EXCEPT !.rows = Append(table.rows, r)])
<1> DEFINE more == Append(table.rows, r)
           n == Len(table.rows)
<1>1. n \in Nat /\ DOMAIN table.rows = 1 .. n /\ IsRows(table.rows)
  BY TableIs, RowsAre
<1>2. /\ IsRows(more) /\ Len(more) = n + 1
      /\ more[n + 1] = r /\ \A i \in 1 .. n : more[i] = table.rows[i]
  BY <1>1, RowAppended
<1> HIDE DEF more
<1>3. DOMAIN more = 1 .. n + 1
  BY <1>2, RowsAre
<1>4. /\ Fits(table.cols, r)
      /\ \A j \in 1 .. n : Differ(table.cols, r, table.rows[j]) /\ Differ(table.cols, table.rows[j], r)
  BY <1>1, ValidDiffers, DifferBoth
<1>5. ASSUME NEW i \in DOMAIN more
      PROVE  Fits(table.cols, more[i]) /\ \A j \in DOMAIN more \ {i} : Differ(table.cols, more[i], more[j])
  <2>1. CASE i = n + 1
    <3>1. \A j \in DOMAIN more \ {i} : j \in 1 .. n
      BY <1>1, <1>3, <2>1
    <3> QED BY <1>2, <1>4, <2>1, <3>1
  <2>2. CASE i \in 1 .. n
    <3>1. Fits(table.cols, more[i])
      BY <1>1, <1>2, <2>2, TableIs
    <3>2. ASSUME NEW j \in DOMAIN more \ {i} PROVE Differ(table.cols, more[i], more[j])
      <4>1. CASE j = n + 1 BY <1>2, <1>4, <2>2, <4>1
      <4>2. CASE j \in 1 .. n BY <1>1, <1>2, <2>2, <4>2, TableIs
      <4> QED BY <1>1, <1>3, <4>1, <4>2
    <3> QED BY <3>1, <3>2
  <2> QED BY <1>1, <1>3, <2>1, <2>2
<1>6. table.cols \in Schemas /\ [table EXCEPT !.rows = more] = [cols |-> table.cols, rows |-> more]
  BY TableIs
<1>7. IsTable([cols |-> table.cols, rows |-> more])
  BY <1>2, <1>5, <1>6, TableOf
<1> QED BY <1>6, <1>7 DEF more

LEMMA RowReplaced ==
  ASSUME NEW table, IsTable(table), NEW i \in DOMAIN table.rows, NEW r, Script!validate(table, r, {i})
  PROVE  /\ IsTable([table EXCEPT !.rows[i] = r])
         /\ [table EXCEPT !.rows[i] = r].cols = table.cols
         /\ [table EXCEPT !.rows[i] = r].rows = [table.rows EXCEPT ![i] = r]
<1> DEFINE other == [table.rows EXCEPT ![i] = r]
           n == Len(table.rows)
<1>1. /\ n \in Nat /\ DOMAIN table.rows = 1 .. n /\ IsRows(table.rows)
      /\ table.rows = [k \in 1 .. n |-> table.rows[k]]
  BY TableIs, RowsAre
<1>2. other = [k \in 1 .. n |-> IF k = i THEN r ELSE table.rows[k]]
  BY <1>1
<1>3. other[i] = r /\ \A k \in 1 .. n \ {i} : other[k] = table.rows[k]
  BY <1>1, <1>2
<1>4. other = [k \in 1 .. n |-> other[k]] /\ DOMAIN other = 1 .. n
  BY <1>2
<1> HIDE DEF other
<1>5. IsRows(other)
  BY <1>1, <1>4, AreRows
<1>6. /\ Fits(table.cols, r)
      /\ \A j \in 1 .. n \ {i} : Differ(table.cols, r, table.rows[j]) /\ Differ(table.cols, table.rows[j], r)
  BY <1>1, ValidDiffers, DifferBoth
<1>7. ASSUME NEW k \in DOMAIN other
      PROVE  Fits(table.cols, other[k]) /\ \A j \in DOMAIN other \ {k} : Differ(table.cols, other[k], other[j])
  <2>1. CASE k = i BY <1>3, <1>4, <1>6, <2>1
  <2>2. CASE k # i
    <3>1. Fits(table.cols, other[k])
      BY <1>1, <1>3, <1>4, <2>2, TableIs
    <3>2. ASSUME NEW j \in DOMAIN other \ {k} PROVE Differ(table.cols, other[k], other[j])
      <4>1. CASE j = i BY <1>3, <1>4, <1>6, <2>2, <4>1
      <4>2. CASE j # i BY <1>1, <1>3, <1>4, <2>2, <4>2, TableIs
      <4> QED BY <4>1, <4>2
    <3> QED BY <3>1, <3>2
  <2> QED BY <2>1, <2>2
<1>8. /\ table.cols \in Schemas
      /\ [table EXCEPT !.rows[i] = r] = [cols |-> table.cols, rows |-> other]
  BY TableIs DEF other
<1>9. IsTable([cols |-> table.cols, rows |-> other])
  BY <1>5, <1>7, <1>8, TableOf
<1> QED BY <1>8, <1>9 DEF other

LEMMA RowsDeleted ==
  ASSUME NEW table, IsTable(table), NEW w
  PROVE  IsTable([table EXCEPT !.rows = Script!RowsKept(table.rows, w)])
<1> DEFINE kept == Script!RowsKept(table.rows, w)
<1>1. IsRows(table.rows)
  BY TableIs
<1>2. /\ IsRows(kept)
      /\ \A k \in DOMAIN kept : \E i \in DOMAIN table.rows :
           kept[k] = table.rows[i] /\ Script!Rank(table.rows, w, i) = k
  BY <1>1, DeleteKeeps
<1> HIDE DEF kept
<1>3. ASSUME NEW k \in DOMAIN kept
      PROVE  Fits(table.cols, kept[k]) /\ \A j \in DOMAIN kept \ {k} : Differ(table.cols, kept[k], kept[j])
  <2>1. PICK i \in DOMAIN table.rows : kept[k] = table.rows[i] /\ Script!Rank(table.rows, w, i) = k
    BY <1>2
  <2>2. Fits(table.cols, kept[k])
    BY <2>1, TableIs
  <2>3. ASSUME NEW j \in DOMAIN kept \ {k} PROVE Differ(table.cols, kept[k], kept[j])
    <3>1. PICK h \in DOMAIN table.rows : kept[j] = table.rows[h] /\ Script!Rank(table.rows, w, h) = j
      BY <1>2
    <3>2. h # i
      BY <2>1, <3>1
    <3> QED BY <2>1, <3>1, <3>2, TableIs
  <2> QED BY <2>2, <2>3
<1>4. table.cols \in Schemas /\ [table EXCEPT !.rows = kept] = [cols |-> table.cols, rows |-> kept]
  BY TableIs
<1>5. IsTable([cols |-> table.cols, rows |-> kept])
  BY <1>2, <1>3, <1>4, TableOf
<1> QED BY <1>4, <1>5 DEF kept

LEMMA NoRowsFit ==
  ASSUME NEW cols \in Schemas
  PROVE  IsTable([cols |-> cols, rows |-> <<>>])
<1>1. DOMAIN <<>> = {}
  BY NoRows, RowsAre
<1> QED BY <1>1, NoRows, TableOf

-----------------------------------------------------------------------------
(* update: what the first m turns have done. *)
PatchedRow(row, patch, w) == IF Script!matches(row, w) THEN Script!Patched(row, patch) ELSE row
PatchedTo(table, patch, w, m, acc) ==
  /\ acc = [ok |-> acc.ok, hit |-> acc.hit, table |-> acc.table]
  /\ acc.ok \in BOOLEAN /\ acc.hit \in BOOLEAN
  /\ IsTable(acc.table) /\ acc.table.cols = table.cols
  /\ Len(acc.table.rows) = Len(table.rows)
  /\ \A j \in DOMAIN table.rows : j > m => acc.table.rows[j] = table.rows[j]
  /\ acc.ok => \A j \in DOMAIN table.rows : j <= m => acc.table.rows[j] = PatchedRow(table.rows[j], patch, w)
  /\ ~acc.hit => acc.table = table

LEMMA PatchTurnKeeps ==
  ASSUME NEW table, IsTable(table), NEW patch, NEW w, NEW m \in DOMAIN table.rows,
         NEW acc, PatchedTo(table, patch, w, m - 1, acc)
  PROVE  PatchedTo(table, patch, w, m, Script!PatchRow(acc, patch, w, m))
<1>1. Len(table.rows) \in Nat /\ DOMAIN table.rows = 1 .. Len(table.rows)
  BY TableIs, RowsAre
<1>2. /\ acc = [ok |-> acc.ok, hit |-> acc.hit, table |-> acc.table]
      /\ acc.ok \in BOOLEAN /\ acc.hit \in BOOLEAN
      /\ IsTable(acc.table) /\ acc.table.cols = table.cols
      /\ Len(acc.table.rows) = Len(table.rows)
  BY DEF PatchedTo
<1>10. PICK ok, hit, tab : acc = [ok |-> ok, hit |-> hit, table |-> tab]
  BY <1>2
<1>11. IsTable(acc.table) /\ acc.table.cols = table.cols
  BY <1>2
<1>3. DOMAIN acc.table.rows = 1 .. Len(table.rows) /\ DOMAIN acc.table.rows = DOMAIN table.rows
  BY <1>1, <1>2, TableIs, RowsAre
<1>4. \A j \in DOMAIN table.rows : (j > m => j > m - 1) /\ (j <= m <=> j <= m - 1 \/ j = m)
  BY <1>1
<1>5. acc.table.rows[m] = table.rows[m]
  BY <1>1 DEF PatchedTo
<1>6. CASE ~acc.ok
  <2>1. Script!PatchRow(acc, patch, w, m) = acc
    BY <1>6 DEF Script!PatchRow
  <2>2. PatchedTo(table, patch, w, m, acc)
    BY <1>4, <1>6 DEF PatchedTo
  <2> QED BY <2>1, <2>2
<1>7. CASE acc.ok /\ ~Script!matches(acc.table.rows[m], w)
  <2>1. Script!PatchRow(acc, patch, w, m) = acc
    BY <1>7 DEF Script!PatchRow
  <2>2. acc.table.rows[m] = PatchedRow(table.rows[m], patch, w)
    BY <1>5, <1>7 DEF PatchedRow
  <2>3. PatchedTo(table, patch, w, m, acc)
    BY <1>4, <1>7, <2>2 DEF PatchedTo
  <2> QED BY <2>1, <2>3
<1>8. CASE acc.ok /\ Script!matches(acc.table.rows[m], w)
  <2> DEFINE candidate == Script!Patched(acc.table.rows[m], patch)
             changed == [acc.table EXCEPT !.rows[m] = candidate]
  <2>1. CASE ~Script!validate(acc.table, candidate, {m})
    <3>1. Script!PatchRow(acc, patch, w, m) = [ok |-> FALSE, hit |-> acc.hit, table |-> acc.table]
      <4>1. Script!PatchRow(acc, patch, w, m) = [acc EXCEPT !.ok = FALSE]
        BY <1>8, <2>1 DEF Script!PatchRow
      <4>2. [acc EXCEPT !.ok = FALSE] = [ok |-> FALSE, hit |-> acc.hit, table |-> acc.table]
        <5>1. \A no : [acc EXCEPT !.ok = no] = [ok |-> no, hit |-> acc.hit, table |-> acc.table]
          BY <1>10
        <5> QED BY ONLY <5>1
      <4> QED BY <4>1, <4>2
    <3>2. PatchedTo(table, patch, w, m, [ok |-> FALSE, hit |-> acc.hit, table |-> acc.table])
      BY <1>4 DEF PatchedTo
    <3> QED BY <3>1, <3>2
  <2>2. CASE Script!validate(acc.table, candidate, {m})
    <3>1. Script!PatchRow(acc, patch, w, m) = [ok |-> TRUE, hit |-> TRUE, table |-> changed]
      BY <1>8, <2>2 DEF Script!PatchRow
    <3>2. IsTable(changed) /\ changed.cols = table.cols /\ changed.rows = [acc.table.rows EXCEPT ![m] = candidate]
      <4>1. m \in DOMAIN acc.table.rows
        BY <1>3
      <4> HIDE DEF candidate
      <4>2. /\ IsTable(changed) /\ changed.cols = acc.table.cols
            /\ changed.rows = [acc.table.rows EXCEPT ![m] = candidate]
        BY <1>11, <2>2, <4>1, RowReplaced
      <4> QED BY <1>11, <4>2
    <3>3. candidate = PatchedRow(table.rows[m], patch, w)
      BY <1>5, <1>8 DEF PatchedRow
    <3> HIDE DEF changed, candidate
    <3>4. DOMAIN changed.rows = DOMAIN table.rows /\ Len(changed.rows) = Len(table.rows)
      <4>1. DOMAIN changed.rows = 1 .. Len(table.rows)
        BY <1>3, <3>2
      <4>2. Len(changed.rows) \in Nat /\ DOMAIN changed.rows = 1 .. Len(changed.rows)
        BY <3>2, TableIs, RowsAre
      <4> QED BY <1>1, <4>1, <4>2
    <3>5. \A j \in DOMAIN table.rows : changed.rows[j] = IF j = m THEN candidate ELSE acc.table.rows[j]
      BY <1>3, <3>2
    <3>6. \A j \in DOMAIN table.rows : j > m => changed.rows[j] = table.rows[j]
      BY <1>1, <1>4, <3>5 DEF PatchedTo
    <3>7. \A j \in DOMAIN table.rows : j <= m => changed.rows[j] = PatchedRow(table.rows[j], patch, w)
      BY <1>4, <1>8, <3>3, <3>5 DEF PatchedTo
    <3>8. PatchedTo(table, patch, w, m, [ok |-> TRUE, hit |-> TRUE, table |-> changed])
      BY <1>2, <3>2, <3>4, <3>6, <3>7 DEF PatchedTo
    <3> QED BY <3>1, <3>8
  <2> QED BY <2>1, <2>2
<1> QED BY <1>2, <1>6, <1>7, <1>8

LEMMA PatchRowsTo ==
  ASSUME NEW table, IsTable(table), NEW patch, NEW w
  PROVE  PatchedTo(table, patch, w, Len(table.rows), Script!PatchRows(table, patch, w))
<1>1. Len(table.rows) \in Nat /\ DOMAIN table.rows = 1 .. Len(table.rows)
  BY TableIs, RowsAre
<1>2. PICK done : /\ PatchLoop(table, patch, w, Len(table.rows), done)
                  /\ Script!PatchRows(table, patch, w) = done[Len(table.rows)]
  BY <1>1, PatchRowsAre
<1> DEFINE Bad == {m \in Nat : m <= Len(table.rows) /\ ~PatchedTo(table, patch, w, m, done[m])}
<1>3. Bad = {}
  <2> SUFFICES ASSUME Bad # {} PROVE FALSE
    OBVIOUS
  <2>1. PICK m \in Bad : \A other \in Bad : m <= other
    BY LeastOf
  <2>2. m \in 0 .. Len(table.rows) /\ m \in Nat
    BY <1>1, <2>1
  <2>3. done[m] = IF m = 0 THEN [ok |-> TRUE, hit |-> FALSE, table |-> table]
                  ELSE Script!PatchRow(done[m - 1], patch, w, m)
    BY <1>2, <2>2, PatchTurn
  <2>4. CASE m = 0
    <3>1. PatchedTo(table, patch, w, 0, [ok |-> TRUE, hit |-> FALSE, table |-> table])
      BY <1>1 DEF PatchedTo
    <3> QED BY <2>1, <2>3, <2>4, <3>1
  <2>5. CASE m # 0
    <3>1. m \in DOMAIN table.rows /\ m - 1 \in Nat /\ m - 1 <= Len(table.rows) /\ ~(m <= m - 1)
      BY <1>1, <2>2, <2>5
    <3>2. PatchedTo(table, patch, w, m - 1, done[m - 1])
      BY <2>1, <3>1
    <3>3. PatchedTo(table, patch, w, m, done[m])
      <4> HIDE DEF Bad
      <4> QED BY <2>3, <2>5, <3>1, <3>2, PatchTurnKeeps
    <3> QED BY <2>1, <3>3
  <2> QED BY <2>4, <2>5
<1> QED BY <1>1, <1>2, <1>3

(* update leaves a table that satisfies the constraints, even when a row   *)
(* made it stop; when it has patched none the table is as it was.          *)
LEMMA UpdateLeavesTable ==
  ASSUME NEW table, IsTable(table), NEW patch, NEW w, NEW done, done = Script!PatchRows(table, patch, w)
  PROVE  IsTable(done.table) /\ done.ok \in BOOLEAN /\ done.hit \in BOOLEAN /\ (done.hit \/ done.table = table)
  BY PatchRowsTo DEF PatchedTo

(* Unless a row made it stop, update has patched all matching rows.        *)
LEMMA UpdatePatches ==
  ASSUME NEW table, IsTable(table), NEW patch, NEW w, NEW done, done = Script!PatchRows(table, patch, w), done.ok
  PROVE  done.table = [table EXCEPT !.rows = [i \in DOMAIN table.rows |-> PatchedRow(table.rows[i], patch, w)]]
<1>1. PatchedTo(table, patch, w, Len(table.rows), done)
  BY PatchRowsTo
<1>2. Len(table.rows) \in Nat /\ DOMAIN table.rows = 1 .. Len(table.rows)
  BY TableIs, RowsAre
<1>3. IsTable(done.table) /\ done.table.cols = table.cols /\ Len(done.table.rows) = Len(table.rows)
  BY <1>1 DEF PatchedTo
<1>4. \A j \in DOMAIN table.rows : done.table.rows[j] = PatchedRow(table.rows[j], patch, w)
  BY <1>1, <1>2 DEF PatchedTo
<1>5. done.table.rows = [i \in 1 .. Len(table.rows) |-> done.table.rows[i]]
  BY <1>3, TableIs, RowsAre
<1>6. done.table.rows = [i \in DOMAIN table.rows |-> PatchedRow(table.rows[i], patch, w)]
  BY <1>2, <1>4, <1>5
<1>7. done.table = [cols |-> done.table.cols, rows |-> done.table.rows]
  BY <1>3, TableIs
<1>8. table = [cols |-> table.cols, rows |-> table.rows]
  BY TableIs
<1> QED BY <1>3, <1>6, <1>7, <1>8

-----------------------------------------------------------------------------
(* Databases stay databases. *)
LEMMA TableStored ==
  ASSUME NEW tables, IsDatabase(tables), NEW t \in DOMAIN tables, NEW table, IsTable(table)
  PROVE  IsDatabase([tables EXCEPT ![t] = table])
<1> DEFINE other == [tables EXCEPT ![t] = table]
<1>1. /\ tables = [u \in DOMAIN tables |-> tables[u]] /\ DOMAIN tables \subseteq TableNames
      /\ \A u \in DOMAIN tables : IsTable(tables[u])
  BY DEF IsDatabase
<1>2. other = [u \in DOMAIN tables |-> IF u = t THEN table ELSE tables[u]]
  BY <1>1
<1>3. other = [u \in DOMAIN other |-> other[u]] /\ DOMAIN other = DOMAIN tables
  BY <1>2
<1>4. \A u \in DOMAIN tables : other[u] = IF u = t THEN table ELSE tables[u]
  BY <1>2
<1> HIDE DEF other
<1>5. IsDatabase(other)
  BY <1>1, <1>3, <1>4 DEF IsDatabase
<1> QED BY <1>5 DEF other

LEMMA SameTable ==
  ASSUME NEW tables, IsDatabase(tables), NEW t \in DOMAIN tables
  PROVE  [tables EXCEPT ![t] = tables[t]] = tables /\ IsTable(tables[t])
<1>1. IsTable(tables[t])
  BY DEF IsDatabase
<1>2. tables = [u \in DOMAIN tables |-> tables[u]]
  BY DEF IsDatabase
<1>3. PICK f : f = [u \in DOMAIN tables |-> tables[u]]
  OBVIOUS
<1>4. [f EXCEPT ![t] = f[t]] = f
  BY <1>3
<1> QED BY <1>1, <1>2, <1>3, <1>4

LEMMA TableDeclared ==
  ASSUME NEW tables, IsDatabase(tables), NEW t \in TableNames, NEW cols \in Schemas
  PROVE  IsDatabase(Script!Declared(tables, t, cols))
<1> DEFINE fresh == [cols |-> cols, rows |-> <<>>]
           other == Script!Declared(tables, t, cols)
<1>1. IsTable(fresh)
  BY NoRowsFit
<1> HIDE DEF fresh
<1>2. other = [u \in DOMAIN tables \cup {t} |-> IF u = t THEN fresh ELSE tables[u]]
  BY DEF Script!Declared, fresh
<1>3. other = [u \in DOMAIN other |-> other[u]] /\ DOMAIN other = DOMAIN tables \cup {t}
  BY <1>2
<1>4. \A u \in DOMAIN other : other[u] = IF u = t THEN fresh ELSE tables[u]
  BY <1>2
<1> HIDE DEF other
<1>5. IsDatabase(other)
  BY <1>1, <1>3, <1>4 DEF IsDatabase
<1> QED BY <1>5 DEF other

LEMMA NoTables == IsDatabase(Script!EmptyDb)
<1>1. DOMAIN Script!EmptyDb = {}
  BY DEF Script!EmptyDb
<1>2. Script!EmptyDb = [t \in DOMAIN Script!EmptyDb |-> Script!EmptyDb[t]]
  BY DEF Script!EmptyDb
<1> QED BY <1>1, <1>2 DEF IsDatabase

-----------------------------------------------------------------------------
(* What the tables hold: in memory and on disk they satisfy their          *)
(* constraints at every moment, even in the middle of an update that stops; *)
(* and while nothing was refused, memory holds the effect of the statements *)
(* accepted so far, which is on disk too as long as dirty_ is not set.     *)
ScriptTypes ==
  /\ Script!TypeOK /\ IsDatabase(db)
  /\ disk = [p \in Paths |-> disk[p]] /\ \A p \in Paths : IsDatabase(disk[p])

EffectsKept ==
  ~LateDatabase =>
    /\ phase = "running" /\ ~errors => db = Script!Replayed(base, log)
    /\ phase = "running" /\ ~dirty => db = disk[dbPath]
    /\ phase = "committed" => disk[dbPath] = Script!Replayed(base, log)

-----------------------------------------------------------------------------
LEMMA InitScriptTypes == Init => ScriptTypes /\ EffectsKept
<1> SUFFICES ASSUME Script!Init PROVE ScriptTypes /\ EffectsKept
  BY DEF Init
<1> USE DEF Script!Init
<1>1. disk = [p \in Paths |-> disk[p]] /\ \A p \in Paths : IsDatabase(disk[p])
  BY InitialDisksAssumption
<1>2. IsDatabase(db) /\ DOMAIN db = {}
  BY NoTables DEF Script!EmptyDb
<1>3. DOMAIN disk = Paths
  BY <1>1
<1>4. Len(log) <= MaxStatements
  BY EmptySeq, DatabaseAssumption
<1>5. Script!TypeOK
  BY <1>2, <1>3, <1>4 DEF Script!TypeOK
<1> QED BY <1>1, <1>2, <1>5 DEF ScriptTypes, EffectsKept

(* A statement changes nothing but the tables in memory. *)
LEMMA InMemory ==
  ASSUME ScriptTypes, IsDatabase(db'), dirty' \in BOOLEAN, errors' \in BOOLEAN, disk' = disk, dbPath' \in Paths,
         phase' \in {"idle", "running", "committed", "failed"}, Len(log') <= MaxStatements
  PROVE  ScriptTypes'
<1>1. \A t \in DOMAIN db' : db'[t].cols \in Schemas
  BY DEF IsDatabase, IsTable
<1>2. DOMAIN db' \subseteq TableNames
  BY DEF IsDatabase
<1> QED BY <1>1, <1>2 DEF ScriptTypes, Script!TypeOK

LEMMA LogGrows ==
  ASSUME ScriptInv, NEW s \in Statements, log' = Append(log, s), Len(log) < MaxStatements
  PROVE  Len(log') <= MaxStatements
<1>1. Len(log') = Len(log) + 1 /\ Len(log) \in Nat
  BY AppendProperties, LenProperties DEF ScriptInv
<1> QED BY <1>1, DatabaseAssumption

(* The effect of an accepted statement is what it promises. *)
LEMMA EffectAccepted ==
  ASSUME ScriptInv, EffectsKept, NEW s \in Statements, log' = Append(log, s), base' = base, phase = "running",
         phase' = phase, disk' = disk, dbPath' = dbPath, errors' = errors,
         db' = Script!Promise(db, s), ~dirty' => ~dirty /\ db' = db
  PROVE  EffectsKept'
<1>1. \A tables : Script!Replayed(tables, log') = Script!Promise(Script!Replayed(tables, log), s)
  BY ReplayedMore DEF ScriptInv
<1> QED BY <1>1 DEF EffectsKept

LEMMA StepDatabase ==
  ASSUME ScriptTypes, EffectsKept, ScriptInv, NEW p \in Paths, Script!Database(p)
  PROVE  ScriptTypes' /\ EffectsKept'
<1>1. /\ (~LateDatabase => log = <<>>) /\ dbPath' = p /\ db' = disk[p] /\ base' = disk[p] /\ disk' = disk
      /\ dirty' = dirty /\ errors' = errors /\ phase' = phase /\ log' = log /\ phase = "running"
  BY DEF Script!Database, Script!Running
<1>2. IsDatabase(db') /\ dirty \in BOOLEAN /\ errors \in BOOLEAN /\ Len(log') <= MaxStatements
  BY <1>1 DEF ScriptTypes, Script!TypeOK
<1>3. ScriptTypes'
  BY <1>1, <1>2, InMemory
<1>4. ~LateDatabase => Script!Replayed(base', log') = base'
  BY <1>1, ReplayedNone
<1>5. EffectsKept'
  BY <1>1, <1>4 DEF EffectsKept
<1> QED BY <1>3, <1>5

LEMMA StepTable ==
  ASSUME ScriptTypes, EffectsKept, ScriptInv, NEW t \in TableNames, NEW cols \in Schemas, Script!Table(t, cols)
  PROVE  ScriptTypes' /\ EffectsKept'
<1> DEFINE s == [op |-> "table", t |-> t, cols |-> cols]
<1>1. s \in Statements
  BY DEF Statements
<1>2. /\ phase = "running" /\ phase' = phase /\ Len(log) < MaxStatements /\ errors' = errors /\ disk' = disk
      /\ log' = Append(log, s) /\ dbPath' = dbPath /\ base' = base
  BY DEF Script!Table, Script!Accept, Script!Running
<1>3. /\ t \notin DOMAIN db => db' = Script!Declared(db, t, cols) /\ dirty' = TRUE
      /\ t \in DOMAIN db => db' = db /\ dirty' = dirty
  BY DEF Script!Table
<1>4. db' = Script!Promise(db, s)
  BY <1>3 DEF Script!Promise
<1> HIDE DEF s
<1>5. IsDatabase(db')
  <2>1. CASE t \in DOMAIN db BY <1>3, <2>1 DEF ScriptTypes
  <2>2. CASE t \notin DOMAIN db BY <1>3, <2>2, TableDeclared DEF ScriptTypes
  <2> QED BY <2>1, <2>2
<1>9. dirty' \in BOOLEAN /\ errors \in BOOLEAN /\ dbPath \in Paths
  BY <1>3 DEF ScriptTypes, Script!TypeOK
<1>6. Len(log') <= MaxStatements
  BY <1>1, <1>2, LogGrows
<1>7. ScriptTypes'
  BY <1>2, <1>5, <1>6, <1>9, InMemory
<1>8. EffectsKept'
  BY <1>1, <1>2, <1>3, <1>4, EffectAccepted
<1> QED BY <1>7, <1>8

LEMMA StepInsert ==
  ASSUME ScriptTypes, EffectsKept, ScriptInv, NEW t \in TableNames, NEW row \in Rows, Script!Insert(t, row)
  PROVE  ScriptTypes' /\ EffectsKept'
<1> DEFINE s == [op |-> "insert", t |-> t, row |-> row]
<1>1. s \in Statements
  BY DEF Statements
<1>2. /\ phase = "running" /\ phase' = phase /\ Len(log) < MaxStatements /\ errors' = errors /\ disk' = disk
      /\ log' = Append(log, s) /\ dbPath' = dbPath /\ base' = base /\ dirty' = TRUE
  BY DEF Script!Insert, Script!Accept, Script!Running
<1>3. /\ t \in DOMAIN db /\ Script!validate(db[t], row, {})
      /\ db' = [db EXCEPT ![t] = [db[t] EXCEPT !.rows = Append(db[t].rows, row)]]
  BY DEF Script!Insert
<1>4. db' = Script!Promise(db, s)
  BY <1>3 DEF Script!Promise
<1> HIDE DEF s
<1>5. IsDatabase(db) /\ IsTable(db[t])
  BY <1>3, SameTable DEF ScriptTypes
<1>6. IsTable([db[t] EXCEPT !.rows = Append(db[t].rows, row)])
  BY <1>3, <1>5, RowInserted
<1>7. IsDatabase(db')
  BY <1>3, <1>5, <1>6, TableStored
<1>8. errors \in BOOLEAN /\ dbPath \in Paths
  BY DEF ScriptTypes, Script!TypeOK
<1>9. Len(log') <= MaxStatements
  BY <1>1, <1>2, LogGrows
<1>10. ScriptTypes'
  BY <1>2, <1>7, <1>8, <1>9, InMemory
<1>11. EffectsKept'
  BY <1>1, <1>2, <1>4, EffectAccepted
<1> QED BY <1>10, <1>11

LEMMA StepDelete ==
  ASSUME ScriptTypes, EffectsKept, ScriptInv, NEW t \in TableNames, NEW w \in Clauses, Script!Delete(t, w)
  PROVE  ScriptTypes' /\ EffectsKept'
<1> DEFINE s == [op |-> "delete", t |-> t, w |-> w]
           kept == Script!RowsKept(db[t].rows, w)
<1>1. s \in Statements
  BY DEF Statements
<1>2. /\ phase = "running" /\ phase' = phase /\ Len(log) < MaxStatements /\ errors' = errors /\ disk' = disk
      /\ log' = Append(log, s) /\ dbPath' = dbPath /\ base' = base
  BY DEF Script!Delete, Script!Accept, Script!Running
<1>3. /\ t \in DOMAIN db /\ db' = [db EXCEPT ![t] = [db[t] EXCEPT !.rows = kept]]
      /\ dirty' = (dirty \/ Len(kept) # Len(db[t].rows))
  BY DEF Script!Delete
<1>4. IsDatabase(db) /\ IsTable(db[t]) /\ [db EXCEPT ![t] = db[t]] = db
  BY <1>3, SameTable DEF ScriptTypes
<1>5. kept = Script!Remaining(db[t].rows, w) /\ (Len(kept) = Len(db[t].rows) => kept = db[t].rows)
  BY <1>4, TableIs, DeleteKeeps
<1>6. IsTable([db[t] EXCEPT !.rows = kept])
  BY <1>4, RowsDeleted
<1> HIDE DEF kept
<1>7. IsDatabase(db')
  BY <1>3, <1>4, <1>6, TableStored
<1>8. db' = Script!Promise(db, s)
  BY <1>3, <1>5 DEF Script!Promise
<1> HIDE DEF s
<1>9. ~dirty' => ~dirty /\ db' = db
  <2> SUFFICES ASSUME kept = db[t].rows PROVE db' = db
    BY <1>3, <1>5
  <2>1. [db[t] EXCEPT !.rows = kept] = db[t]
    BY <1>4, TableIs
  <2> QED BY <1>3, <1>4, <2>1
<1>10. dirty' \in BOOLEAN /\ errors \in BOOLEAN /\ dbPath \in Paths
  BY <1>3 DEF ScriptTypes, Script!TypeOK
<1>11. Len(log') <= MaxStatements
  BY <1>1, <1>2, LogGrows
<1>12. ScriptTypes'
  BY <1>2, <1>7, <1>10, <1>11, InMemory
<1>13. EffectsKept'
  BY <1>1, <1>2, <1>8, <1>9, EffectAccepted
<1> QED BY <1>12, <1>13

(* What an update leaves, whether it stops or not. *)
LEMMA Updated ==
  ASSUME ScriptTypes, NEW t \in DOMAIN db, NEW patch, NEW w, NEW done, done = Script!PatchRows(db[t], patch, w),
         db' = [db EXCEPT ![t] = done.table], dirty' = (dirty \/ done.hit)
  PROVE  IsDatabase(db') /\ dirty' \in BOOLEAN /\ (~dirty' => ~dirty /\ db' = db)
<1>1. IsDatabase(db) /\ IsTable(db[t]) /\ [db EXCEPT ![t] = db[t]] = db
  BY SameTable DEF ScriptTypes
<1>2. IsTable(done.table) /\ done.hit \in BOOLEAN /\ (done.hit \/ done.table = db[t])
  BY <1>1, UpdateLeavesTable
<1>3. IsDatabase(db')
  BY <1>1, <1>2, TableStored
<1>4. dirty' \in BOOLEAN
  BY <1>2 DEF ScriptTypes, Script!TypeOK
<1> QED BY <1>1, <1>2, <1>3, <1>4

LEMMA StepUpdate ==
  ASSUME ScriptTypes, EffectsKept, ScriptInv, NEW t \in TableNames, NEW patch \in Patches, NEW w \in Clauses,
         Script!Update(t, patch, w)
  PROVE  ScriptTypes' /\ EffectsKept'
<1> DEFINE s == [op |-> "update", t |-> t, patch |-> patch, w |-> w]
<1>1. s \in Statements
  BY DEF Statements
<1>2. /\ phase = "running" /\ phase' = phase /\ Len(log) < MaxStatements /\ errors' = errors /\ disk' = disk
      /\ log' = Append(log, s) /\ dbPath' = dbPath /\ base' = base
  BY DEF Script!Update, Script!Accept, Script!Running
<1>3. PICK done : done = Script!PatchRows(db[t], patch, w)
  OBVIOUS
<1>4. t \in DOMAIN db /\ done.ok /\ db' = [db EXCEPT ![t] = done.table] /\ dirty' = (dirty \/ done.hit)
  BY <1>3 DEF Script!Update
<1>5. IsTable(db[t])
  BY <1>4, SameTable DEF ScriptTypes
<1>6. done.table = [db[t] EXCEPT !.rows = [i \in DOMAIN db[t].rows |-> PatchedRow(db[t].rows[i], patch, w)]]
  BY <1>3, <1>4, <1>5, UpdatePatches
<1>7. db' = Script!Promise(db, s)
  BY <1>4, <1>6 DEF Script!Promise, PatchedRow
<1> HIDE DEF s
<1>8. IsDatabase(db') /\ dirty' \in BOOLEAN /\ (~dirty' => ~dirty /\ db' = db)
  BY <1>3, <1>4, Updated
<1>9. errors \in BOOLEAN /\ dbPath \in Paths
  BY DEF ScriptTypes, Script!TypeOK
<1>10. Len(log') <= MaxStatements
  BY <1>1, <1>2, LogGrows
<1>11. ScriptTypes'
  BY <1>2, <1>8, <1>9, <1>10, InMemory
<1>12. EffectsKept'
  BY <1>1, <1>2, <1>7, <1>8, EffectAccepted
<1> QED BY <1>11, <1>12

LEMMA StepUpdateFails ==
  ASSUME ScriptTypes, EffectsKept, NEW t \in TableNames, NEW patch \in Patches, NEW w \in Clauses,
         Script!UpdateFails(t, patch, w)
  PROVE  ScriptTypes' /\ EffectsKept'
<1>1. PICK done : done = Script!PatchRows(db[t], patch, w)
  OBVIOUS
<1>2. /\ t \in DOMAIN db /\ db' = [db EXCEPT ![t] = done.table] /\ dirty' = (dirty \/ done.hit)
      /\ phase' = "failed" /\ errors' = TRUE /\ disk' = disk /\ dbPath' = dbPath /\ log' = log
  BY <1>1 DEF Script!UpdateFails
<1>3. IsDatabase(db') /\ dirty' \in BOOLEAN
  BY <1>1, <1>2, Updated
<1>4. dbPath \in Paths /\ Len(log) <= MaxStatements
  BY DEF ScriptTypes, Script!TypeOK
<1>5. ScriptTypes'
  BY <1>2, <1>3, <1>4, InMemory
<1> QED BY <1>2, <1>5 DEF EffectsKept

LEMMA StepMalformed ==
  ASSUME ScriptTypes, EffectsKept, ScriptInv, NEW t \in TableNames, Script!MalformedWhere(t)
  PROVE  ScriptTypes' /\ EffectsKept'
<1>1. /\ phase = "running" /\ phase' = phase /\ Len(log) < MaxStatements /\ errors' = TRUE /\ disk' = disk
      /\ log' = Append(log, [op |-> "refused"]) /\ dbPath' = dbPath /\ t \in DOMAIN db
  BY DEF Script!MalformedWhere, Script!Accept, Script!Running
<1>2. IsDatabase(db) /\ IsTable(db[t]) /\ [db EXCEPT ![t] = db[t]] = db
  BY <1>1, SameTable DEF ScriptTypes
<1>3. IsDatabase(db') /\ dirty' \in BOOLEAN /\ (~dirty' => ~dirty /\ db' = db)
  <2>1. CASE /\ db' = [db EXCEPT ![t] = [db[t] EXCEPT !.rows = <<>>]]
             /\ dirty' = (dirty \/ db[t].rows # <<>>)
    <3>1. [db[t] EXCEPT !.rows = <<>>] = [cols |-> db[t].cols, rows |-> <<>>] /\ db[t].cols \in Schemas
      BY <1>2, TableIs
    <3>2. IsTable([db[t] EXCEPT !.rows = <<>>])
      BY <3>1, NoRowsFit
    <3>3. IsDatabase(db')
      BY <1>1, <1>2, <2>1, <3>2, TableStored
    <3>4. db[t].rows = <<>> => [db[t] EXCEPT !.rows = <<>>] = db[t]
      BY <1>2, <3>1, TableIs
    <3>5. dirty' \in BOOLEAN
      BY <2>1 DEF ScriptTypes, Script!TypeOK
    <3> QED BY <1>2, <2>1, <3>3, <3>4, <3>5
  <2>2. ASSUME NEW patch \in Patches, NEW done, done = Script!PatchRows(db[t], patch, Script!NoWhere),
               db' = [db EXCEPT ![t] = done.table], dirty' = (dirty \/ done.hit)
        PROVE  IsDatabase(db') /\ dirty' \in BOOLEAN /\ (~dirty' => ~dirty /\ db' = db)
    BY <1>1, <2>2, Updated
  <2>3. CASE UNCHANGED <<db, dirty>>
    BY <1>2, <2>3 DEF ScriptTypes, Script!TypeOK
  <2> QED BY <2>1, <2>2, <2>3 DEF Script!MalformedWhere
<1>4. [op |-> "refused"] \in Statements
  BY DEF Statements
<1>5. Len(log') <= MaxStatements
  BY <1>1, <1>4, LogGrows
<1>6. dbPath \in Paths
  BY DEF ScriptTypes, Script!TypeOK
<1>7. ScriptTypes'
  BY <1>1, <1>3, <1>5, <1>6, InMemory
<1> QED BY <1>1, <1>3, <1>7 DEF EffectsKept

LEMMA StepOthers ==
  ASSUME ScriptTypes, EffectsKept, Script!Begin \/ Script!Refused \/ Script!Finish \/ UNCHANGED scriptVars
  PROVE  ScriptTypes' /\ EffectsKept'
<1>1. CASE Script!Begin
  <2>1. /\ disk' = disk /\ dbPath' \in Paths /\ db' = disk[dbPath'] /\ base' = db' /\ log' = <<>>
        /\ dirty' = FALSE /\ errors' = FALSE /\ phase' = "running"
    BY <1>1 DEF Script!Begin
  <2>2. IsDatabase(db')
    BY <2>1 DEF ScriptTypes
  <2>3. Len(log') <= MaxStatements
    BY <2>1, EmptySeq, DatabaseAssumption
  <2>4. ScriptTypes'
    BY <2>1, <2>2, <2>3, InMemory
  <2>5. Script!Replayed(base', log') = base'
    BY <2>1, ReplayedNone
  <2> QED BY <2>1, <2>4, <2>5 DEF EffectsKept
<1>2. CASE Script!Refused
  BY <1>2 DEF Script!Refused, ScriptTypes, Script!TypeOK, EffectsKept
<1>3. CASE Script!Finish
  <2>1. /\ phase = "running" /\ db' = db /\ dbPath' = dbPath /\ dirty' = dirty /\ errors' = errors /\ log' = log
        /\ base' = base
    BY <1>3 DEF Script!Finish
  <2>2. CASE errors
    BY <1>3, <2>1, <2>2 DEF Script!Finish, ScriptTypes, Script!TypeOK, EffectsKept
  <2>3. CASE ~errors
    <3>1. phase' = "committed" /\ disk' = IF dirty THEN [disk EXCEPT ![dbPath] = db] ELSE disk
      BY <1>3, <2>3 DEF Script!Finish
    <3>2. /\ disk = [p \in Paths |-> disk[p]] /\ dbPath \in Paths /\ IsDatabase(db)
          /\ \A p \in Paths : IsDatabase(disk[p])
      BY DEF ScriptTypes, Script!TypeOK
    <3>3. disk' = [p \in Paths |-> disk'[p]] /\ \A p \in Paths : disk'[p] = disk[p] \/ disk'[p] = db
      BY <3>1, <3>2
    <3>4. ~LateDatabase => disk'[dbPath] = db
      BY <2>1, <3>1, <3>2 DEF EffectsKept
    <3>5. ScriptTypes'
      <4>1. DOMAIN disk' = Paths /\ \A p \in Paths : IsDatabase(disk'[p])
        BY <3>2, <3>3
      <4>2. Script!TypeOK'
        BY <2>1, <3>1, <4>1 DEF ScriptTypes, Script!TypeOK
      <4> QED BY <2>1, <3>2, <3>3, <4>1, <4>2 DEF ScriptTypes
    <3>6. EffectsKept'
      BY <2>1, <2>3, <3>1, <3>4 DEF EffectsKept
    <3> QED BY <3>5, <3>6
  <2> QED BY <2>2, <2>3
<1>4. CASE UNCHANGED scriptVars
  BY <1>4 DEF scriptVars, ScriptTypes, Script!TypeOK, EffectsKept
<1> QED BY <1>1, <1>2, <1>3, <1>4

LEMMA StepEffects ==
  ASSUME ScriptTypes, EffectsKept, ScriptInv, [Next]_vars
  PROVE  ScriptTypes' /\ EffectsKept'
<1>1. Script!Next \/ UNCHANGED scriptVars
  BY DEF Next, vars
<1> QED BY <1>1, StepDatabase, StepTable, StepInsert, StepDelete, StepUpdate, StepUpdateFails, StepMalformed,
           StepOthers DEF Script!Next, Clauses

LEMMA EffectsAlways == Spec => [](ScriptInv /\ ScriptTypes /\ EffectsKept)
  BY InitScript, StepScript, InitScriptTypes, StepEffects, PTL DEF Spec

(* Tables, flags, inodes and program counters have their types.            *)
THEOREM TypesAlways == Spec => []TypeOK
<1>1. ScriptTypes /\ Store!TypeOK => TypeOK
  BY DEF ScriptTypes, TypeOK
<1> QED BY <1>1, EffectsAlways, StoreTypesAlways, PTL

(* Schema, required, unique and key constraints hold for every row of every *)
(* stored table, whatever sequence of statements produced it, of any length *)
(* and with any rows, patches and conditions: the checks at insert and at   *)
(* each row of an update are enough (validate, l.93).                       *)
THEOREM StoredTablesAreWellFormedAlways == Spec => []StoredTablesAreWellFormed
<1>1. ScriptTypes => StoredTablesAreWellFormed
  BY DEF ScriptTypes, IsDatabase, IsTable, StoredTablesAreWellFormed, Script!StoredTablesAreWellFormed
<1> QED BY <1>1, EffectsAlways, PTL

(* Include/noqeri/database.hpp:9: a whole script is a transaction.  As long *)
(* as `database` comes before the data statements, a script that run()      *)
(* accepts had no statement refused and left in its file the effect of each *)
(* of its statements, row by row; one that fails left every file alone      *)
(* (statement, l.96-104; run, l.77-82).                                     *)
THEOREM WholeScriptAlways ==
  ASSUME ~LateDatabase
  PROVE  Spec => []WholeScript
<1>1. ScriptInv /\ EffectsKept => WholeScript
  BY DEF ScriptInv, EffectsKept, WholeScript, Script!WholeScript
<1> QED BY <1>1, EffectsAlways, PTL
=============================================================================
