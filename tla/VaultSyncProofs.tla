-------------------------- MODULE VaultSyncProofs ---------------------------
(***************************************************************************)
(* For any set of files, any number of edits and any number of cycles that *)
(* stop early: while nobody edits during a cycle and no single download or *)
(* removal fails, the saved baseline is one on which both sides agreed, no *)
(* difference between the vault and the server goes unnoticed, and no step *)
(* of the engine loses an edit, brings back a deleted file, touches files  *)
(* that agree or puts an older file on the server.  Whatever goes wrong, a *)
(* first sync deletes nothing.                                             *)
(***************************************************************************)
EXTENDS VaultSync, TLAPS

-----------------------------------------------------------------------------
(* Facts about records.                                                    *)

(* What a write or an upload makes is a record. *)
LEMMA FileIsVersion ==
  ASSUME NEW body \in SUBSET Nat, NEW mtime \in Nat
  PROVE  /\ File(body, mtime) \in Versions
         /\ File(body, mtime) # None
         /\ File(body, mtime).body = body
         /\ File(body, mtime).hash = body
         /\ File(body, mtime).mtime = mtime
         /\ File(body, mtime).state = "live"
<1>1. [body |-> body, hash |-> body, mtime |-> mtime, state |-> "live"]
        \in [body : SUBSET Nat, hash : SUBSET Nat, mtime : Nat, state : {"live", "deleted"}]
  OBVIOUS
<1>2. File(body, mtime) \in Versions
  BY <1>1 DEF File, Versions
<1>3. File(body, mtime) # None
  BY <1>2, NoneAssumption DEF NoneAssumption
<1> QED
  BY <1>2, <1>3 DEF File

(* So is a deletion. *)
LEMMA DeletionIsVersion ==
  ASSUME NEW mtime \in Nat
  PROVE  /\ Deletion(mtime) \in Versions
         /\ Deletion(mtime) # None
         /\ Deletion(mtime).body = {}
         /\ Deletion(mtime).hash = {0}
         /\ Deletion(mtime).state = "deleted"
<1>1. [body |-> {}, hash |-> {0}, mtime |-> mtime, state |-> "deleted"]
        \in [body : SUBSET Nat, hash : SUBSET Nat, mtime : Nat, state : {"live", "deleted"}]
  OBVIOUS
<1>2. Deletion(mtime) \in Versions
  BY <1>1 DEF Deletion, Versions
<1>3. Deletion(mtime) # None
  BY <1>2, NoneAssumption DEF NoneAssumption
<1> QED
  BY <1>2, <1>3 DEF Deletion

(* The fields of a record. *)
LEMMA VersionFields ==
  ASSUME NEW r \in Versions
  PROVE  /\ r.body \in SUBSET Nat
         /\ r.hash \in SUBSET Nat
         /\ r.mtime \in Nat
         /\ r.state \in {"live", "deleted"}
  BY DEF Versions

(* A record pushed with the text the file has by now is a record. *)
LEMMA WithBody ==
  ASSUME NEW r \in Versions, NEW body \in SUBSET Nat
  PROVE  /\ [r EXCEPT !.body = body] \in Versions
         /\ [r EXCEPT !.body = body] # None
         /\ [r EXCEPT !.body = body].body = body
         /\ [r EXCEPT !.body = body].hash = r.hash
         /\ [r EXCEPT !.body = body].state = r.state
<1>1. [r EXCEPT !.body = body] \in Versions
  BY DEF Versions
<1>2. [r EXCEPT !.body = body] # None
  BY <1>1, NoneAssumption DEF NoneAssumption
<1> QED
  BY <1>1, <1>2 DEF Versions

(* Replacing the record of one path keeps a map of records. *)
LEMMA Update ==
  ASSUME NEW f \in [Paths -> Records], NEW p \in Paths, NEW r \in Records
  PROVE  [f EXCEPT ![p] = r] \in [Paths -> Records]
  OBVIOUS

-----------------------------------------------------------------------------
(* Types.                                                                  *)

Actions == {"none", "upload", "download", "deleteRemote", "deleteLocal",
            "mergeText", "mergeJSON"}

(* The planner answers with an action. *)
LEMMA ReconcileType ==
  ASSUME NEW p, NEW l \in Records, NEW pl \in Records, NEW r \in Records, NEW pr \in Records
  PROVE  Reconcile(p, l, pl, r, pr) \in Actions
<1>1. r # None => r.state \in {"live", "deleted"}
  BY VersionFields DEF Records
<1>2. Conflict(p, l, pl, r, pr) \in Actions
  BY <1>1 DEF Conflict, Actions, Tombstone, Active
<1> QED
  BY <1>1, <1>2 DEF Reconcile, Actions

(* Without renames a path's entry in the plan is what Reconcile answers. *)
LEMMA PlanIsReconcile ==
  ASSUME NEW l, NEW pl, NEW r, NEW pr
  PROVE  BuildPlan(Paths, l, pl, r, pr, NoRenames)
           = [p \in Paths |-> Reconcile(p, l[p], pl[p], r[p], pr[p])]
  BY DEF BuildPlan, PlanAction, RenamedAway, RenameTarget, NoRenames

(* Empty maps and an empty plan are well typed.                            *)
LEMMA EmptyMaps == Nothing \in [Paths -> Records] /\ NoPlan \in [Paths -> Todos]
  BY DEF Nothing, NoPlan, Records, Todos

(* Ending a cycle leaves every variable of the cycle in its type.          *)
LEMMA StopType == StopCycle => /\ pc' \in Steps
                              /\ scanned' \in [Paths -> Records]
                              /\ remote' \in [Paths -> Records]
                              /\ todo' \in [Paths -> Todos]
                              /\ unread' \in [Paths -> Records]
  BY EmptyMaps DEF StopCycle, Steps

(* What a push leaves behind: records, and no path is forgotten. *)
LEMMA PushType ==
  ASSUME TypeOK, NEW p \in Paths, NEW v \in Versions, Push(p, v)
  PROVE  /\ server' \in [Paths -> Records]
         /\ remote' \in [Paths -> Records]
         /\ unread' \in [Paths -> Records]
         /\ \A q \in Paths : remote[q] # None => remote'[q] # None
<1>1. Absorbed \in [Paths -> Records]
  BY DEF Absorbed, TypeOK
<1>2. v \in Records /\ v # None
  BY NoneAssumption DEF Records, NoneAssumption
<1>3. \A q \in Paths : remote[q] # None => Absorbed[q] # None
  BY DEF Absorbed
<1>4. server' \in [Paths -> Records]
  BY <1>2 DEF Push, TypeOK
<1>5. CASE remote' = [Absorbed EXCEPT ![p] = v] /\ unread' = Nothing
  BY <1>1, <1>2, <1>3, <1>4, <1>5, EmptyMaps
<1>6. CASE remote' = Absorbed /\ unread' = [Nothing EXCEPT ![p] = v]
  BY <1>1, <1>2, <1>3, <1>4, <1>6, EmptyMaps
<1> QED
  BY <1>5, <1>6 DEF Push

(* Every upload and every merge has the records it works with.  The type   *)
(* of what is pushed depends on it, so this is part of the induction.      *)
Backed ==
  pc = "exec" => \A p \in Paths :
    /\ todo[p] \in {"upload", "mergeText", "mergeJSON", "pushMerged"} => scanned[p] # None
    /\ todo[p] \in {"mergeText", "mergeJSON", "pushMerged"} => remote[p] # None

(* What a planned action says of the records it was planned from. *)
LEMMA ReconcileMeaning ==
  ASSUME NEW p, NEW l \in Records, NEW pl \in Records, NEW r \in Records, NEW pr \in Records,
         NEW a, a = Reconcile(p, l, pl, r, pr)
  PROVE  /\ a = "upload" => l # None
         /\ a \in {"mergeText", "mergeJSON"} => l # None /\ Active(r)
         /\ a = "deleteRemote" => l = None
         /\ a = "download" => Active(r)
<1>1. r # None => r.state \in {"live", "deleted"}
  BY VersionFields DEF Records
<1>2. ASSUME NEW c, c = Conflict(p, l, pl, r, pr)
      PROVE  /\ c = "upload" => l # None
             /\ c \in {"mergeText", "mergeJSON"} => l # None /\ Active(r)
             /\ c = "deleteRemote" => l = None
             /\ c = "download" => Active(r)
             /\ c # "deleteLocal"
  BY <1>1, <1>2 DEF Conflict, Tombstone, Active
<1> QED
  BY <1>1, <1>2 DEF Reconcile

(* The initial state is well typed and backed.                             *)
LEMMA InitTyped == Init => TypeOK /\ Backed
  BY EmptyMaps DEF Init, TypeOK, Steps, Backed

(* A plan only holds actions whose records exist.                          *)
LEMMA PlanCycleTyped ==
  ASSUME TypeOK, PlanCycle
  PROVE  TypeOK' /\ Backed'
<1>1. remote' \in [Paths -> Records]
  BY DEF PlanCycle, TypeOK, Previous, Nothing, Records
<1>2. Previous(dbLocal) \in [Paths -> Records] /\ Previous(dbRemote) \in [Paths -> Records]
  BY EmptyMaps DEF TypeOK, Previous
<1>3. todo' = [p \in Paths |-> Reconcile(p, scanned'[p], Previous(dbLocal)[p],
                                         remote'[p], Previous(dbRemote)[p])]
  BY PlanIsReconcile DEF PlanCycle
<1>4. scanned' \in [Paths -> Records]
  BY DEF PlanCycle, TypeOK
<1>5. ASSUME NEW p \in Paths
      PROVE  /\ todo'[p] \in Todos \ {"pushMerged"}
             /\ todo'[p] \in {"upload", "mergeText", "mergeJSON"} => scanned'[p] # None
             /\ todo'[p] \in {"mergeText", "mergeJSON"} => remote'[p] # None
  <2>1. /\ scanned'[p] \in Records /\ Previous(dbLocal)[p] \in Records
        /\ remote'[p] \in Records /\ Previous(dbRemote)[p] \in Records
    BY <1>1, <1>2, <1>4
  <2>2. todo'[p] = Reconcile(p, scanned'[p], Previous(dbLocal)[p],
                             remote'[p], Previous(dbRemote)[p])
    BY <1>3
  <2> QED
    BY <2>1, <2>2, ReconcileType, ReconcileMeaning DEF Actions, Todos, Pending, Active
<1>6. todo' \in [Paths -> Todos]
  BY <1>3, <1>5
<1> QED
  BY <1>1, <1>4, <1>5, <1>6 DEF PlanCycle, TypeOK, Backed, disk, db, Steps

(* Pushing a planned upload keeps the types.                               *)
LEMMA UploadTyped ==
  ASSUME TypeOK, Backed, NEW p \in Paths, Upload(p)
  PROVE  TypeOK' /\ Backed'
<1>1. CASE vault[p] = None
  BY <1>1, StopType DEF Upload, TypeOK, db, Backed, StopCycle
<1>2. CASE vault[p] # None
  <2>1. vault[p] \in Versions /\ scanned[p] \in Versions
    BY <1>2 DEF TypeOK, Records, Backed, Upload, Doing
  <2>2. PICK v : v = [scanned[p] EXCEPT !.body = vault[p].body]
    OBVIOUS
  <2>3. v \in Versions
    BY <2>1, <2>2, WithBody, VersionFields
  <2>4. Push(p, v) /\ todo' = [todo EXCEPT ![p] = "none"]
    BY <1>2, <2>2 DEF Upload, Done
  <2>5. todo' \in [Paths -> Todos]
    BY <2>4 DEF TypeOK, Todos
  <2> QED
    BY <1>2, <2>3, <2>4, <2>5, PushType DEF Upload, TypeOK, db, Backed
<1> QED
  BY <1>1, <1>2

(* So does deleting a file on the server ...                               *)
LEMMA DeleteRemoteTyped ==
  ASSUME TypeOK, Backed, NEW p \in Paths, DeleteRemote(p)
  PROVE  TypeOK' /\ Backed'
<1>1. Deletion(clock) \in Records /\ None \in Records
  BY DeletionIsVersion DEF TypeOK, Records
<1>2. Absorbed \in [Paths -> Records]
  BY DEF Absorbed, TypeOK
<1>3. \A q \in Paths : remote[q] # None => Absorbed[q] # None
  BY DEF Absorbed
<1>4. todo' = [todo EXCEPT ![p] = "none"] /\ todo' \in [Paths -> Todos]
  BY DEF DeleteRemote, Done, TypeOK, Todos
<1>5. unread' \in [Paths -> Records]
  BY <1>1, EmptyMaps DEF DeleteRemote
<1>6. remote' \in [Paths -> Records] /\ server' \in [Paths -> Records]
  BY <1>1, <1>2 DEF DeleteRemote, TypeOK
<1>7. TypeOK'
  BY <1>4, <1>5, <1>6 DEF DeleteRemote, TypeOK, db
<1>8. Backed'
  BY <1>2, <1>3, <1>4 DEF DeleteRemote, Backed, TypeOK
<1> QED
  BY <1>7, <1>8

(* ... and deleting one from the vault.                                    *)
LEMMA DeleteLocalTyped ==
  ASSUME TypeOK, Backed, NEW p \in Paths, DeleteLocal(p)
  PROVE  TypeOK' /\ Backed'
<1>1. todo' = [todo EXCEPT ![p] = "none"] /\ todo' \in [Paths -> Todos]
  BY DEF DeleteLocal, Done, TypeOK, Todos
<1>2. /\ vault' \in [Paths -> Records] /\ scanned' \in [Paths -> Records]
      /\ remote' \in [Paths -> Records]
  BY DEF DeleteLocal, TypeOK, Records
<1> QED
  BY <1>1, <1>2 DEF DeleteLocal, TypeOK, db, Backed

(* A file written from a version, and a merged file, are records. *)
LEMMA WrittenType ==
  ASSUME NEW r \in Versions
  PROVE  File(r.body, r.mtime) \in Records
  BY FileIsVersion, VersionFields DEF Records

(* The fallback of a merge downloads a version of the server.              *)
LEMMA FallbackTyped ==
  ASSUME TypeOK, Backed, NEW p \in Paths, remote[p] # None, MergeFallback(p),
         UNCHANGED <<server, db, pc, remote, unread, clock, aborts>>
  PROVE  TypeOK' /\ Backed'
<1>1. remote[p] \in Versions
  BY DEF TypeOK, Records
<1>2. vault' \in [Paths -> Records]
  BY <1>1, WrittenType DEF MergeFallback, WriteVersion, TypeOK
<1>3. todo' = [todo EXCEPT ![p] = "none"] /\ todo' \in [Paths -> Todos]
  BY DEF MergeFallback, Done, TypeOK, Todos
<1> QED
  BY <1>2, <1>3 DEF MergeFallback, TypeOK, db, Backed

(* The later of two times is a time.                                       *)
LEMMA LaterType ==
  ASSUME NEW s \in Nat, NEW t \in Nat
  PROVE  Later(s, t) \in Nat
  BY DEF Later

(* A merge makes a text only of what was in one of the two texts. *)
LEMMA MergedFromBoth ==
  ASSUME NEW p, NEW body \in MergedBodies(p)
  PROVE  body \subseteq (vault[p].body \cup remote[p].body)
  BY DEF MergedBodies

(* A merge keeps the types, whether it succeeds or falls back.             *)
LEMMA MergeTyped ==
  ASSUME TypeOK, Backed, NEW p \in Paths, Merge(p)
  PROVE  TypeOK' /\ Backed'
<1>1. remote[p] \in Versions /\ scanned[p] \in Versions /\ pc = "exec"
  BY DEF Merge, Doing, TypeOK, Backed, Records
<1>2. CASE MergeFallback(p)
  BY <1>1, <1>2, FallbackTyped, NoneAssumption DEF Merge, NoneAssumption
<1>3. ASSUME vault[p] # None, NEW body \in MergedBodies(p),
             scanned' = [scanned EXCEPT ![p] =
               File(body, Later(remote[p].mtime, scanned[p].mtime))],
             vault' = [vault EXCEPT ![p] = scanned'[p]],
             todo' = [todo EXCEPT ![p] = "pushMerged"]
      PROVE  TypeOK' /\ Backed'
  <2>1. vault[p] \in Versions
    BY <1>3 DEF TypeOK, Records
  <2>2. body \in SUBSET Nat
    BY <1>1, <2>1, MergedFromBoth, VersionFields
  <2>3. Later(remote[p].mtime, scanned[p].mtime) \in Nat
    BY <1>1, LaterType, VersionFields
  <2>4. PICK v : v = File(body, Later(remote[p].mtime, scanned[p].mtime))
    OBVIOUS
  <2>5. v \in Records /\ v # None
    BY <2>2, <2>3, <2>4, FileIsVersion DEF Records
  <2>6. scanned' \in [Paths -> Records] /\ scanned'[p] = v
    BY <1>3, <2>4, <2>5 DEF TypeOK
  <2>7. vault' \in [Paths -> Records]
    BY <1>3, <2>5, <2>6 DEF TypeOK
  <2>8. todo' \in [Paths -> Todos]
    BY <1>3 DEF TypeOK, Todos, Pending
  <2>9. TypeOK'
    BY <2>6, <2>7, <2>8 DEF Merge, TypeOK, db
  <2>10. Backed'
    BY <1>1, <1>3, <2>5, <2>6, NoneAssumption DEF Merge, Backed, TypeOK, NoneAssumption
  <2> QED
    BY <2>9, <2>10
<1> QED
  BY <1>2, <1>3 DEF Merge

(* So does pushing what was merged ...                                     *)
LEMMA PushMergedTyped ==
  ASSUME TypeOK, Backed, NEW p \in Paths, PushMerged(p)
  PROVE  TypeOK' /\ Backed'
<1>1. scanned[p] \in Versions /\ Push(p, scanned[p])
  BY DEF PushMerged, Doing, TypeOK, Backed, Records
<1>2. todo' = [todo EXCEPT ![p] = "none"] /\ todo' \in [Paths -> Todos]
  BY DEF PushMerged, Done, TypeOK, Todos
<1> QED
  BY <1>1, <1>2, PushType DEF PushMerged, TypeOK, db, Backed

(* ... and a download.                                                     *)
LEMMA DownloadTyped ==
  ASSUME TypeOK, Backed, NEW p \in Paths, Download(p)
  PROVE  TypeOK' /\ Backed'
<1>1. CASE remote[p] = None
  BY <1>1 DEF Download, Done, TypeOK, db, Backed, Todos
<1>2. CASE remote[p] # None
  <2>1. remote[p] \in Versions
    BY <1>2 DEF TypeOK, Records
  <2>2. vault' \in [Paths -> Records]
    BY <1>2, <2>1, WrittenType DEF Download, WriteVersion, TypeOK
  <2> QED
    BY <1>2, <2>2 DEF Download, TypeOK, db, Backed, Todos
<1> QED
  BY <1>1, <1>2

(* Every action of executePlan keeps the types.                            *)
LEMMA ExecuteTyped ==
  ASSUME TypeOK, Backed, NEW p \in Paths, Execute(p)
  PROVE  TypeOK' /\ Backed'
<1>1. CASE RejectMerged(p)
  BY <1>1, FallbackTyped DEF RejectMerged, Doing, Backed
<1>2. CASE DownloadFails(p)
  BY <1>2 DEF DownloadFails, TypeOK, disk, db, Backed, Todos
<1> QED
  BY <1>1, <1>2, UploadTyped, DeleteRemoteTyped, DeleteLocalTyped, MergeTyped,
     PushMergedTyped, DownloadTyped DEF Execute

(* An edit makes a record. *)
LEMMA EditType ==
  ASSUME TypeOK, Tick, NEW p \in Paths, NEW r \in Records
  PROVE  /\ clock' \in Nat
         /\ Edited(p, r) \in Records
         /\ Deletion(clock') \in Records
<1>1. clock' \in Nat
  BY DEF Tick, TypeOK
<1>2. (IF Active(r) /\ p \in TextPaths \cup JsonPaths THEN r.body ELSE {}) \cup {clock'}
        \in SUBSET Nat
  BY <1>1, VersionFields DEF Active, Records
<1> QED
  BY <1>1, <1>2, FileIsVersion, DeletionIsVersion DEF Edited, Records

(* So does every action of the user and of other devices.                  *)
LEMMA EnvironmentTyped ==
  ASSUME TypeOK, Backed, NEW p \in Paths, UserEdit(p) \/ DeviceEdit(p)
  PROVE  TypeOK' /\ Backed'
<1>1. None \in Records /\ vault[p] \in Records /\ server[p] \in Records
  BY DEF TypeOK, Records
<1>2. CASE UserEdit(p)
  <2>1. clock' \in Nat /\ Edited(p, vault[p]) \in Records
    BY <1>1, <1>2, EditType DEF UserEdit
  <2>2. vault' \in [Paths -> Records]
    BY <1>1, <1>2, <2>1 DEF UserEdit, TypeOK
  <2> QED
    BY <1>2, <2>1, <2>2 DEF UserEdit, TypeOK, db, cycle, Backed
<1>3. CASE DeviceEdit(p)
  <2>1. clock' \in Nat /\ Edited(p, server[p]) \in Records /\ Deletion(clock') \in Records
    BY <1>1, <1>3, EditType DEF DeviceEdit
  <2>2. server' \in [Paths -> Records]
    BY <1>1, <1>3, <2>1 DEF DeviceEdit, TypeOK
  <2>3. unread' \in [Paths -> Records]
    BY <1>3, <2>2 DEF DeviceEdit, TypeOK
  <2> QED
    BY <1>3, <2>1, <2>2, <2>3 DEF DeviceEdit, TypeOK, db, Backed
<1> QED
  BY <1>2, <1>3

(* Every step keeps the state well typed and backed.                       *)
LEMMA NextTyped ==
  ASSUME TypeOK, Backed, [Next]_vars
  PROVE  TypeOK' /\ Backed'
<1>1. CASE Connect
  BY <1>1 DEF Connect, TypeOK, disk, db, Steps, Backed
<1>2. CASE Rescan
  <2>1. CASE StopCycle
    BY <1>2, <2>1, StopType DEF Rescan, TypeOK, disk, db, Backed, StopCycle
  <2>2. CASE pc' = "save" /\ scanned' = vault /\ todo' = NoPlan /\ UNCHANGED <<remote, unread>>
    BY <1>2, <2>2, EmptyMaps DEF Rescan, TypeOK, disk, db, Backed, Steps
  <2> QED
    BY <1>2, <2>1, <2>2 DEF Rescan
<1>3. CASE Save
  BY <1>3, StopType DEF Save, TypeOK, disk, Backed, StopCycle
<1>4. CASE Abort
  BY <1>4, StopType DEF Abort, TypeOK, disk, db, Backed, StopCycle
<1>5. CASE UNCHANGED vars
  BY <1>5 DEF vars, TypeOK, Backed
<1> QED
  BY <1>1, <1>2, <1>3, <1>4, <1>5, PlanCycleTyped, ExecuteTyped, EnvironmentTyped
  DEF Next, Engine, Environment

(* Every reachable state is well typed, whatever goes wrong. *)
THEOREM TypeCorrect == Spec => []TypeOK
<1>1. Init => TypeOK /\ Backed
  BY InitTyped
<1>2. (TypeOK /\ Backed) /\ [Next]_vars => (TypeOK /\ Backed)'
  BY NextTyped
<1> QED
  BY <1>1, <1>2, PTL DEF Spec

-----------------------------------------------------------------------------
(* The baseline.  BaselineAgrees is not inductive: what is saved is what a *)
(* whole cycle has made of the two maps.  QuietInv says, for every entry   *)
(* of the plan, what it relies on while it waits, and that an entry that   *)
(* is done, or was never needed, leaves the two sides in agreement.        *)

Quiet == Faults \subseteq {"mergeFails", "pushRejected"}

(* A record tells the truth about its version, and a file's hash is never  *)
(* the hash of a deletion.                                                 *)
Honest(r) ==
  r # None =>
    /\ 0 \notin r.body
    /\ r.state = "live" => r.hash = r.body
    /\ r.state = "deleted" => r.hash = {0}

HonestRecords ==
  \A p \in Paths :
    /\ Honest(vault[p])
    /\ vault[p] # None => vault[p].state = "live"
    /\ Honest(server[p])
    /\ Honest(remote[p])
    /\ Honest(dbRemote[p])

PlanSound ==
  pc = "exec" => \A p \in Paths :
    /\ todo[p] \in {"none", "downloaded"} => Agree(vault[p], remote[p])
    /\ todo[p] \in {"upload", "pushMerged"} => vault[p] # None /\ scanned[p] = vault[p]
    /\ todo[p] = "deleteRemote" => vault[p] = None
    /\ todo[p] \in {"mergeText", "mergeJSON"} => vault[p] # None
    /\ todo[p] \in {"mergeText", "mergeJSON", "pushMerged", "download"} => Active(remote[p])
    /\ todo[p] # "failed"

RescanAgrees == pc = "save" => \A p \in Paths : Agree(scanned[p], remote[p])

QuietInv ==
  /\ TypeOK
  /\ Backed
  /\ BaselineAgrees
  /\ HonestRecords
  /\ unread = Nothing
  /\ PlanSound
  /\ RescanAgrees

(* The planner, given a baseline on which both sides agreed, leaves a path *)
(* alone only if the two sides agree now.                                  *)
LEMMA NoActionMeansAgreement ==
  ASSUME NEW p, NEW l \in Records, NEW pl \in Records, NEW r \in Records, NEW pr \in Records,
         Agree(pl, pr), Honest(l), Honest(r), l # None => l.state = "live",
         r = None => pr = None,
         Reconcile(p, l, pl, r, pr) = "none"
  PROVE  Agree(l, r)
<1>1. r # None => r.state \in {"live", "deleted"}
  BY VersionFields DEF Records
<1>2. CASE SameContent(l, r)
  BY <1>1, <1>2 DEF SameContent, Agree, Active, Honest
<1>3. CASE ~SameContent(l, r) /\ RecordChanged(pr, r) /\ RecordChanged(pl, l)
  <2>1. Conflict(p, l, pl, r, pr) = "none"
    BY <1>3 DEF Reconcile
  <2>2. r # None
    BY <1>3 DEF RecordChanged
  <2> QED
    BY <1>1, <2>1, <2>2 DEF Conflict, Tombstone, Active, Agree
<1>4. CASE ~SameContent(l, r) /\ RecordChanged(pr, r) /\ ~RecordChanged(pl, l)
  <2>1. r # None
    BY <1>4 DEF RecordChanged
  <2> QED
    BY <1>1, <1>4, <2>1 DEF Reconcile, Tombstone, Active, Agree
<1>5. CASE ~SameContent(l, r) /\ ~RecordChanged(pr, r) /\ RecordChanged(pl, l)
  BY <1>5 DEF Reconcile, Agree
<1>6. CASE ~SameContent(l, r) /\ ~RecordChanged(pr, r) /\ ~RecordChanged(pl, l)
  BY <1>6 DEF RecordChanged, Agree, Active
<1> QED
  BY <1>2, <1>3, <1>4, <1>5, <1>6

(* The initial state satisfies the invariant.                              *)
LEMMA QuietInit == Init => QuietInv
  BY InitTyped DEF Init, QuietInv, BaselineAgrees, HonestRecords, Honest, Nothing, PlanSound,
     RescanAgrees, Agree, Active

(* What the plan is made against is a baseline both sides agreed on.       *)
LEMMA PreviousAgrees ==
  ASSUME QuietInv, NEW p \in Paths
  PROVE  /\ Previous(dbLocal)[p] \in Records
         /\ Previous(dbRemote)[p] \in Records
         /\ Agree(Previous(dbLocal)[p], Previous(dbRemote)[p])
         /\ Honest(Previous(dbRemote)[p])
  BY DEF QuietInv, TypeOK, BaselineAgrees, HonestRecords, Previous, Nothing, Agree, Active,
         Honest, Records

(* Making a plan keeps the invariant.                                      *)
LEMMA PlanCycleQuiet ==
  ASSUME QuietInv, PlanCycle
  PROVE  QuietInv'
<1>1. TypeOK' /\ Backed'
  BY PlanCycleTyped DEF QuietInv
<1>2. ASSUME NEW p \in Paths
      PROVE  /\ Honest(remote'[p])
             /\ todo'[p] = Reconcile(p, scanned'[p], Previous(dbLocal)[p],
                                     remote'[p], Previous(dbRemote)[p])
             /\ remote'[p] = None => Previous(dbRemote)[p] = None
             /\ remote'[p] \in Records
             /\ scanned'[p] = vault[p]
  <2>1. remote'[p] = IF remote[p] # None THEN remote[p] ELSE Previous(dbRemote)[p]
    BY DEF PlanCycle
  <2>2. todo' = [q \in Paths |-> Reconcile(q, scanned'[q], Previous(dbLocal)[q],
                                           remote'[q], Previous(dbRemote)[q])]
    BY PlanIsReconcile DEF PlanCycle
  <2> QED
    BY <1>1, <2>1, <2>2, PreviousAgrees DEF QuietInv, HonestRecords, PlanCycle, TypeOK
<1>3. PlanSound'
  <2> SUFFICES ASSUME NEW p \in Paths
      PROVE /\ todo'[p] \in {"none", "downloaded"} => Agree(vault'[p], remote'[p])
            /\ todo'[p] \in {"upload", "pushMerged"} => vault'[p] # None /\ scanned'[p] = vault'[p]
            /\ todo'[p] = "deleteRemote" => vault'[p] = None
            /\ todo'[p] \in {"mergeText", "mergeJSON"} => vault'[p] # None
            /\ todo'[p] \in {"mergeText", "mergeJSON", "pushMerged", "download"} => Active(remote'[p])
            /\ todo'[p] # "failed"
    BY DEF PlanSound
  <2>1. /\ vault' = vault /\ vault[p] \in Records /\ Honest(vault[p])
        /\ vault[p] # None => vault[p].state = "live"
    BY DEF PlanCycle, QuietInv, HonestRecords, TypeOK, disk
  <2>2. todo'[p] \in Actions
    BY <1>2, <2>1, PreviousAgrees, ReconcileType
  <2>3. todo'[p] = "none" => Agree(vault[p], remote'[p])
    BY <1>2, <2>1, PreviousAgrees, NoActionMeansAgreement
  <2>4. /\ todo'[p] = "upload" => vault[p] # None
        /\ todo'[p] \in {"mergeText", "mergeJSON"} => vault[p] # None /\ Active(remote'[p])
        /\ todo'[p] = "deleteRemote" => vault[p] = None
        /\ todo'[p] = "download" => Active(remote'[p])
    BY <1>2, <2>1, PreviousAgrees, ReconcileMeaning
  <2> QED
    BY <1>2, <2>1, <2>2, <2>3, <2>4 DEF Actions
<1> QED
  BY <1>1, <1>2, <1>3 DEF PlanCycle, QuietInv, BaselineAgrees, HonestRecords, RescanAgrees,
     disk, db

(* With nothing unread and no late echo, a push leaves the session knowing *)
(* what the server has.                                                    *)
LEMMA QuietPush ==
  ASSUME Quiet, QuietInv, NEW p \in Paths, NEW v \in Versions, Push(p, v)
  PROVE  /\ remote' = [remote EXCEPT ![p] = v]
         /\ server' = [server EXCEPT ![p] = v]
         /\ unread' = Nothing
<1>1. Absorbed = remote
  BY DEF Absorbed, QuietInv, Nothing, TypeOK
<1> QED
  BY <1>1 DEF Push, Quiet

(* The record of a file tells the truth about it.                          *)
LEMMA FileHonest ==
  ASSUME NEW body \in SUBSET Nat, NEW mtime \in Nat, 0 \notin body
  PROVE  Honest(File(body, mtime))
  BY FileIsVersion DEF Honest

(* Pushing a planned upload keeps the invariant.                           *)
LEMMA UploadQuiet ==
  ASSUME Quiet, QuietInv, NEW p \in Paths, Upload(p)
  PROVE  QuietInv'
<1>1. TypeOK' /\ Backed'
  BY UploadTyped DEF QuietInv
<1>2. vault[p] \in Versions /\ vault[p] # None /\ scanned[p] = vault[p]
  BY DEF Upload, Doing, QuietInv, PlanSound, TypeOK, Records
<1>3. PICK v : v = [scanned[p] EXCEPT !.body = vault[p].body]
  OBVIOUS
<1>4. /\ v \in Versions /\ v # None
      /\ v.body = vault[p].body /\ v.hash = vault[p].hash /\ v.state = "live"
  <2>1. scanned[p] \in Versions /\ vault[p].body \in SUBSET Nat
    BY <1>2, VersionFields
  <2>2. scanned[p].hash = vault[p].hash /\ scanned[p].state = "live"
    BY <1>2 DEF QuietInv, HonestRecords
  <2> QED
    BY <1>3, <2>1, <2>2, WithBody
<1>5. Push(p, v) /\ todo' = [todo EXCEPT ![p] = "none"] /\ UNCHANGED <<pc, scanned, vault, db>>
  BY <1>2, <1>3 DEF Upload, Done
<1>6. remote' = [remote EXCEPT ![p] = v] /\ server' = [server EXCEPT ![p] = v] /\ unread' = Nothing
  BY <1>4, <1>5, QuietPush
<1>7. Honest(v) /\ Agree(vault[p], v)
  BY <1>2, <1>4 DEF Honest, Agree, Active, QuietInv, HonestRecords
<1>8. HonestRecords'
  BY <1>5, <1>6, <1>7 DEF QuietInv, TypeOK, HonestRecords, db
<1>9. PlanSound'
  BY <1>5, <1>6, <1>7 DEF QuietInv, TypeOK, PlanSound
<1>10. BaselineAgrees' /\ RescanAgrees'
  BY <1>5 DEF QuietInv, BaselineAgrees, RescanAgrees, db, Upload, Doing
<1> QED
  BY <1>1, <1>6, <1>8, <1>9, <1>10 DEF QuietInv

(* So does pushing what was merged.                                        *)
LEMMA PushMergedQuiet ==
  ASSUME Quiet, QuietInv, NEW p \in Paths, PushMerged(p)
  PROVE  QuietInv'
<1>1. TypeOK' /\ Backed'
  BY PushMergedTyped DEF QuietInv
<1>2. vault[p] \in Versions /\ vault[p] # None /\ scanned[p] = vault[p]
  BY DEF PushMerged, Doing, QuietInv, PlanSound, TypeOK, Records
<1>3. /\ remote' = [remote EXCEPT ![p] = vault[p]]
      /\ server' = [server EXCEPT ![p] = vault[p]]
      /\ unread' = Nothing
  BY <1>2, QuietPush DEF PushMerged
<1>4. todo' = [todo EXCEPT ![p] = "none"] /\ UNCHANGED <<pc, scanned, vault, db>>
  BY DEF PushMerged, Done
<1>5. Honest(vault[p]) /\ Agree(vault[p], vault[p])
  BY <1>2 DEF Agree, Active, QuietInv, HonestRecords
<1>6. HonestRecords'
  BY <1>3, <1>4, <1>5 DEF QuietInv, TypeOK, HonestRecords, db
<1>7. PlanSound'
  BY <1>3, <1>4, <1>5 DEF QuietInv, TypeOK, PlanSound
<1>8. BaselineAgrees' /\ RescanAgrees'
  BY <1>4 DEF QuietInv, BaselineAgrees, RescanAgrees, db, PushMerged, Doing
<1> QED
  BY <1>1, <1>3, <1>6, <1>7, <1>8 DEF QuietInv

(* The record of a deletion is honest.                                     *)
LEMMA DeletionHonest ==
  ASSUME NEW mtime \in Nat
  PROVE  Honest(Deletion(mtime)) /\ ~Active(Deletion(mtime))
  BY DeletionIsVersion DEF Honest, Active

(* Deleting a file on the server keeps the invariant.                      *)
LEMMA DeleteRemoteQuiet ==
  ASSUME Quiet, QuietInv, NEW p \in Paths, DeleteRemote(p)
  PROVE  QuietInv'
<1>1. TypeOK' /\ Backed'
  BY DeleteRemoteTyped DEF QuietInv
<1>2. Absorbed = remote
  BY DEF Absorbed, QuietInv, Nothing, TypeOK
<1>3. /\ remote' = [remote EXCEPT ![p] = None]
      /\ server' = [server EXCEPT ![p] = Deletion(clock)]
      /\ unread' = Nothing
      /\ todo' = [todo EXCEPT ![p] = "none"]
      /\ vault[p] = None
  BY <1>2 DEF DeleteRemote, Doing, Done, Quiet, QuietInv, PlanSound
<1>4. Honest(Deletion(clock)) /\ Honest(None) /\ Agree(None, None)
  BY DeletionHonest DEF QuietInv, TypeOK, Honest, Agree, Active
<1>5. HonestRecords'
  BY <1>3, <1>4 DEF DeleteRemote, QuietInv, TypeOK, HonestRecords, db
<1>6. PlanSound'
  BY <1>3, <1>4 DEF DeleteRemote, QuietInv, TypeOK, PlanSound
<1>7. BaselineAgrees' /\ RescanAgrees'
  BY DEF DeleteRemote, Doing, QuietInv, BaselineAgrees, RescanAgrees, db
<1> QED
  BY <1>1, <1>3, <1>5, <1>6, <1>7 DEF QuietInv

(* Deleting a file from the vault keeps the invariant.                     *)
LEMMA DeleteLocalQuiet ==
  ASSUME Quiet, QuietInv, NEW p \in Paths, DeleteLocal(p)
  PROVE  QuietInv'
<1>1. TypeOK' /\ Backed'
  BY DeleteLocalTyped DEF QuietInv
<1>2. /\ vault' = [vault EXCEPT ![p] = None]
      /\ remote' = [remote EXCEPT ![p] = None]
      /\ scanned' = [scanned EXCEPT ![p] = None]
      /\ todo' = [todo EXCEPT ![p] = "none"]
  BY DEF DeleteLocal, Done, Quiet
<1>3. Honest(None) /\ Agree(None, None)
  BY DEF Honest, Agree, Active
<1>4. HonestRecords'
  BY <1>2, <1>3 DEF DeleteLocal, QuietInv, TypeOK, HonestRecords, db
<1>5. PlanSound'
  BY <1>2, <1>3 DEF DeleteLocal, QuietInv, TypeOK, PlanSound
<1>6. BaselineAgrees' /\ unread' = Nothing
  BY DEF DeleteLocal, QuietInv, BaselineAgrees, db
<1>7. RescanAgrees'
  BY DEF DeleteLocal, Doing, RescanAgrees
<1> QED
  BY <1>1, <1>4, <1>5, <1>6, <1>7 DEF QuietInv

(* A file written from a live version is that version. *)
LEMMA WrittenAgrees ==
  ASSUME NEW r \in Versions, Honest(r), Active(r)
  PROVE  /\ Agree(File(r.body, r.mtime), r)
         /\ Honest(File(r.body, r.mtime))
         /\ File(r.body, r.mtime) # None
         /\ File(r.body, r.mtime).state = "live"
  BY FileIsVersion, VersionFields DEF Agree, Honest, Active

(* Writing the server's version to the vault keeps the invariant.          *)
LEMMA WriteRemoteQuiet ==
  ASSUME QuietInv, NEW p \in Paths, pc = "exec", Active(remote[p]), WriteVersion(p, remote[p]),
         NEW s \in {"none", "downloaded"}, todo' = [todo EXCEPT ![p] = s],
         UNCHANGED <<server, db, pc, scanned, remote, unread>>, TypeOK', Backed'
  PROVE  QuietInv'
<1>1. remote[p] \in Versions /\ Honest(remote[p])
  BY DEF QuietInv, TypeOK, Records, HonestRecords, Active
<1>2. PICK f : f = File(remote[p].body, remote[p].mtime)
  OBVIOUS
<1>3. Agree(f, remote[p]) /\ Honest(f) /\ f # None /\ f.state = "live"
  BY <1>1, <1>2, WrittenAgrees
<1>4. vault' = [vault EXCEPT ![p] = f]
  BY <1>2 DEF WriteVersion
<1>5. HonestRecords'
  BY <1>3, <1>4 DEF QuietInv, TypeOK, HonestRecords, db
<1>6. PlanSound'
  BY <1>3, <1>4 DEF QuietInv, TypeOK, PlanSound
<1>7. BaselineAgrees' /\ RescanAgrees' /\ unread' = Nothing
  BY DEF QuietInv, BaselineAgrees, RescanAgrees, db
<1> QED
  BY <1>5, <1>6, <1>7 DEF QuietInv

(* A merge keeps the invariant, whether it succeeds or falls back.         *)
LEMMA MergeQuiet ==
  ASSUME Quiet, QuietInv, NEW p \in Paths, Merge(p)
  PROVE  QuietInv'
<1>1. TypeOK' /\ Backed'
  BY MergeTyped DEF QuietInv
<1>2. pc = "exec" /\ Active(remote[p]) /\ vault[p] # None
  BY DEF Merge, Doing, QuietInv, PlanSound
<1>3. UNCHANGED <<server, db, pc, remote, unread>>
  BY DEF Merge
<1>4. CASE MergeFallback(p)
  BY <1>1, <1>2, <1>3, <1>4, WriteRemoteQuiet DEF MergeFallback, Done
<1>5. ASSUME NEW body \in MergedBodies(p),
             scanned' = [scanned EXCEPT ![p] =
               File(body, Later(remote[p].mtime, scanned[p].mtime))],
             vault' = [vault EXCEPT ![p] = scanned'[p]],
             todo' = [todo EXCEPT ![p] = "pushMerged"]
      PROVE  QuietInv'
  <2>1. remote[p] \in Versions /\ scanned[p] \in Versions /\ vault[p] \in Versions
    BY <1>2 DEF QuietInv, TypeOK, Records, Backed, Active, Merge, Doing
  <2>2. body \in SUBSET Nat
    BY <2>1, MergedFromBoth, VersionFields
  <2>3. 0 \notin body
    <3>1. 0 \notin vault[p].body /\ 0 \notin remote[p].body
      BY <1>2 DEF QuietInv, HonestRecords, Honest, Active
    <3> QED
      BY <3>1, MergedFromBoth
  <2>4. Later(remote[p].mtime, scanned[p].mtime) \in Nat
    BY <2>1, LaterType, VersionFields
  <2>5. PICK f : f = File(body, Later(remote[p].mtime, scanned[p].mtime))
    OBVIOUS
  <2>6. f # None /\ f.state = "live" /\ Honest(f)
    BY <2>2, <2>3, <2>4, <2>5, FileIsVersion, FileHonest
  <2>7. scanned' = [scanned EXCEPT ![p] = f] /\ vault' = [vault EXCEPT ![p] = f]
    BY <1>5, <2>5 DEF QuietInv, TypeOK
  <2>8. HonestRecords'
    BY <1>3, <2>6, <2>7 DEF QuietInv, TypeOK, HonestRecords, db
  <2>9. PlanSound'
    BY <1>2, <1>3, <1>5, <2>6, <2>7 DEF QuietInv, TypeOK, PlanSound
  <2>10. BaselineAgrees' /\ RescanAgrees' /\ unread' = Nothing
    BY <1>2, <1>3 DEF QuietInv, BaselineAgrees, RescanAgrees, db
  <2> QED
    BY <1>1, <2>8, <2>9, <2>10 DEF QuietInv
<1> QED
  BY <1>4, <1>5 DEF Merge

(* So does a merge whose push was rejected ...                             *)
LEMMA RejectMergedQuiet ==
  ASSUME Quiet, QuietInv, NEW p \in Paths, RejectMerged(p)
  PROVE  QuietInv'
<1>1. TypeOK' /\ Backed'
  BY ExecuteTyped DEF Execute, QuietInv
<1>2. pc = "exec" /\ Active(remote[p])
  BY DEF RejectMerged, Doing, QuietInv, PlanSound
<1> QED
  BY <1>1, <1>2, WriteRemoteQuiet DEF RejectMerged, MergeFallback, Done

(* ... a download ...                                                      *)
LEMMA DownloadQuiet ==
  ASSUME Quiet, QuietInv, NEW p \in Paths, Download(p)
  PROVE  QuietInv'
<1>1. TypeOK' /\ Backed'
  BY DownloadTyped DEF QuietInv
<1>2. pc = "exec" /\ Active(remote[p]) /\ remote[p] # None
  BY DEF Download, Doing, QuietInv, PlanSound, Active
<1> QED
  BY <1>1, <1>2, WriteRemoteQuiet DEF Download

(* ... the second scan ...                                                 *)
LEMMA RescanQuiet ==
  ASSUME Quiet, QuietInv, Rescan
  PROVE  QuietInv'
<1>1. TypeOK' /\ Backed'
  BY NextTyped DEF Next, Engine, QuietInv
<1>2. \A p \in Paths : todo[p] \in {"none", "downloaded"}
  <2>1. ~Some("failed")
    BY DEF Some, QuietInv, PlanSound, Rescan
  <2> QED
    BY <2>1 DEF Rescan, OnlyDownloadsLeft, Some, QuietInv, TypeOK, Todos
<1>3. pc' = "save" /\ scanned' = vault /\ UNCHANGED <<disk, db, remote, unread>>
  BY DEF Rescan, Some, QuietInv, PlanSound
<1>4. \A p \in Paths : Agree(vault[p], remote[p])
  BY <1>2 DEF QuietInv, PlanSound, Rescan
<1> QED
  BY <1>1, <1>3, <1>4 DEF QuietInv, BaselineAgrees, HonestRecords, PlanSound, RescanAgrees,
     disk, db

(* ... and the end of a cycle.                                             *)
LEMMA StopQuiet ==
  ASSUME QuietInv, StopCycle, UNCHANGED disk, TypeOK', Backed', BaselineAgrees',
         \A p \in Paths : Honest(dbRemote'[p])
  PROVE  QuietInv'
<1>1. \A p \in Paths : Honest(remote'[p])
  BY DEF StopCycle, Nothing, Honest
<1> QED
  BY <1>1 DEF QuietInv, HonestRecords, PlanSound, RescanAgrees, StopCycle, disk

(* The user and other devices, between cycles, keep the invariant.         *)
LEMMA EnvironmentQuiet ==
  ASSUME Quiet, QuietInv, NEW p \in Paths, UserEdit(p) \/ DeviceEdit(p)
  PROVE  QuietInv'
<1>1. TypeOK' /\ Backed'
  BY EnvironmentTyped DEF QuietInv
<1>2. pc = "idle" /\ pc' = "idle"
  BY DEF UserEdit, DeviceEdit, UserMayEdit, DeviceMayEdit, Quiet, cycle
<1>3. clock' \in Nat /\ clock' # 0 /\ Tick
  BY DEF UserEdit, DeviceEdit, Tick, QuietInv, TypeOK
<1>4. ASSUME NEW r \in Records, Honest(r)
      PROVE  Honest(Edited(p, r)) /\ Edited(p, r) # None /\ Edited(p, r).state = "live"
  <2>1. PICK b : b = (IF Active(r) /\ p \in TextPaths \cup JsonPaths
                        THEN r.body ELSE {}) \cup {clock'}
    OBVIOUS
  <2>2. b \in SUBSET Nat /\ 0 \notin b
    <3>1. Active(r) => r.body \in SUBSET Nat /\ 0 \notin r.body
      BY <1>4, VersionFields DEF Active, Records, Honest
    <3> QED
      BY <1>3, <2>1, <3>1
  <2>3. PICK t \in Nat : t = clock'
    BY <1>3
  <2>4. Edited(p, r) = File(b, t)
    BY <2>1, <2>3 DEF Edited
  <2>5. Honest(File(b, t)) /\ File(b, t) # None /\ File(b, t).state = "live"
    BY <2>2, FileIsVersion, FileHonest
  <2> QED
    BY <2>4, <2>5
<1>5. Honest(None) /\ Honest(Deletion(clock'))
  <2>1. \A t \in Nat : Honest(Deletion(t))
    BY DeletionHonest
  <2> QED
    BY <1>3, <2>1 DEF Honest
<1>6. HonestRecords'
  <2>1. CASE UserEdit(p)
    <3>1. PICK f : f = Edited(p, vault[p])
      OBVIOUS
    <3>2. Honest(f) /\ f # None /\ f.state = "live"
      BY <3>1, <1>4 DEF QuietInv, HonestRecords, TypeOK
    <3>3. vault' = [vault EXCEPT ![p] = f] \/ vault' = [vault EXCEPT ![p] = None]
      BY <2>1, <3>1 DEF UserEdit
    <3> QED
      BY <1>5, <2>1, <3>2, <3>3 DEF UserEdit, QuietInv, HonestRecords, TypeOK, db, cycle
  <2>2. CASE DeviceEdit(p)
    <3>1. PICK f : f = Edited(p, server[p])
      OBVIOUS
    <3>2. Honest(f)
      BY <3>1, <1>4 DEF QuietInv, HonestRecords, TypeOK
    <3>3. server' = [server EXCEPT ![p] = f] \/ server' = [server EXCEPT ![p] = Deletion(clock')]
      BY <2>2, <3>1 DEF DeviceEdit
    <3> QED
      BY <1>5, <2>2, <3>2, <3>3 DEF DeviceEdit, QuietInv, HonestRecords, TypeOK, db
  <2> QED
    BY <2>1, <2>2
<1> QED
  BY <1>1, <1>2, <1>6 DEF UserEdit, DeviceEdit, QuietInv, BaselineAgrees, PlanSound, RescanAgrees,
     db, cycle

(* Every step keeps the invariant.                                         *)
LEMMA QuietStep ==
  ASSUME Quiet, QuietInv, [Next]_vars
  PROVE  QuietInv'
<1>1. TypeOK' /\ Backed'
  BY NextTyped DEF QuietInv
<1>2. CASE Connect
  BY <1>1, <1>2 DEF Connect, QuietInv, BaselineAgrees, HonestRecords, PlanSound, RescanAgrees,
     disk, db
<1>3. CASE Save
  <2>1. BaselineAgrees'
    BY <1>3 DEF Save, QuietInv, RescanAgrees, BaselineAgrees
  <2>2. \A p \in Paths : Honest(dbRemote'[p])
    BY <1>3 DEF Save, QuietInv, HonestRecords
  <2> QED
    BY <1>1, <1>3, <2>1, <2>2, StopQuiet DEF Save
<1>4. CASE Abort
  <2>1. BaselineAgrees' /\ \A p \in Paths : Honest(dbRemote'[p])
    BY <1>4 DEF Abort, QuietInv, BaselineAgrees, HonestRecords, db
  <2> QED
    BY <1>1, <1>4, <2>1, StopQuiet DEF Abort
<1>5. CASE UNCHANGED vars
  BY <1>1, <1>5 DEF vars, QuietInv, BaselineAgrees, HonestRecords, PlanSound, RescanAgrees
<1>6. ASSUME NEW p \in Paths PROVE ~DownloadFails(p)
  BY DEF DownloadFails, Quiet
<1> QED
  BY <1>2, <1>3, <1>4, <1>5, <1>6, PlanCycleQuiet, UploadQuiet, DeleteRemoteQuiet,
     DeleteLocalQuiet, MergeQuiet, PushMergedQuiet, RejectMergedQuiet, DownloadQuiet,
     RescanQuiet, EnvironmentQuiet
  DEF Next, Engine, Environment, Execute

(* The invariant holds in every reachable state of a quiet system.         *)
LEMMA QuietInvariant == Quiet => (Spec => []QuietInv)
<1> SUFFICES ASSUME Quiet PROVE Spec => []QuietInv
  OBVIOUS
<1>1. Init => QuietInv
  BY QuietInit
<1>2. QuietInv /\ [Next]_vars => QuietInv'
  BY QuietStep
<1> QED
  BY <1>1, <1>2, PTL DEF Spec

(* The server forgets no path: what the client has a record of, the server *)
(* has one of too.  This needs no assumption on the faults.                *)
KnownToServer ==
  \A p \in Paths :
    remote[p] # None \/ dbRemote[p] # None \/ unread[p] # None => server[p] # None

(* Ending a cycle leaves only records of paths the server knows.           *)
LEMMA StopKnown ==
  ASSUME KnownToServer, StopCycle, server' = server,
         \A p \in Paths : dbRemote'[p] # None => dbRemote[p] # None \/ remote[p] # None
  PROVE  KnownToServer'
  BY DEF KnownToServer, StopCycle, Nothing

(* What a push records is something the server has.                        *)
LEMMA PushKnown ==
  ASSUME TypeOK, KnownToServer, NEW p \in Paths, NEW v \in Versions, Push(p, v),
         UNCHANGED db
  PROVE  KnownToServer'
<1>1. server'[p] # None /\ \A q \in Paths : server[q] # None => server'[q] # None
  BY NoneAssumption DEF Push, TypeOK, NoneAssumption
<1>2. \A q \in Paths : Absorbed[q] # None => server[q] # None
  BY DEF Absorbed, KnownToServer
<1>3. Absorbed \in [Paths -> Records]
  BY DEF Absorbed, TypeOK
<1>4. ASSUME NEW q \in Paths, remote'[q] # None \/ unread'[q] # None
      PROVE  q = p \/ Absorbed[q] # None
  BY <1>3, <1>4 DEF Push, Nothing
<1> QED
  BY <1>1, <1>2, <1>4 DEF KnownToServer, db

(* Every action of executePlan keeps the remote map known to the server.   *)
LEMMA ExecuteKnown ==
  ASSUME TypeOK, Backed, KnownToServer, NEW p \in Paths, Execute(p)
  PROVE  KnownToServer'
<1>1. CASE Upload(p)
  <2>1. CASE vault[p] = None
    BY <1>1, <2>1, StopKnown DEF Upload, db
  <2>2. CASE vault[p] # None
    <3>1. vault[p] \in Versions /\ scanned[p] \in Versions
      BY <1>1, <2>2 DEF TypeOK, Records, Backed, Upload, Doing
    <3>2. PICK v : v = [scanned[p] EXCEPT !.body = vault[p].body]
      OBVIOUS
    <3>3. v \in Versions
      BY <3>1, <3>2, WithBody, VersionFields
    <3> QED
      BY <1>1, <2>2, <3>2, <3>3, PushKnown DEF Upload
  <2> QED
    BY <2>1, <2>2
<1>2. CASE DeleteRemote(p)
  <2>1. Deletion(clock) # None
    BY DeletionIsVersion DEF TypeOK
  <2>2. server'[p] # None /\ \A q \in Paths : server[q] # None => server'[q] # None
    BY <1>2, <2>1 DEF DeleteRemote, TypeOK
  <2>3. Absorbed \in [Paths -> Records] /\ \A q \in Paths : Absorbed[q] # None => server[q] # None
    BY DEF Absorbed, KnownToServer, TypeOK
  <2>4. ASSUME NEW q \in Paths, remote'[q] # None \/ unread'[q] # None
        PROVE  q = p \/ Absorbed[q] # None
    BY <1>2, <2>3, <2>4 DEF DeleteRemote, Nothing
  <2> QED
    BY <1>2, <2>2, <2>3, <2>4 DEF DeleteRemote, KnownToServer, db
<1>3. CASE DeleteLocal(p)
  BY <1>3 DEF DeleteLocal, KnownToServer, TypeOK, db
<1>4. CASE Merge(p)
  BY <1>4 DEF Merge, KnownToServer, db
<1>5. CASE PushMerged(p)
  <2>1. scanned[p] \in Versions
    BY <1>5 DEF PushMerged, Doing, TypeOK, Backed, Records
  <2> QED
    BY <1>5, <2>1, PushKnown DEF PushMerged
<1>6. CASE RejectMerged(p) \/ Download(p) \/ DownloadFails(p)
  BY <1>6 DEF RejectMerged, Download, DownloadFails, KnownToServer, db, disk
<1> QED
  BY <1>1, <1>2, <1>3, <1>4, <1>5, <1>6 DEF Execute

(* So does every step.                                                     *)
LEMMA KnownStep ==
  ASSUME TypeOK, Backed, KnownToServer, [Next]_vars
  PROVE  KnownToServer'
<1>1. CASE Connect
  BY <1>1 DEF Connect, KnownToServer, disk, db
<1>2. CASE PlanCycle
  BY <1>2 DEF PlanCycle, KnownToServer, Previous, Nothing, disk, db
<1>3. CASE Rescan
  BY <1>3, StopKnown DEF Rescan, KnownToServer, disk, db
<1>4. CASE Save
  BY <1>4, StopKnown DEF Save, disk
<1>5. CASE Abort
  BY <1>5, StopKnown DEF Abort, disk, db
<1>6. ASSUME NEW p \in Paths, UserEdit(p) PROVE KnownToServer'
  BY <1>6 DEF UserEdit, KnownToServer, db, cycle
<1>7. ASSUME NEW p \in Paths, DeviceEdit(p) PROVE KnownToServer'
  <2>1. Edited(p, server[p]) # None /\ Deletion(clock') # None
    <3>1. clock' \in Nat /\ server[p] \in Records
      BY <1>7 DEF DeviceEdit, Tick, TypeOK
    <3>2. PICK b : b = (IF Active(server[p]) /\ p \in TextPaths \cup JsonPaths
                          THEN server[p].body ELSE {}) \cup {clock'}
      OBVIOUS
    <3>3. b \in SUBSET Nat
      BY <3>1, <3>2, VersionFields DEF Active, Records
    <3> QED
      BY <3>1, <3>2, <3>3, FileIsVersion, DeletionIsVersion DEF Edited
  <2>2. server'[p] # None /\ \A q \in Paths : q # p => server'[q] = server[q]
    BY <1>7, <2>1 DEF DeviceEdit, TypeOK
  <2>3. \A q \in Paths : q # p => unread'[q] = unread[q]
    BY <1>7 DEF DeviceEdit, TypeOK
  <2> QED
    BY <1>7, <2>2, <2>3 DEF DeviceEdit, KnownToServer, db
<1>8. CASE UNCHANGED vars
  BY <1>8 DEF vars, KnownToServer
<1> QED
  BY <1>1, <1>2, <1>3, <1>4, <1>5, <1>6, <1>7, <1>8, ExecuteKnown
  DEF Next, Engine, Environment

(* Every reachable remote map is known to the server.                      *)
LEMMA KnownInvariant == Spec => []KnownToServer
<1>1. Init => TypeOK /\ Backed /\ KnownToServer
  BY InitTyped DEF Init, KnownToServer, Nothing
<1>2. (TypeOK /\ Backed /\ KnownToServer) /\ [Next]_vars
        => (TypeOK /\ Backed /\ KnownToServer)'
  BY NextTyped, KnownStep
<1> QED
  BY <1>1, <1>2, PTL DEF Spec

(* The saved baseline is one on which both sides agreed, if nobody edits   *)
(* during a cycle and no single download, removal or echo goes wrong.      *)
THEOREM BaselineTheorem == Quiet => (Spec => []BaselineAgrees)
<1>1. QuietInv => BaselineAgrees
  BY DEF QuietInv
<1> QED
  BY <1>1, QuietInvariant, PTL

(* Under the same conditions no difference between the vault and the       *)
(* server is ever mistaken for the baseline.                               *)
THEOREM DivergenceTheorem == Quiet => (Spec => []NoSilentDivergence)
<1>1. QuietInv /\ KnownToServer => NoSilentDivergence
  <2> SUFFICES ASSUME QuietInv, KnownToServer, NEW p \in Paths, NextPlan(p) = "none"
               PROVE  Level(p)
    BY DEF NoSilentDivergence
  <2>1. PICK r : r = IF server[p] # None THEN server[p] ELSE Previous(dbRemote)[p]
    OBVIOUS
  <2>2. r \in Records /\ Honest(r) /\ (r = None => Previous(dbRemote)[p] = None)
    BY <2>1, PreviousAgrees DEF QuietInv, TypeOK, HonestRecords
  <2>3. /\ vault[p] \in Records /\ Honest(vault[p])
        /\ vault[p] # None => vault[p].state = "live"
    BY DEF QuietInv, TypeOK, HonestRecords
  <2>4. Agree(vault[p], r)
    BY <2>1, <2>2, <2>3, PreviousAgrees, NoActionMeansAgreement DEF NextPlan
  <2> QED
    <3>1. Previous(dbRemote)[p] # None => server[p] # None
      BY DEF KnownToServer, Previous, Nothing
    <3> QED
      BY <2>1, <2>2, <2>3, <2>4, <3>1 DEF Level, Agree, Active, Honest
<1> QED
  BY <1>1, QuietInvariant, KnownInvariant, PTL

-----------------------------------------------------------------------------
(* The first sync.  While no cycle has been saved, the plan is made as if  *)
(* nothing had been synced before, so it contains no deletion.             *)

FirstInv ==
  /\ TypeOK
  /\ Backed
  /\ \A p \in Paths : vault[p] # None => vault[p].state = "live"
  /\ \A p \in Paths : scanned[p] # None => scanned[p].state = "live"
  /\ initial /\ pc = "exec" =>
       \A p \in Paths : todo[p] \notin {"deleteLocal", "deleteRemote"}

(* A path without a past is never planned for deletion.                    *)
LEMMA NoHistoryNoDeletion ==
  ASSUME NEW p, NEW l \in Records, NEW r \in Records
  PROVE  Reconcile(p, l, None, r, None) \notin {"deleteLocal", "deleteRemote"}
<1>1. r # None => r.state \in {"live", "deleted"}
  BY VersionFields DEF Records
<1>2. l # None => Conflict(p, l, None, r, None) # "deleteRemote"
  BY <1>1 DEF Conflict, Active, Tombstone
<1>3. Conflict(p, l, None, r, None) # "deleteLocal"
  BY <1>1 DEF Conflict, Active, Tombstone
<1> QED
  BY <1>2, <1>3 DEF Reconcile, RecordChanged

(* The plan of a first sync contains no deletion.                          *)
LEMMA FirstPlan ==
  ASSUME FirstInv, PlanCycle, initial
  PROVE  \A p \in Paths : todo'[p] \notin {"deleteLocal", "deleteRemote"}
<1> TAKE p \in Paths
<1>1. TypeOK'
  BY PlanCycleTyped DEF FirstInv
<1>2. todo'[p] = Reconcile(p, scanned'[p], None, remote'[p], None)
  BY PlanIsReconcile DEF PlanCycle, Previous, Nothing
<1>3. scanned'[p] \in Records /\ remote'[p] \in Records
  BY <1>1 DEF TypeOK
<1> QED
  BY <1>2, <1>3, NoHistoryNoDeletion

(* The files stay files, whatever is done to them. *)
LEMMA WrittenLive ==
  ASSUME TypeOK, NEW p \in Paths, remote[p] # None, WriteVersion(p, remote[p])
  PROVE  /\ vault'[p] # None /\ vault'[p].state = "live"
         /\ \A q \in Paths : q # p => vault'[q] = vault[q]
<1>1. remote[p] \in Versions
  BY DEF TypeOK, Records
<1>2. PICK f : f = File(remote[p].body, remote[p].mtime)
  OBVIOUS
<1>3. f # None /\ f.state = "live"
  BY <1>1, <1>2, FileIsVersion, VersionFields
<1> QED
  BY <1>2, <1>3 DEF WriteVersion, TypeOK

(* What a merge makes is not a deletion.                                   *)
LEMMA MergedLive ==
  ASSUME FirstInv, NEW p \in Paths, Merge(p), ~MergeFallback(p)
  PROVE  /\ vault'[p] # None /\ vault'[p].state = "live" /\ scanned'[p] = vault'[p]
         /\ \A q \in Paths : q # p => vault'[q] = vault[q] /\ scanned'[q] = scanned[q]
<1>1. PICK body \in MergedBodies(p) :
        /\ vault[p] # None
        /\ scanned' = [scanned EXCEPT ![p] =
             File(body, Later(remote[p].mtime, scanned[p].mtime))]
        /\ vault' = [vault EXCEPT ![p] = scanned'[p]]
  BY DEF Merge
<1>2. remote[p] \in Versions /\ scanned[p] \in Versions /\ vault[p] \in Versions
  BY <1>1 DEF FirstInv, TypeOK, Records, Backed, Merge, Doing
<1>3. body \in SUBSET Nat /\ Later(remote[p].mtime, scanned[p].mtime) \in Nat
  BY <1>2, MergedFromBoth, LaterType, VersionFields
<1>4. PICK f : f = File(body, Later(remote[p].mtime, scanned[p].mtime))
  OBVIOUS
<1>5. f # None /\ f.state = "live"
  BY <1>3, <1>4, FileIsVersion
<1> QED
  BY <1>1, <1>4, <1>5 DEF FirstInv, TypeOK

(* One step of the engine in terms of what it does to the vault. *)
LEMMA ExecuteLive ==
  ASSUME FirstInv, NEW p \in Paths, Execute(p)
  PROVE  /\ \A q \in Paths : vault'[q] # None => vault'[q].state = "live"
         /\ \A q \in Paths : scanned'[q] # None => scanned'[q].state = "live"
         /\ \A q \in Paths : todo'[q] # todo[q] =>
              todo'[q] \in {"none", "pushMerged", "downloaded", "failed"}
         /\ initial' = initial
         /\ initial => \A q \in Paths : vault[q] # None => vault'[q] # None
<1>1. CASE Upload(p)
  <2>1. CASE vault[p] = None
    BY <1>1, <2>1 DEF Upload, StopCycle, NoPlan, Nothing, db, FirstInv
  <2>2. CASE vault[p] # None
    BY <1>1, <2>2 DEF Upload, Done, db, FirstInv, TypeOK
  <2> QED
    BY <2>1, <2>2
<1>2. CASE DeleteRemote(p)
  BY <1>2 DEF DeleteRemote, Done, db, FirstInv, TypeOK
<1>3. CASE DeleteLocal(p)
  BY <1>3 DEF DeleteLocal, Doing, Done, db, FirstInv, TypeOK
<1>4. CASE MergeFallback(p) /\ remote[p] # None /\ UNCHANGED db
  BY <1>4, WrittenLive DEF MergeFallback, Done, db, FirstInv, TypeOK
<1>5. CASE Merge(p)
  <2>1. CASE MergeFallback(p)
    BY <1>4, <1>5, <2>1 DEF Merge, Doing, FirstInv, Backed
  <2>2. CASE ~MergeFallback(p)
    BY <1>5, <2>2, MergedLive DEF Merge, db, FirstInv, TypeOK
  <2> QED
    BY <2>1, <2>2
<1>6. CASE RejectMerged(p)
  BY <1>4, <1>6 DEF RejectMerged, Doing, FirstInv, Backed
<1>7. CASE PushMerged(p)
  BY <1>7 DEF PushMerged, Done, db, FirstInv, TypeOK
<1>8. CASE Download(p)
  BY <1>8, WrittenLive DEF Download, Done, db, FirstInv, TypeOK
<1>9. CASE DownloadFails(p)
  BY <1>9 DEF DownloadFails, disk, db, FirstInv, TypeOK
<1> QED
  BY <1>1, <1>2, <1>3, <1>5, <1>6, <1>7, <1>8, <1>9 DEF Execute

(* What a push leaves on the server is a file if a file was pushed. *)
LEMMA PushedLive ==
  ASSUME TypeOK, NEW p \in Paths, NEW v, v # None, v.state = "live", Push(p, v)
  PROVE  \A q \in Paths : Active(server[q]) => Active(server'[q])
  BY DEF Push, Active, TypeOK

(* Executing a plan without deletions removes nothing from the server.     *)
LEMMA ExecuteKeepsServer ==
  ASSUME FirstInv, initial, NEW p \in Paths, Execute(p)
  PROVE  \A q \in Paths : Active(server[q]) => Active(server'[q])
<1>1. CASE Upload(p)
  <2>1. CASE vault[p] = None
    BY <1>1, <2>1 DEF Upload
  <2>2. CASE vault[p] # None
    <3>1. vault[p] \in Versions /\ scanned[p] \in Versions /\ scanned[p].state = "live"
      BY <1>1, <2>2, NoneAssumption
      DEF FirstInv, TypeOK, Records, Backed, Upload, Doing, NoneAssumption
    <3>2. PICK v : v = [scanned[p] EXCEPT !.body = vault[p].body]
      OBVIOUS
    <3>3. v # None /\ v.state = "live"
      BY <3>1, <3>2, WithBody, VersionFields
    <3> QED
      BY <1>1, <2>2, <3>2, <3>3, PushedLive DEF Upload, FirstInv
  <2> QED
    BY <2>1, <2>2
<1>2. CASE DeleteRemote(p)
  BY <1>2 DEF DeleteRemote, Doing, FirstInv
<1>3. CASE PushMerged(p)
  BY <1>3, PushedLive DEF PushMerged, Doing, FirstInv, Backed
<1>4. CASE ~Upload(p) /\ ~DeleteRemote(p) /\ ~PushMerged(p)
  BY <1>4 DEF Execute, DeleteLocal, Merge, RejectMerged, Download, DownloadFails, disk
<1> QED
  BY <1>1, <1>2, <1>3, <1>4

(* Every step keeps the invariant of a first sync.                         *)
LEMMA FirstStep ==
  ASSUME FirstInv, [Next]_vars
  PROVE  FirstInv'
<1>1. TypeOK' /\ Backed'
  BY NextTyped DEF FirstInv
<1>2. CASE Connect
  BY <1>1, <1>2 DEF Connect, FirstInv, disk, db
<1>3. CASE PlanCycle
  BY <1>1, <1>3, FirstPlan DEF PlanCycle, FirstInv, disk, db
<1>4. ASSUME NEW p \in Paths, Execute(p) PROVE FirstInv'
  <2>1. initial' /\ pc' = "exec" =>
          \A q \in Paths : todo'[q] \notin {"deleteLocal", "deleteRemote"}
    <3>1. pc = "exec"
      BY <1>4 DEF Execute, Upload, DeleteRemote, DeleteLocal, Merge, PushMerged, RejectMerged,
         Download, DownloadFails, Doing
    <3> QED
      BY <1>4, <3>1, ExecuteLive DEF FirstInv
  <2> QED
    BY <1>1, <1>4, <2>1, ExecuteLive DEF FirstInv
<1>5. CASE Rescan
  BY <1>1, <1>5 DEF Rescan, StopCycle, Nothing, FirstInv, disk, db
<1>6. CASE Save \/ Abort
  BY <1>1, <1>6 DEF Save, Abort, StopCycle, Nothing, FirstInv, disk
<1>7. ASSUME NEW p \in Paths, UserEdit(p) PROVE FirstInv'
  <2>1. PICK f : f = Edited(p, vault[p])
    OBVIOUS
  <2>2. f.state = "live"
    BY <2>1 DEF Edited, File
  <2>3. vault' = [vault EXCEPT ![p] = f] \/ vault' = [vault EXCEPT ![p] = None]
    BY <1>7, <2>1 DEF UserEdit
  <2> QED
    BY <1>1, <1>7, <2>2, <2>3 DEF UserEdit, FirstInv, TypeOK, db, cycle
<1>8. ASSUME NEW p \in Paths, DeviceEdit(p) PROVE FirstInv'
  BY <1>1, <1>8 DEF DeviceEdit, FirstInv, db
<1>9. CASE UNCHANGED vars
  BY <1>1, <1>9 DEF vars, FirstInv
<1> QED
  BY <1>2, <1>3, <1>4, <1>5, <1>6, <1>7, <1>8, <1>9 DEF Next, Engine, Environment

DeletesNothing ==
  ByEngine /\ initial => \A p \in Paths :
    /\ vault[p] # None => vault'[p] # None
    /\ Active(server[p]) => Active(server'[p])

(* Until the first sync of a vault is saved, no file is deleted on either  *)
(* side, whatever goes wrong.                                              *)
THEOREM FirstSyncTheorem == Spec => FirstSyncDeletesNothing
<1>1. Init => FirstInv
  BY InitTyped DEF Init, FirstInv, Nothing
<1>2. FirstInv /\ [Next]_vars => FirstInv'
  BY FirstStep
<1>3. ASSUME FirstInv, Next PROVE DeletesNothing
  <2> DEFINE Kept(p) == /\ vault[p] # None => vault'[p] # None
                        /\ Active(server[p]) => Active(server'[p])
  <2>1. ASSUME ByEngine, NEW q \in Paths PROVE ~UserEdit(q) /\ ~DeviceEdit(q)
    <3>1. clock' # clock + 1
      BY <1>3, <2>1 DEF ByEngine, FirstInv, TypeOK
    <3> QED
      BY <3>1 DEF UserEdit, DeviceEdit, Tick
  <2>2. CASE Connect \/ PlanCycle \/ Rescan \/ Save \/ Abort
    <3>1. \A p \in Paths : Kept(p)
      BY <2>2 DEF Connect, PlanCycle, Rescan, Save, Abort, disk
    <3> QED
      BY <3>1 DEF DeletesNothing
  <2>3. ASSUME initial, NEW q \in Paths, Execute(q) PROVE \A p \in Paths : Kept(p)
    BY <1>3, <2>3, ExecuteLive, ExecuteKeepsServer
  <2> HIDE DEF Kept
  <2>4. ASSUME ByEngine, initial PROVE \A p \in Paths : Kept(p)
    BY <1>3, <2>1, <2>2, <2>3, <2>4 DEF Next, Engine, Environment, DeletesNothing, Kept
  <2> QED
    BY <2>4 DEF DeletesNothing, Kept
<1>4. FirstInv /\ [Next]_vars => [DeletesNothing]_vars
  BY <1>3
<1>5. Spec => [][DeletesNothing]_vars
  BY <1>1, <1>2, <1>4, PTL DEF Spec
<1> QED
  BY <1>5 DEF FirstSyncDeletesNothing, DeletesNothing

-----------------------------------------------------------------------------
(* What the engine's own steps may do.  The plan is made from what is in   *)
(* the vault and on the server; while nobody edits during a cycle it stays *)
(* true of them, entry by entry, until the entry is executed.  And what    *)
(* differs from the baseline is new: it has text the baseline does not     *)
(* have, and is not older.                                                 *)

(* A version holds no edit, and has no time, that is still to come.        *)
Dated(r, now) == r # None => r.mtime <= now /\ \A n \in r.body : n <= now

(* A local file is what its record says, and a deletion has no text.       *)
LocalFile(r) == Honest(r) /\ (r # None => r.state = "live")
Bare(r) == Tombstone(r) => r.body = {}

Adds(before, now) == \E n \in now.body : n \notin Body(before)

(* The files v in the vault and s on the server against the baseline, dl   *)
(* and dr.                                                                 *)
Advanced(v, s, dl, dr) ==
  /\ v # None /\ RecordChanged(dl, v) =>
       Adds(dl, v) /\ (dr # None => v.mtime >= dr.mtime)
  /\ Active(s) /\ RecordChanged(dr, s) => Adds(dr, s)
  /\ dr # None => s # None /\ s.mtime >= dr.mtime

Planned == Actions \ {"none"}

(* What the cycle holds, scan sc, session's record r and plan entry td,    *)
(* against the files.                                                      *)
InTouch(p, v, s, sc, r, td, dl, dr, at) ==
  /\ at = "connected" => r = s
  /\ at \in {"exec", "save"} => r = s \/ (r = None /\ ~Active(s))
  /\ at = "save" => sc = v
  /\ at = "exec" /\ td \in Planned =>
       r = s /\ sc = v /\ td = Reconcile(p, v, dl, s, dr)
  /\ at = "exec" /\ td = "pushMerged" =>
       /\ r = s /\ sc = v /\ v # None
       /\ v.mtime >= s.mtime /\ Adds(dl, v) /\ RecordChanged(dr, s)

Fresh(p, v, s, sc, r, td, dl, dr, at, now) ==
  /\ Dated(v, now) /\ Dated(s, now) /\ Dated(dl, now) /\ Dated(dr, now)
  /\ LocalFile(dl) /\ Bare(s) /\ Bare(dr)
  /\ Advanced(v, s, dl, dr)
  /\ InTouch(p, v, s, sc, r, td, dl, dr, at)

FreshInv ==
  /\ initial => dbLocal = Nothing /\ dbRemote = Nothing
  /\ \A p \in Paths : Fresh(p, vault[p], server[p], scanned[p], remote[p], todo[p],
                            dbLocal[p], dbRemote[p], pc, clock)

(* The two sides of a baseline hold the same text. *)
LEMMA BaselineBody ==
  ASSUME NEW dl \in Records, NEW dr \in Records, Agree(dl, dr), LocalFile(dl), Honest(dr), Bare(dr)
  PROVE  Body(dl) = Body(dr)
<1>1. dr # None => dr.state \in {"live", "deleted"}
  BY VersionFields DEF Records
<1> QED
  BY <1>1 DEF Agree, LocalFile, Honest, Bare, Body, Active, Tombstone

(* Why the planner chooses an action, in terms of what changed since the   *)
(* last sync.                                                              *)
Reasons(p, l, pl, r, pr, a) ==
  /\ a # "none" => ~SameContent(l, r)
  /\ a = "upload" =>
       /\ RecordChanged(pl, l)
       /\ Active(r) => ~RecordChanged(pr, r) \/ l.mtime > r.mtime
  /\ a = "deleteRemote" => l = None /\ Active(r)
  /\ a = "deleteLocal" => Tombstone(r) /\ l # None /\ ~RecordChanged(pl, l)
  /\ a = "download" =>
       /\ Active(r) /\ RecordChanged(pr, r)
       /\ \/ ~RecordChanged(pl, l)
          \/ l = None
          \/ p \notin TextPaths \cup JsonPaths /\ r.mtime >= l.mtime
  /\ a \in {"mergeText", "mergeJSON"} =>
       /\ Active(r) /\ RecordChanged(pr, r) /\ RecordChanged(pl, l) /\ l # None
       /\ p \in TextPaths \/ p \in JsonPaths

(* The planner has a reason for everything it plans.                       *)
LEMMA PlannedFor ==
  ASSUME NEW p, NEW l \in Records, NEW pl \in Records, NEW r \in Records, NEW pr \in Records,
         NEW a, a = Reconcile(p, l, pl, r, pr)
  PROVE  Reasons(p, l, pl, r, pr, a)
<1>1. r # None => r.state \in {"live", "deleted"} /\ r.mtime \in Nat
  BY VersionFields DEF Records
<1>2. l # None => l.mtime \in Nat
  BY VersionFields DEF Records
<1>3. ASSUME NEW c, c = Conflict(p, l, pl, r, pr), ~SameContent(l, r)
      PROVE  /\ c = "upload" /\ Active(r) => l.mtime > r.mtime
             /\ c = "deleteRemote" => l = None /\ Active(r)
             /\ c # "deleteLocal"
             /\ c \in {"download", "mergeText", "mergeJSON"} => Active(r)
             /\ c = "download" => \/ l = None
                                  \/ p \notin TextPaths \cup JsonPaths /\ r.mtime >= l.mtime
             /\ c \in {"mergeText", "mergeJSON"} => l # None /\ (p \in TextPaths \/ p \in JsonPaths)
  <2>1. ASSUME Active(r), l # None
        PROVE  /\ ChooseRemote(l, pl, r, pr) => r.mtime >= l.mtime
               /\ ~ChooseRemote(l, pl, r, pr) => l.mtime > r.mtime
    BY <1>1, <1>2, <1>3, <2>1 DEF ChooseRemote, LastTime, SameContent, Active, Tombstone
  <2> QED
    BY <1>1, <1>3, <2>1 DEF Conflict, Tombstone, Active
<1> QED
  BY <1>1, <1>3 DEF Reconcile, Reasons

(* Ending a cycle, or beginning one, breaks no promise of the plan.        *)
LEMMA FreshStop ==
  ASSUME NEW p, NEW v, NEW s, NEW sc, NEW r, NEW td, NEW dl, NEW dr, NEW at, NEW now,
         Fresh(p, v, s, sc, r, td, dl, dr, at, now)
  PROVE  /\ Fresh(p, v, s, None, None, "none", dl, dr, "idle", now)
         /\ Fresh(p, v, s, sc, s, td, dl, dr, "connected", now)
  BY DEF Fresh, InTouch

(* A new plan says what Reconcile answers about the files as they are.     *)
LEMMA FreshPlan ==
  ASSUME NEW p, NEW v, NEW s, NEW sc, NEW r, NEW td, NEW dl, NEW dr, NEW now,
         Fresh(p, v, s, sc, r, td, dl, dr, "connected", now),
         NEW r2, r2 = (IF r # None THEN r ELSE dr),
         NEW a, a = Reconcile(p, v, dl, r2, dr), a # "pushMerged"
  PROVE  Fresh(p, v, s, v, r2, a, dl, dr, "exec", now)
<1>1. r2 = s
  BY DEF Fresh, InTouch, Advanced
<1> QED
  BY <1>1 DEF Fresh, InTouch

(* Time passes. *)
LEMMA FreshLater ==
  ASSUME NEW p, NEW v \in Records, NEW s \in Records, NEW sc, NEW r, NEW td,
         NEW dl \in Records, NEW dr \in Records, NEW at, NEW now \in Nat,
         Fresh(p, v, s, sc, r, td, dl, dr, at, now)
  PROVE  Fresh(p, v, s, sc, r, td, dl, dr, at, now + 1)
<1>1. ASSUME NEW x \in Records, Dated(x, now) PROVE Dated(x, now + 1)
  <2>1. x # None => x.mtime \in Nat /\ x.body \in SUBSET Nat
    BY VersionFields DEF Records
  <2>2. \A n \in Nat : n <= now => n <= now + 1
    OBVIOUS
  <2> QED
    BY <1>1, <2>1, <2>2 DEF Dated
<1> QED
  BY <1>1 DEF Fresh

(* What an edit writes is new to the baseline.                             *)
LEMMA NewlyDated ==
  ASSUME NEW now \in Nat, NEW x \in Records, x # None, x.mtime = now + 1, now + 1 \in x.body,
         \A n \in x.body : n <= now + 1
  PROVE  /\ Dated(x, now + 1)
         /\ \A b \in Records : Dated(b, now) => Adds(b, x) /\ (b # None => x.mtime >= b.mtime)
<1>1. Dated(x, now + 1)
  BY DEF Dated
<1>2. ASSUME NEW b \in Records, Dated(b, now) PROVE Adds(b, x) /\ (b # None => x.mtime >= b.mtime)
  <2>1. b # None => b.mtime \in Nat /\ b.body \in SUBSET Nat
    BY VersionFields DEF Records
  <2>2. \A n \in Nat : n <= now => n # now + 1 /\ now + 1 >= n
    OBVIOUS
  <2> QED
    BY <1>2, <2>1, <2>2 DEF Adds, Body, Dated
<1> QED
  BY <1>1, <1>2

(* An edit of the vault between cycles ...                                 *)
LEMMA FreshUserEdit ==
  ASSUME NEW p, NEW v \in Records, NEW s \in Records, NEW sc, NEW r, NEW td,
         NEW dl \in Records, NEW dr \in Records, NEW now \in Nat,
         Fresh(p, v, s, sc, r, td, dl, dr, "idle", now),
         NEW x \in Records,
         x # None => x.mtime = now + 1 /\ now + 1 \in x.body /\ \A n \in x.body : n <= now + 1
  PROVE  Fresh(p, x, s, sc, r, td, dl, dr, "idle", now + 1)
<1>1. Fresh(p, v, s, sc, r, td, dl, dr, "idle", now + 1)
  BY FreshLater
<1>2. Dated(dl, now) /\ Dated(dr, now)
  BY DEF Fresh
<1>3. Dated(x, now + 1) /\ (x # None => Adds(dl, x) /\ (dr # None => x.mtime >= dr.mtime))
  <2>1. CASE x = None
    BY <2>1 DEF Dated
  <2>2. CASE x # None
    BY <1>2, <2>2, NewlyDated
  <2> QED
    BY <2>1, <2>2
<1> QED
  BY <1>1, <1>3 DEF Fresh, InTouch, Advanced

(* ... and one of the server's copy.                                       *)
LEMMA FreshDeviceEdit ==
  ASSUME NEW p, NEW v \in Records, NEW s \in Records, NEW sc, NEW r, NEW td,
         NEW dl \in Records, NEW dr \in Records, NEW now \in Nat,
         Fresh(p, v, s, sc, r, td, dl, dr, "idle", now),
         NEW x \in Records, x # None, x.mtime = now + 1, \A n \in x.body : n <= now + 1,
         \/ x.state = "live" /\ now + 1 \in x.body
         \/ x.state = "deleted" /\ x.body = {}
  PROVE  Fresh(p, v, x, sc, r, td, dl, dr, "idle", now + 1)
<1>1. Fresh(p, v, s, sc, r, td, dl, dr, "idle", now + 1)
  BY FreshLater
<1>2. Dated(x, now + 1)
  BY DEF Dated
<1>3. Bare(x)
  BY DEF Bare, Tombstone
<1>4. Active(x) => Adds(dr, x)
  BY NewlyDated DEF Fresh, Active
<1>5. dr # None => x.mtime >= dr.mtime
  <2>1. dr # None => dr.mtime \in Nat /\ dr.mtime <= now
    BY VersionFields DEF Fresh, Dated, Records
  <2> QED
    BY <2>1
<1>6. Advanced(v, x, dl, dr)
  BY <1>4, <1>5 DEF Fresh, Advanced
<1> QED
  BY <1>1, <1>2, <1>3, <1>6 DEF Fresh, InTouch

(* An upload makes the server's file the one of the vault ...              *)
LEMMA FreshUpload ==
  ASSUME NEW p, NEW v \in Records, NEW s \in Records, NEW sc, NEW r,
         NEW dl \in Records, NEW dr \in Records, NEW now,
         Fresh(p, v, s, sc, r, "upload", dl, dr, "exec", now),
         Agree(dl, dr), Honest(dr), v # None, v.state = "live"
  PROVE  Fresh(p, v, v, sc, v, "none", dl, dr, "exec", now)
<1>1. RecordChanged(dl, v)
  BY PlannedFor DEF Reasons, Fresh, InTouch, Planned, Actions
<1>2. Adds(dl, v) /\ (dr # None => v.mtime >= dr.mtime)
  BY <1>1 DEF Fresh, Advanced
<1>3. Adds(dr, v)
  BY <1>2, BaselineBody DEF Fresh, Adds
<1>4. Bare(v)
  BY DEF Bare, Tombstone
<1> QED
  BY <1>1, <1>2, <1>3, <1>4 DEF Fresh, Advanced, InTouch, Planned

(* ... and so does the push of a merged file.                              *)
LEMMA FreshPushMerged ==
  ASSUME NEW p, NEW v \in Records, NEW s \in Records, NEW sc, NEW r,
         NEW dl \in Records, NEW dr \in Records, NEW now,
         Fresh(p, v, s, sc, r, "pushMerged", dl, dr, "exec", now),
         Agree(dl, dr), Honest(dr), v # None, v.state = "live", Active(s)
  PROVE  Fresh(p, v, v, sc, v, "none", dl, dr, "exec", now)
<1>1. Adds(dl, v) /\ v.mtime >= s.mtime
  BY DEF Fresh, InTouch
<1>2. dr # None => v.mtime >= dr.mtime
  <2>1. dr # None => s.mtime >= dr.mtime /\ dr.mtime \in Nat
    BY VersionFields DEF Fresh, Advanced, Records
  <2>2. s.mtime \in Nat /\ v.mtime \in Nat
    BY VersionFields DEF Records, Active
  <2> QED
    BY <1>1, <2>1, <2>2
<1>3. Adds(dr, v)
  BY <1>1, BaselineBody DEF Fresh, Adds
<1>4. Bare(v)
  BY DEF Bare, Tombstone
<1> QED
  BY <1>1, <1>2, <1>3, <1>4 DEF Fresh, Advanced, InTouch, Planned

(* A deletion on the server.                                               *)
LEMMA FreshDeleteRemote ==
  ASSUME NEW p, NEW v \in Records, NEW s, NEW sc, NEW r, NEW td, NEW dl,
         NEW dr \in Records, NEW now \in Nat,
         Fresh(p, v, s, sc, r, td, dl, dr, "exec", now)
  PROVE  Fresh(p, v, Deletion(now), sc, None, "none", dl, dr, "exec", now)
<1>1. PICK x : x = Deletion(now)
  OBVIOUS
<1>2. x # None /\ x.body = {} /\ x.state = "deleted" /\ x.mtime = now
  BY <1>1, DeletionIsVersion DEF Deletion
<1>3. dr # None => x.mtime >= dr.mtime
  <2>1. dr # None => dr.mtime \in Nat /\ dr.mtime <= now
    BY VersionFields DEF Fresh, Dated, Records
  <2> QED
    BY <1>2, <2>1
<1>4. Dated(x, now) /\ Bare(x) /\ ~Active(x)
  BY <1>2 DEF Dated, Bare, Active
<1>5. Fresh(p, v, x, sc, None, "none", dl, dr, "exec", now)
  BY <1>2, <1>3, <1>4 DEF Fresh, Advanced, InTouch, Planned
<1> QED
  BY <1>1, <1>5

(* A deletion in the vault.                                                *)
LEMMA FreshDeleteLocal ==
  ASSUME NEW p, NEW v \in Records, NEW s \in Records, NEW sc, NEW r,
         NEW dl \in Records, NEW dr \in Records, NEW now,
         Fresh(p, v, s, sc, r, "deleteLocal", dl, dr, "exec", now)
  PROVE  Fresh(p, None, s, None, None, "none", dl, dr, "exec", now)
<1>1. Tombstone(s)
  BY PlannedFor DEF Reasons, Fresh, InTouch, Planned, Actions
<1>2. ~Active(s)
  BY <1>1 DEF Active, Tombstone
<1> QED
  BY <1>2 DEF Fresh, Advanced, InTouch, Planned, Dated

(* Writing the server's version to the vault.                              *)
LEMMA FreshWrite ==
  ASSUME NEW p, NEW v \in Records, NEW s \in Records, NEW sc, NEW r,
         NEW td \in {"download", "mergeText", "mergeJSON", "pushMerged"},
         NEW dl \in Records, NEW dr \in Records, NEW now,
         Fresh(p, v, s, sc, r, td, dl, dr, "exec", now),
         Agree(dl, dr), Honest(dr), Active(s), NEW done \in {"none", "downloaded"}
  PROVE  Fresh(p, File(r.body, r.mtime), s, sc, r, done, dl, dr, "exec", now)
<1>1. r = s
  BY DEF Fresh, InTouch, Planned, Actions
<1>2. RecordChanged(dr, s)
  <2>1. CASE td = "pushMerged"
    BY <2>1 DEF Fresh, InTouch
  <2>2. CASE td # "pushMerged"
    BY <2>2, PlannedFor DEF Reasons, Fresh, InTouch, Planned, Actions
  <2> QED
    BY <2>1, <2>2
<1>3. Adds(dr, s) /\ (dr # None => s.mtime >= dr.mtime)
  BY <1>2 DEF Fresh, Advanced
<1>4. Adds(dl, s)
  BY <1>3, BaselineBody DEF Fresh, Adds
<1>5. PICK x : x = File(s.body, s.mtime)
  OBVIOUS
<1>6. s \in Versions /\ s # None
  BY DEF Active, Records
<1>7. x # None /\ x.body = s.body /\ x.mtime = s.mtime
  BY <1>5, <1>6, FileIsVersion, VersionFields
<1>8. Dated(x, now) /\ Adds(dl, x)
  BY <1>4, <1>6, <1>7 DEF Fresh, Dated, Adds
<1>9. Fresh(p, x, s, sc, r, done, dl, dr, "exec", now)
  BY <1>3, <1>7, <1>8 DEF Fresh, Advanced, InTouch, Planned, Actions
<1> QED
  BY <1>1, <1>5, <1>9

(* A merge that succeeds: what it makes has something new, and is no older *)
(* than the server's version.                                              *)
LEMMA FreshMerge ==
  ASSUME NEW p, NEW v \in Records, NEW s \in Records, NEW sc \in Records, NEW r,
         NEW td \in {"mergeText", "mergeJSON"},
         NEW dl \in Records, NEW dr \in Records, NEW now \in Nat,
         Fresh(p, v, s, sc, r, td, dl, dr, "exec", now), Active(s),
         NEW body \in SUBSET Nat, body \subseteq v.body \cup s.body, \E n \in body : n \notin Body(dl),
         NEW x \in Records, x = File(body, Later(r.mtime, sc.mtime))
  PROVE  Fresh(p, x, s, x, r, "pushMerged", dl, dr, "exec", now)
<1>1. r = s /\ sc = v /\ v # None /\ RecordChanged(dr, s)
  BY PlannedFor DEF Reasons, Fresh, InTouch, Planned, Actions
<1>2. v \in Versions /\ s \in Versions /\ s # None
  BY <1>1 DEF Active, Records
<1>3. v.mtime \in Nat /\ s.mtime \in Nat /\ v.body \in SUBSET Nat /\ s.body \in SUBSET Nat
  BY <1>2, VersionFields
<1>4. PICK t : t = Later(s.mtime, v.mtime)
  OBVIOUS
<1>5. v.mtime <= now /\ s.mtime <= now /\ \A n \in v.body \cup s.body : n <= now
  BY <1>1, <1>2 DEF Fresh, Dated
<1>6. t \in Nat /\ t >= s.mtime /\ t <= now
  BY <1>3, <1>4, <1>5 DEF Later
<1>7. x # None /\ x.body = body /\ x.mtime = t
  BY <1>1, <1>4, <1>6, FileIsVersion
<1>8. Dated(x, now) /\ Adds(dl, x)
  BY <1>5, <1>6, <1>7 DEF Dated, Adds
<1>9. dr # None => x.mtime >= dr.mtime
  <2>1. dr # None => s.mtime >= dr.mtime /\ dr.mtime \in Nat
    BY VersionFields DEF Fresh, Advanced, Records
  <2> QED
    BY <1>3, <1>6, <1>7, <2>1
<1>10. Advanced(x, s, dl, dr)
  BY <1>8, <1>9 DEF Fresh, Advanced
<1>11. InTouch(p, x, s, x, r, "pushMerged", dl, dr, "exec")
  BY <1>1, <1>6, <1>7, <1>8 DEF InTouch, Planned, Actions
<1> QED
  BY <1>8, <1>10, <1>11 DEF Fresh

(* The second scan finds what the plan has left ...                        *)
LEMMA FreshRescan ==
  ASSUME NEW p, NEW v, NEW s, NEW sc, NEW r, NEW td, NEW dl, NEW dr, NEW now,
         Fresh(p, v, s, sc, r, td, dl, dr, "exec", now)
  PROVE  Fresh(p, v, s, v, r, "none", dl, dr, "save", now)
  BY DEF Fresh, InTouch, Planned

(* ... and that is the next baseline.                                      *)
LEMMA FreshSave ==
  ASSUME NEW p, NEW v \in Records, NEW s \in Records, NEW sc, NEW r, NEW td,
         NEW dl, NEW dr, NEW now,
         Fresh(p, v, s, sc, r, td, dl, dr, "save", now), LocalFile(v)
  PROVE  Fresh(p, v, s, None, None, "none", sc, r, "idle", now)
<1>1. sc = v /\ (r = s \/ (r = None /\ ~Active(s)))
  BY DEF Fresh, InTouch
<1>2. ~RecordChanged(v, v) /\ ~RecordChanged(s, s)
  BY DEF RecordChanged
<1>3. r # None => s # None /\ s.mtime >= r.mtime
  <2>1. s # None => s.mtime \in Nat
    BY VersionFields DEF Records
  <2> QED
    BY <1>1, <2>1
<1>4. Advanced(v, s, v, r)
  BY <1>1, <1>2, <1>3 DEF Advanced
<1>5. Dated(r, now) /\ Bare(r)
  BY <1>1 DEF Fresh, Dated, Bare, Tombstone
<1> QED
  BY <1>1, <1>4, <1>5 DEF Fresh, InTouch

(* An action that concerns one path is looked at for that path only. *)
LEMMA FreshElsewhere ==
  ASSUME FreshInv, NEW p \in Paths, UNCHANGED <<dbLocal, dbRemote, initial, pc, clock>>,
         \A q \in Paths : q # p =>
           /\ vault'[q] = vault[q] /\ server'[q] = server[q] /\ scanned'[q] = scanned[q]
           /\ remote'[q] = remote[q] /\ todo'[q] = todo[q],
         Fresh(p, vault'[p], server'[p], scanned'[p], remote'[p], todo'[p],
               dbLocal[p], dbRemote[p], pc, clock)
  PROVE  FreshInv'
<1> SUFFICES ASSUME NEW q \in Paths
    PROVE  Fresh(q, vault'[q], server'[q], scanned'[q], remote'[q], todo'[q],
                 dbLocal[q], dbRemote[q], pc, clock)
  BY DEF FreshInv
<1>1. CASE q = p
  BY <1>1
<1>2. CASE q # p
  BY <1>2 DEF FreshInv
<1> QED
  BY <1>1, <1>2

(* What is known of a path while the plan is executed. *)
LEMMA FreshPath ==
  ASSUME QuietInv, FreshInv, NEW p \in Paths
  PROVE  /\ vault[p] \in Records /\ server[p] \in Records /\ scanned[p] \in Records
         /\ remote[p] \in Records /\ dbLocal[p] \in Records /\ dbRemote[p] \in Records
         /\ clock \in Nat
         /\ Agree(dbLocal[p], dbRemote[p]) /\ Honest(dbRemote[p])
         /\ LocalFile(vault[p])
         /\ Fresh(p, vault[p], server[p], scanned[p], remote[p], todo[p],
                  dbLocal[p], dbRemote[p], pc, clock)
  BY DEF QuietInv, FreshInv, TypeOK, BaselineAgrees, HonestRecords, LocalFile

(* The session's record of a path with an entry in the plan is the         *)
(* server's.                                                               *)
LEMMA PlannedInTouch ==
  ASSUME QuietInv, FreshInv, NEW p \in Paths, pc = "exec",
         todo[p] \in Planned \cup {"pushMerged"}
  PROVE  /\ remote[p] = server[p] /\ scanned[p] = vault[p]
         /\ todo[p] \in Planned =>
              todo[p] = Reconcile(p, vault[p], dbLocal[p], server[p], dbRemote[p])
<1>1. InTouch(p, vault[p], server[p], scanned[p], remote[p], todo[p],
              dbLocal[p], dbRemote[p], pc)
  BY FreshPath DEF Fresh
<1> QED
  BY <1>1 DEF InTouch

(* An upload pushes the file of the vault as it is. *)
LEMMA QuietUpload ==
  ASSUME Quiet, QuietInv, FreshInv, NEW p \in Paths, Upload(p)
  PROVE  /\ pc = "exec" /\ todo[p] = "upload" /\ vault[p] # None /\ vault[p].state = "live"
         /\ server' = [server EXCEPT ![p] = vault[p]]
         /\ remote' = [remote EXCEPT ![p] = vault[p]]
         /\ todo' = [todo EXCEPT ![p] = "none"]
         /\ UNCHANGED <<vault, scanned, db, pc, clock>>
<1>1. pc = "exec" /\ todo[p] = "upload" /\ vault[p] # None /\ scanned[p] = vault[p]
  BY DEF Upload, Doing, QuietInv, PlanSound
<1>2. vault[p] \in Versions /\ vault[p].state = "live"
  BY <1>1 DEF QuietInv, TypeOK, Records, HonestRecords
<1>3. [scanned[p] EXCEPT !.body = vault[p].body] = vault[p]
  BY <1>1, <1>2 DEF Versions
<1>4. Push(p, vault[p]) /\ Done(p) /\ UNCHANGED <<vault, scanned, db, pc, clock>>
  BY <1>1, <1>3 DEF Upload
<1> QED
  BY <1>1, <1>2, <1>4, QuietPush DEF Done

(* So does the push of what was merged. *)
LEMMA QuietPushMerged ==
  ASSUME Quiet, QuietInv, FreshInv, NEW p \in Paths, PushMerged(p)
  PROVE  /\ pc = "exec" /\ todo[p] = "pushMerged" /\ vault[p] # None /\ vault[p].state = "live"
         /\ Active(server[p])
         /\ server' = [server EXCEPT ![p] = vault[p]]
         /\ remote' = [remote EXCEPT ![p] = vault[p]]
         /\ todo' = [todo EXCEPT ![p] = "none"]
         /\ UNCHANGED <<vault, scanned, db, pc, clock>>
<1>1. pc = "exec" /\ todo[p] = "pushMerged" /\ vault[p] # None /\ scanned[p] = vault[p]
  BY DEF PushMerged, Doing, QuietInv, PlanSound
<1>2. vault[p] \in Versions /\ vault[p].state = "live"
  BY <1>1 DEF QuietInv, TypeOK, Records, HonestRecords
<1>3. Active(server[p])
  BY <1>1, PlannedInTouch DEF QuietInv, PlanSound
<1>4. Push(p, vault[p]) /\ Done(p) /\ UNCHANGED <<vault, scanned, db, pc, clock>>
  BY <1>1 DEF PushMerged
<1> QED
  BY <1>1, <1>2, <1>3, <1>4, QuietPush DEF Done

(* And a deletion on the server concerns that path only. *)
LEMMA QuietDeleteRemote ==
  ASSUME Quiet, QuietInv, FreshInv, NEW p \in Paths, DeleteRemote(p)
  PROVE  /\ pc = "exec" /\ todo[p] = "deleteRemote"
         /\ server' = [server EXCEPT ![p] = Deletion(clock)]
         /\ remote' = [remote EXCEPT ![p] = None]
         /\ todo' = [todo EXCEPT ![p] = "none"]
         /\ UNCHANGED <<vault, scanned, db, pc, clock>>
<1>1. Absorbed = remote
  BY DEF Absorbed, QuietInv, Nothing, TypeOK
<1> QED
  BY <1>1 DEF DeleteRemote, Doing, Done

(* Every push, and every deletion, keeps the rest of the plan true.        *)
LEMMA PushesFresh ==
  ASSUME Quiet, QuietInv, FreshInv, NEW p \in Paths,
         Upload(p) \/ PushMerged(p) \/ DeleteRemote(p) \/ DeleteLocal(p)
  PROVE  FreshInv'
<1>1. ASSUME Upload(p) \/ PushMerged(p)
      PROVE  /\ pc = "exec"
             /\ server' = [server EXCEPT ![p] = vault[p]]
             /\ remote' = [remote EXCEPT ![p] = vault[p]]
             /\ todo' = [todo EXCEPT ![p] = "none"]
             /\ UNCHANGED <<vault, scanned, dbLocal, dbRemote, initial, pc, clock>>
             /\ Fresh(p, vault[p], vault[p], scanned[p], vault[p], "none",
                      dbLocal[p], dbRemote[p], "exec", clock)
  <2>1. CASE Upload(p)
    BY <2>1, QuietUpload, FreshPath, FreshUpload DEF db
  <2>2. CASE PushMerged(p)
    BY <2>2, QuietPushMerged, FreshPath, FreshPushMerged DEF db
  <2> QED
    BY <1>1, <2>1, <2>2
<1>2. CASE Upload(p) \/ PushMerged(p)
  BY <1>1, <1>2, FreshElsewhere DEF QuietInv, TypeOK
<1>3. CASE DeleteRemote(p)
  <2>1. Fresh(p, vault[p], Deletion(clock), scanned[p], None, "none",
              dbLocal[p], dbRemote[p], "exec", clock)
    BY <1>3, QuietDeleteRemote, FreshPath, FreshDeleteRemote
  <2>2. PICK d : d = Deletion(clock)
    OBVIOUS
  <2> QED
    BY <1>3, <2>1, <2>2, QuietDeleteRemote, FreshElsewhere DEF QuietInv, TypeOK, db
<1>4. CASE DeleteLocal(p)
  <2>1. /\ pc = "exec" /\ todo[p] = "deleteLocal"
        /\ vault' = [vault EXCEPT ![p] = None]
        /\ remote' = [remote EXCEPT ![p] = None]
        /\ scanned' = [scanned EXCEPT ![p] = None]
        /\ todo' = [todo EXCEPT ![p] = "none"]
        /\ UNCHANGED <<server, dbLocal, dbRemote, initial, pc, clock>>
    BY <1>4 DEF DeleteLocal, Doing, Done, Quiet, db
  <2>2. Fresh(p, None, server[p], None, None, "none", dbLocal[p], dbRemote[p], "exec", clock)
    BY <2>1, FreshPath, FreshDeleteLocal
  <2> QED
    BY <2>1, <2>2, FreshElsewhere DEF QuietInv, TypeOK
<1> QED
  BY <1>2, <1>3, <1>4

(* What a merge adds to the base stays: it holds something new. *)
LEMMA MergedAdds ==
  ASSUME QuietInv, FreshInv, NEW p \in Paths, pc = "exec", todo[p] \in {"mergeText", "mergeJSON"},
         p \in TextPaths => Base(p) # None, NEW body \in MergedBodies(p)
  PROVE  \E n \in body : n \notin Body(dbLocal[p])
<1>1. /\ remote[p] = server[p]
      /\ todo[p] = Reconcile(p, vault[p], dbLocal[p], server[p], dbRemote[p])
  BY PlannedInTouch DEF Planned, Actions
<1>2. /\ vault[p] # None /\ RecordChanged(dbLocal[p], vault[p])
      /\ Active(server[p]) /\ RecordChanged(dbRemote[p], server[p])
  BY <1>1, FreshPath, PlannedFor DEF Reasons
<1>3. Body(dbLocal[p]) = Body(dbRemote[p])
  BY FreshPath, BaselineBody DEF Fresh
<1>4. Adds(dbLocal[p], vault[p]) /\ Adds(dbRemote[p], server[p])
  BY <1>2, FreshPath DEF Fresh, Advanced
<1>5. CASE p \in TextPaths
  <2>1. Base(p) # None /\ Base(p) = dbRemote[p]
    BY <1>5 DEF Base, Previous, Nothing
  <2>2. Body(dbLocal[p]) = Base(p).body
    BY <1>3, <2>1 DEF Body
  <2> QED
    BY <1>4, <1>5, <2>2 DEF MergedBodies, Adds
<1>6. CASE p \notin TextPaths
  BY <1>1, <1>3, <1>4, <1>6 DEF MergedBodies, Adds
<1> QED
  BY <1>5, <1>6

(* Writing the server's version to the vault keeps the plan true ...       *)
LEMMA WriteFresh ==
  ASSUME QuietInv, FreshInv, NEW p \in Paths, pc = "exec",
         todo[p] \in {"download", "mergeText", "mergeJSON", "pushMerged"},
         WriteVersion(p, remote[p]), NEW s \in {"none", "downloaded"},
         todo' = [todo EXCEPT ![p] = s],
         UNCHANGED <<server, db, pc, scanned, remote, clock>>
  PROVE  FreshInv'
<1>1. Active(server[p])
  BY PlannedInTouch DEF QuietInv, PlanSound, Planned, Actions
<1>2. Fresh(p, File(remote[p].body, remote[p].mtime), server[p], scanned[p], remote[p], s,
            dbLocal[p], dbRemote[p], "exec", clock)
  BY <1>1, FreshPath, FreshWrite
<1>3. PICK f : f = File(remote[p].body, remote[p].mtime)
  OBVIOUS
<1>4. vault' = [vault EXCEPT ![p] = f]
  BY <1>3 DEF WriteVersion
<1> QED
  BY <1>2, <1>3, <1>4, FreshElsewhere DEF QuietInv, TypeOK, db

(* ... and so does a merge.                                                *)
LEMMA MergeFresh ==
  ASSUME Quiet, QuietInv, FreshInv, NEW p \in Paths, Merge(p)
  PROVE  FreshInv'
<1>1. /\ pc = "exec" /\ todo[p] \in {"mergeText", "mergeJSON"}
      /\ UNCHANGED <<server, db, pc, remote, clock>>
  BY DEF Merge, Doing
<1>2. CASE MergeFallback(p)
  BY <1>1, <1>2, WriteFresh DEF MergeFallback, Done
<1>3. ASSUME p \in TextPaths => Base(p) # None, NEW body \in MergedBodies(p),
             scanned' = [scanned EXCEPT ![p] =
               File(body, Later(remote[p].mtime, scanned[p].mtime))],
             vault' = [vault EXCEPT ![p] = scanned'[p]],
             todo' = [todo EXCEPT ![p] = "pushMerged"]
      PROVE  FreshInv'
  <2>1. remote[p] = server[p] /\ scanned[p] = vault[p]
    BY <1>1, PlannedInTouch DEF Planned, Actions
  <2>2. Active(server[p]) /\ vault[p] # None
    BY <1>1, <2>1 DEF QuietInv, PlanSound
  <2>3. vault[p] \in Versions /\ remote[p] \in Versions
    BY <2>1, <2>2, FreshPath DEF Active, Records
  <2>4. body \in SUBSET Nat /\ body \subseteq vault[p].body \cup server[p].body
    BY <2>1, <2>3, MergedFromBoth, VersionFields
  <2>5. \E n \in body : n \notin Body(dbLocal[p])
    BY <1>1, <1>3, MergedAdds
  <2>6. Later(remote[p].mtime, scanned[p].mtime) \in Nat
    BY <2>1, <2>3, LaterType, VersionFields
  <2>7. PICK f : f = File(body, Later(remote[p].mtime, scanned[p].mtime))
    OBVIOUS
  <2>8. f \in Records
    BY <2>4, <2>6, <2>7, FileIsVersion DEF Records
  <2>9. Fresh(p, f, server[p], f, remote[p], "pushMerged", dbLocal[p], dbRemote[p], "exec", clock)
    BY <1>1, <2>2, <2>4, <2>5, <2>7, <2>8, FreshPath, FreshMerge
  <2>10. scanned' = [scanned EXCEPT ![p] = f] /\ vault' = [vault EXCEPT ![p] = f]
    BY <1>3, <2>7 DEF QuietInv, TypeOK
  <2> QED
    BY <1>1, <1>3, <2>9, <2>10, FreshElsewhere DEF QuietInv, TypeOK, db
<1> QED
  BY <1>2, <1>3 DEF Merge

(* The end of a cycle, wherever it comes, and its beginning.               *)
LEMMA CycleFresh ==
  ASSUME Quiet, QuietInv, FreshInv, Connect \/ PlanCycle \/ Rescan \/ Save \/ Abort
  PROVE  FreshInv'
<1>1. CASE Connect
  <2>1. \A p \in Paths : Fresh(p, vault[p], server[p], scanned[p], server[p], todo[p],
                               dbLocal[p], dbRemote[p], "connected", clock)
    BY FreshStop DEF FreshInv
  <2> QED
    BY <1>1, <2>1 DEF Connect, FreshInv, disk, db
<1>2. CASE PlanCycle
  <2>1. Previous(dbLocal) = dbLocal /\ Previous(dbRemote) = dbRemote
    BY DEF Previous, FreshInv
  <2>2. todo' = [q \in Paths |-> Reconcile(q, scanned'[q], dbLocal[q], remote'[q], dbRemote[q])]
    BY <1>2, <2>1, PlanIsReconcile DEF PlanCycle
  <2>3. ASSUME NEW p \in Paths
        PROVE  Fresh(p, vault[p], server[p], vault[p], remote'[p], todo'[p],
                     dbLocal[p], dbRemote[p], "exec", clock)
    <3>1. remote'[p] = IF remote[p] # None THEN remote[p] ELSE dbRemote[p]
      BY <1>2, <2>1 DEF PlanCycle
    <3>2. todo'[p] = Reconcile(p, vault[p], dbLocal[p], remote'[p], dbRemote[p])
      BY <1>2, <2>2 DEF PlanCycle
    <3>3. Fresh(p, vault[p], server[p], scanned[p], remote[p], todo[p],
                dbLocal[p], dbRemote[p], "connected", clock)
      BY <1>2 DEF FreshInv, PlanCycle
    <3>4. remote'[p] \in Records
      BY <3>1, FreshPath
    <3>5. todo'[p] # "pushMerged"
      BY <3>2, <3>4, FreshPath, ReconcileType DEF Actions
    <3> QED
      BY <3>1, <3>2, <3>3, <3>5, FreshPlan
  <2> QED
    BY <1>2, <2>3 DEF PlanCycle, FreshInv, disk, db
<1>3. CASE Rescan
  <2>1. /\ pc = "exec" /\ pc' = "save" /\ scanned' = vault /\ todo' = NoPlan
        /\ UNCHANGED <<vault, server, dbLocal, dbRemote, initial, remote, clock>>
    BY <1>3 DEF Rescan, Some, QuietInv, PlanSound, disk, db
  <2>2. \A p \in Paths : Fresh(p, vault[p], server[p], vault[p], remote[p], "none",
                               dbLocal[p], dbRemote[p], "save", clock)
    BY <2>1, FreshRescan DEF FreshInv
  <2> QED
    BY <2>1, <2>2 DEF FreshInv, NoPlan
<1>4. CASE Save
  <2>1. /\ pc = "save" /\ pc' = "idle" /\ dbLocal' = scanned /\ dbRemote' = remote /\ ~initial'
        /\ scanned' = Nothing /\ remote' = Nothing /\ todo' = NoPlan
        /\ UNCHANGED <<vault, server, clock>>
    BY <1>4 DEF Save, StopCycle, disk
  <2>2. \A p \in Paths : Fresh(p, vault[p], server[p], None, None, "none",
                               scanned[p], remote[p], "idle", clock)
    BY <2>1, FreshPath, FreshSave
  <2> QED
    BY <2>1, <2>2 DEF FreshInv, NoPlan, Nothing
<1>5. CASE Abort
  <2>1. /\ pc' = "idle" /\ scanned' = Nothing /\ remote' = Nothing /\ todo' = NoPlan
        /\ UNCHANGED <<vault, server, dbLocal, dbRemote, initial, clock>>
    BY <1>5 DEF Abort, StopCycle, disk, db
  <2>2. \A p \in Paths : Fresh(p, vault[p], server[p], None, None, "none",
                               dbLocal[p], dbRemote[p], "idle", clock)
    BY FreshStop DEF FreshInv
  <2> QED
    BY <2>1, <2>2 DEF FreshInv, NoPlan, Nothing
<1> QED
  BY <1>1, <1>2, <1>3, <1>4, <1>5

(* What an edit makes is of the moment at which it is made. *)
LEMMA EditFields ==
  ASSUME NEW p \in Paths, NEW r \in Records, NEW now \in Nat, Dated(r, now), clock' = now + 1
  PROVE  /\ Edited(p, r) \in Records /\ Edited(p, r) # None
         /\ Edited(p, r).mtime = now + 1 /\ Edited(p, r).state = "live"
         /\ now + 1 \in Edited(p, r).body
         /\ \A n \in Edited(p, r).body : n <= now + 1
<1>1. PICK b : b = (IF Active(r) /\ p \in TextPaths \cup JsonPaths
                      THEN r.body ELSE {}) \cup {now + 1}
  OBVIOUS
<1>2. Active(r) => r.body \in SUBSET Nat /\ \A n \in r.body : n <= now
  BY VersionFields DEF Active, Records, Dated
<1>3. now + 1 \in Nat /\ \A n \in Nat : n <= now => n <= now + 1
  OBVIOUS
<1>4. b \in SUBSET Nat /\ now + 1 \in b /\ \A n \in b : n <= now + 1
  BY <1>1, <1>2, <1>3
<1>5. Edited(p, r) = File(b, now + 1)
  BY <1>1 DEF Edited
<1>6. PICK f : f = File(b, now + 1)
  OBVIOUS
<1>7. f \in Versions /\ f # None /\ f.body = b /\ f.mtime = now + 1 /\ f.state = "live"
  BY <1>3, <1>4, <1>6, FileIsVersion
<1> QED
  BY <1>4, <1>5, <1>6, <1>7 DEF Records

(* The user and other devices.                                             *)
LEMMA EnvironmentFresh ==
  ASSUME Quiet, QuietInv, FreshInv, NEW p \in Paths, UserEdit(p) \/ DeviceEdit(p)
  PROVE  FreshInv'
<1>1. pc = "idle" /\ clock \in Nat /\ clock' = clock + 1
  BY DEF UserEdit, DeviceEdit, UserMayEdit, DeviceMayEdit, Quiet, Tick, QuietInv, TypeOK
<1>2. ASSUME NEW q \in Paths
      PROVE  Fresh(q, vault[q], server[q], scanned[q], remote[q], todo[q],
                   dbLocal[q], dbRemote[q], "idle", clock + 1)
  BY <1>1, FreshPath, FreshLater
<1>3. CASE UserEdit(p)
  <2>1. PICK f : f = Edited(p, vault[p])
    OBVIOUS
  <2>2. PICK x \in {f, None} : vault' = [vault EXCEPT ![p] = x]
    BY <1>3, <2>1 DEF UserEdit
  <2>3. /\ x \in Records
        /\ x # None => x.mtime = clock + 1 /\ clock + 1 \in x.body /\ \A n \in x.body : n <= clock + 1
    <3>1. CASE x = f
      BY <1>1, <2>1, <3>1, FreshPath, EditFields DEF Fresh
    <3>2. CASE x = None
      BY <3>2 DEF Records
    <3> QED
      BY <3>1, <3>2
  <2>4. Fresh(p, x, server[p], scanned[p], remote[p], todo[p], dbLocal[p], dbRemote[p],
              "idle", clock + 1)
    BY <1>1, <2>3, FreshPath, FreshUserEdit
  <2>5. vault'[p] = x /\ \A q \in Paths : q # p => vault'[q] = vault[q]
    BY <2>2 DEF QuietInv, TypeOK
  <2>6. UNCHANGED <<server, dbLocal, dbRemote, initial, pc, scanned, remote, todo>>
    BY <1>3 DEF UserEdit, db, cycle
  <2> QED
    BY <1>1, <1>2, <2>4, <2>5, <2>6 DEF FreshInv
<1>4. CASE DeviceEdit(p)
  <2>1. PICK f : f = Edited(p, server[p])
    OBVIOUS
  <2>2. PICK d : d = Deletion(clock + 1)
    OBVIOUS
  <2>3. PICK x \in {f, d} : server' = [server EXCEPT ![p] = x]
    BY <1>1, <1>4, <2>1, <2>2 DEF DeviceEdit
  <2>4. /\ x \in Records /\ x # None /\ x.mtime = clock + 1 /\ \A n \in x.body : n <= clock + 1
        /\ \/ x.state = "live" /\ clock + 1 \in x.body
           \/ x.state = "deleted" /\ x.body = {}
    <3>1. CASE x = f
      BY <1>1, <2>1, <3>1, FreshPath, EditFields DEF Fresh
    <3>2. CASE x = d
      <4>1. clock + 1 \in Nat
        BY <1>1
      <4>2. d \in Records /\ d # None /\ d.body = {} /\ d.state = "deleted"
        BY <2>2, <4>1, DeletionIsVersion DEF Records
      <4>3. d.mtime = clock + 1
        BY <2>2 DEF Deletion
      <4> QED
        BY <3>2, <4>2, <4>3
    <3> QED
      BY <3>1, <3>2
  <2>5. Fresh(p, vault[p], x, scanned[p], remote[p], todo[p], dbLocal[p], dbRemote[p],
              "idle", clock + 1)
    BY <1>1, <2>4, FreshPath, FreshDeviceEdit
  <2>6. server'[p] = x /\ \A q \in Paths : q # p => server'[q] = server[q]
    BY <2>3 DEF QuietInv, TypeOK
  <2>7. UNCHANGED <<vault, dbLocal, dbRemote, initial, pc, scanned, remote, todo>>
    BY <1>4 DEF DeviceEdit, db
  <2> QED
    BY <1>1, <1>2, <2>5, <2>6, <2>7 DEF FreshInv
<1> QED
  BY <1>3, <1>4

(* Every step keeps the plan true of the files.                            *)
LEMMA FreshNext ==
  ASSUME Quiet, QuietInv, FreshInv, [Next]_vars
  PROVE  FreshInv'
<1>1. ASSUME NEW p \in Paths, RejectMerged(p) PROVE FreshInv'
  BY <1>1, WriteFresh DEF RejectMerged, Doing, MergeFallback, Done
<1>2. ASSUME NEW p \in Paths, Download(p) PROVE FreshInv'
  <2>1. pc = "exec" /\ todo[p] = "download" /\ remote[p] # None
    BY <1>2 DEF Download, Doing, QuietInv, PlanSound, Active
  <2> QED
    BY <1>2, <2>1, WriteFresh DEF Download
<1>3. ASSUME NEW p \in Paths PROVE ~DownloadFails(p)
  BY DEF DownloadFails, Quiet
<1>4. CASE UNCHANGED vars
  BY <1>4 DEF vars, FreshInv
<1> QED
  BY <1>1, <1>2, <1>3, <1>4, CycleFresh, PushesFresh, MergeFresh, EnvironmentFresh
  DEF Next, Engine, Environment, Execute

(* Both invariants hold in every reachable state of a quiet system.        *)
LEMMA FreshInvariant == Quiet => (Spec => [](QuietInv /\ FreshInv))
<1> SUFFICES ASSUME Quiet PROVE Spec => [](QuietInv /\ FreshInv)
  OBVIOUS
<1>1. Init => FreshInv
  BY DEF Init, FreshInv, Fresh, Nothing, Dated, LocalFile, Honest, Bare, Tombstone, Active,
     Advanced, InTouch
<1>2. QuietInv /\ FreshInv /\ [Next]_vars => (QuietInv /\ FreshInv)'
  BY QuietStep, FreshNext
<1> QED
  BY <1>1, <1>2, QuietInit, PTL DEF Spec

(* What one step of the engine does to one file.                           *)
Kept(p) == vault'[p] = vault[p] /\ server'[p] = server[p]

Pushed(p) ==
  /\ pc = "exec" /\ todo[p] \in {"upload", "pushMerged"}
  /\ vault[p] # None /\ vault'[p] = vault[p] /\ server'[p] = vault[p]

RemovedRemotely(p) ==
  /\ pc = "exec" /\ todo[p] = "deleteRemote"
  /\ vault'[p] = vault[p] /\ server'[p] = Deletion(clock)

RemovedLocally(p) ==
  /\ pc = "exec" /\ todo[p] = "deleteLocal"
  /\ vault'[p] = None /\ server'[p] = server[p]

Written(p) ==
  /\ pc = "exec" /\ todo[p] = "download"
  /\ vault'[p] = File(server[p].body, server[p].mtime) /\ server'[p] = server[p]

FellBack(p) ==
  /\ pc = "exec" /\ todo[p] \in {"mergeText", "mergeJSON", "pushMerged"}
  /\ vault[p] # None /\ vault'[p] # None /\ server'[p] = server[p]
  /\ MergeFallback(p)
  /\ \/ p \in TextPaths /\ Base(p) = None
     \/ {"mergeFails", "pushRejected"} \cap Faults # {}

Merged(p) ==
  /\ pc = "exec" /\ todo[p] \in {"mergeText", "mergeJSON"}
  /\ p \in TextPaths => Base(p) # None
  /\ vault'[p] # None /\ vault'[p].body \in MergedBodies(p) /\ server'[p] = server[p]

Effect(p) ==
  Kept(p) \/ Pushed(p) \/ RemovedRemotely(p) \/ RemovedLocally(p) \/ Written(p)
    \/ FellBack(p) \/ Merged(p)

(* A fallback writes the server's version. *)
LEMMA FallbackEffect ==
  ASSUME QuietInv, FreshInv, NEW p \in Paths, pc = "exec",
         todo[p] \in {"mergeText", "mergeJSON", "pushMerged"}, MergeFallback(p)
  PROVE  /\ vault[p] # None /\ vault'[p] # None
         /\ \A q \in Paths : q # p => vault'[q] = vault[q]
<1>1. vault[p] # None /\ Active(remote[p])
  BY DEF QuietInv, PlanSound
<1>2. remote[p] \in Versions
  BY <1>1 DEF Active, QuietInv, TypeOK, Records
<1>3. PICK f : f = File(remote[p].body, remote[p].mtime)
  OBVIOUS
<1>4. f # None
  BY <1>2, <1>3, FileIsVersion, VersionFields
<1>5. vault' = [vault EXCEPT ![p] = f]
  BY <1>3 DEF MergeFallback, WriteVersion
<1> QED
  BY <1>1, <1>4, <1>5 DEF QuietInv, TypeOK

(* A merge writes one of the texts it may come to. *)
LEMMA MergeEffect ==
  ASSUME Quiet, QuietInv, FreshInv, NEW p \in Paths, Merge(p)
  PROVE  \A q \in Paths : Effect(q)
<1>1. /\ pc = "exec" /\ todo[p] \in {"mergeText", "mergeJSON"} /\ server' = server
      /\ vault[p] # None
  BY DEF Merge, Doing, QuietInv, PlanSound
<1>2. CASE /\ MergeFallback(p)
           /\ (p \in TextPaths /\ Base(p) = None) \/ "mergeFails" \in Faults
  <2>1. /\ vault'[p] # None
        /\ \A q \in Paths : q # p => vault'[q] = vault[q]
    BY <1>1, <1>2, FallbackEffect
  <2>2. FellBack(p)
    BY <1>1, <1>2, <2>1 DEF FellBack
  <2> QED
    BY <1>1, <2>1, <2>2 DEF Effect, Kept
<1>3. ASSUME p \in TextPaths => Base(p) # None, NEW body \in MergedBodies(p),
             scanned' = [scanned EXCEPT ![p] =
               File(body, Later(remote[p].mtime, scanned[p].mtime))],
             vault' = [vault EXCEPT ![p] = scanned'[p]]
      PROVE  \A q \in Paths : Effect(q)
  <2>1. remote[p] = server[p] /\ scanned[p] = vault[p]
    BY <1>1, PlannedInTouch DEF Planned, Actions
  <2>2. Active(server[p])
    BY <1>1, <2>1 DEF QuietInv, PlanSound
  <2>3. vault[p] \in Versions /\ remote[p] \in Versions
    BY <1>1, <2>1, <2>2, FreshPath DEF Active, Records
  <2>4. body \in SUBSET Nat /\ Later(remote[p].mtime, scanned[p].mtime) \in Nat
    BY <2>1, <2>3, MergedFromBoth, LaterType, VersionFields
  <2>5. PICK f : f = File(body, Later(remote[p].mtime, scanned[p].mtime))
    OBVIOUS
  <2>6. f # None /\ f.body = body
    BY <2>4, <2>5, FileIsVersion
  <2>7. vault' = [vault EXCEPT ![p] = f]
    BY <1>3, <2>5 DEF QuietInv, TypeOK
  <2>8. vault'[p] = f /\ \A q \in Paths : q # p => vault'[q] = vault[q]
    BY <2>7 DEF QuietInv, TypeOK
  <2>9. Merged(p)
    BY <1>1, <1>3, <2>6, <2>8 DEF Merged
  <2> QED
    BY <1>1, <2>8, <2>9 DEF Effect, Kept
<1>4. CASE MergeFallback(p) /\ vault[p] = None
  BY <1>1, <1>4
<1> QED
  BY <1>2, <1>3, <1>4 DEF Merge

(* What a step of the engine does to a file is one of these. *)
LEMMA EngineEffect ==
  ASSUME Quiet, QuietInv, FreshInv, Next, ByEngine
  PROVE  \A q \in Paths : Effect(q)
<1>1. ASSUME NEW p \in Paths PROVE ~UserEdit(p) /\ ~DeviceEdit(p) /\ ~DownloadFails(p)
  <2>1. clock' # clock + 1
    BY DEF ByEngine, QuietInv, TypeOK
  <2> QED
    BY <2>1 DEF UserEdit, DeviceEdit, Tick, DownloadFails, Quiet
<1>2. CASE Connect \/ PlanCycle \/ Rescan \/ Save \/ Abort
  <2>1. vault' = vault /\ server' = server
    BY <1>2 DEF Connect, PlanCycle, Rescan, Save, Abort, disk
  <2> QED
    BY <2>1 DEF Effect, Kept
<1>3. ASSUME NEW p \in Paths, Upload(p) \/ PushMerged(p) PROVE \A q \in Paths : Effect(q)
  <2>1. /\ pc = "exec" /\ todo[p] \in {"upload", "pushMerged"} /\ vault[p] # None
        /\ vault' = vault /\ server' = [server EXCEPT ![p] = vault[p]]
    BY <1>3, QuietUpload, QuietPushMerged
  <2>2. server'[p] = vault[p] /\ \A q \in Paths : q # p => server'[q] = server[q]
    BY <2>1 DEF QuietInv, TypeOK
  <2> QED
    BY <2>1, <2>2 DEF Effect, Kept, Pushed
<1>4. ASSUME NEW p \in Paths, DeleteRemote(p) PROVE \A q \in Paths : Effect(q)
  <2>1. PICK d : d = Deletion(clock)
    OBVIOUS
  <2>2. /\ pc = "exec" /\ todo[p] = "deleteRemote"
        /\ vault' = vault /\ server' = [server EXCEPT ![p] = d]
    BY <1>4, <2>1, QuietDeleteRemote
  <2>3. server'[p] = d /\ \A q \in Paths : q # p => server'[q] = server[q]
    BY <2>2 DEF QuietInv, TypeOK
  <2> QED
    BY <2>1, <2>2, <2>3 DEF Effect, Kept, RemovedRemotely
<1>5. ASSUME NEW p \in Paths, DeleteLocal(p) PROVE \A q \in Paths : Effect(q)
  <2>1. /\ pc = "exec" /\ todo[p] = "deleteLocal"
        /\ vault' = [vault EXCEPT ![p] = None] /\ server' = server
    BY <1>5 DEF DeleteLocal, Doing, Quiet
  <2> QED
    BY <2>1 DEF Effect, Kept, RemovedLocally, QuietInv, TypeOK
<1>6. ASSUME NEW p \in Paths, RejectMerged(p) PROVE \A q \in Paths : Effect(q)
  <2>1. /\ pc = "exec" /\ todo[p] = "pushMerged" /\ server' = server /\ MergeFallback(p)
        /\ "pushRejected" \in Faults
    BY <1>6 DEF RejectMerged, Doing
  <2>2. vault[p] # None /\ vault'[p] # None /\ \A q \in Paths : q # p => vault'[q] = vault[q]
    BY <2>1, FallbackEffect
  <2>3. FellBack(p)
    BY <2>1, <2>2 DEF FellBack
  <2> QED
    BY <2>1, <2>2, <2>3 DEF Effect, Kept
<1>7. ASSUME NEW p \in Paths, Download(p) PROVE \A q \in Paths : Effect(q)
  <2>1. pc = "exec" /\ todo[p] = "download" /\ remote[p] # None /\ server' = server
    BY <1>7 DEF Download, Doing, QuietInv, PlanSound, Active
  <2>2. remote[p] = server[p]
    BY <2>1, PlannedInTouch DEF Planned, Actions
  <2>3. PICK f : f = File(server[p].body, server[p].mtime)
    OBVIOUS
  <2>4. vault' = [vault EXCEPT ![p] = f]
    BY <1>7, <2>1, <2>2, <2>3 DEF Download, WriteVersion
  <2>5. vault'[p] = f /\ \A q \in Paths : q # p => vault'[q] = vault[q]
    BY <2>4 DEF QuietInv, TypeOK
  <2> QED
    BY <2>1, <2>3, <2>5 DEF Effect, Kept, Written
<1> QED
  BY <1>1, <1>2, <1>3, <1>4, <1>5, <1>6, <1>7, MergeEffect DEF Next, Engine, Environment, Execute

(* An entry of the plan has its reasons in the files as they are.          *)
LEMMA PlannedMeaning ==
  ASSUME QuietInv, FreshInv, NEW p \in Paths, pc = "exec", todo[p] \in Planned
  PROVE  Reasons(p, vault[p], dbLocal[p], server[p], dbRemote[p], todo[p])
  BY FreshPath, PlannedInTouch, PlannedFor

(* Equal content is equal hashes: files tell the truth. *)
LEMMA UnchangedBody ==
  ASSUME NEW dl \in Records, NEW v \in Records, LocalFile(dl), LocalFile(v), ~RecordChanged(dl, v)
  PROVE  Body(v) = Body(dl)
<1>1. v # None => v.state = "live" /\ v.hash = v.body
  BY DEF LocalFile, Honest
<1>2. dl # None => dl.state = "live" /\ dl.hash = dl.body
  BY DEF LocalFile, Honest
<1> QED
  BY <1>1, <1>2 DEF RecordChanged, Body

(* What a file is worth on the server after a step of the engine. *)
LEMMA NotOlder ==
  ASSUME QuietInv, FreshInv, NEW p \in Paths, Effect(p), Active(server[p])
  PROVE  server'[p].mtime >= server[p].mtime
<1>1. server[p] # None /\ server[p].mtime \in Nat /\ server[p].mtime <= clock
  <2>1. server[p] \in Versions /\ server[p] # None /\ Dated(server[p], clock)
    BY FreshPath DEF Active, Records, Fresh
  <2> QED
    BY <2>1, VersionFields DEF Dated
<1>2. CASE server'[p] = server[p]
  BY <1>1, <1>2
<1>3. CASE RemovedRemotely(p)
  <2>1. server'[p].mtime = clock
    BY <1>3 DEF RemovedRemotely, Deletion
  <2> QED
    BY <1>1, <2>1
<1>4. CASE Pushed(p) /\ todo[p] = "pushMerged"
  <2>1. server'[p] = vault[p] /\ vault[p].mtime >= server[p].mtime
    BY <1>4, FreshPath DEF Pushed, Fresh, InTouch
  <2> QED
    BY <2>1
<1>5. CASE Pushed(p) /\ todo[p] = "upload"
  <2>1. pc = "exec" /\ vault[p] # None /\ server'[p] = vault[p]
    BY <1>5 DEF Pushed
  <2>2. /\ RecordChanged(dbLocal[p], vault[p])
        /\ ~RecordChanged(dbRemote[p], server[p]) \/ vault[p].mtime > server[p].mtime
    BY <1>5, <2>1, PlannedMeaning DEF Reasons, Planned, Actions
  <2>3. Advanced(vault[p], server[p], dbLocal[p], dbRemote[p])
    BY FreshPath DEF Fresh
  <2>4. vault[p].mtime \in Nat
    BY <2>1, FreshPath, VersionFields DEF Records
  <2>5. CASE RecordChanged(dbRemote[p], server[p])
    BY <1>1, <2>1, <2>2, <2>4, <2>5
  <2>6. CASE ~RecordChanged(dbRemote[p], server[p])
    <3>1. dbRemote[p] # None /\ dbRemote[p].mtime = server[p].mtime
      BY <1>1, <2>6 DEF RecordChanged
    <3> QED
      BY <2>1, <2>2, <2>3, <3>1 DEF Advanced
  <2> QED
    BY <2>5, <2>6
<1> QED
  BY <1>2, <1>3, <1>4, <1>5
  DEF Effect, Kept, RemovedLocally, Written, FellBack, Merged, Pushed

(* A file comes back to the vault only with something new in it. *)
LEMMA ComesBackNew ==
  ASSUME QuietInv, FreshInv, NEW p \in Paths, Effect(p), vault[p] = None, vault'[p] # None
  PROVE  dbLocal[p] = None \/ vault'[p].body # dbLocal[p].body
<1>1. CASE Written(p)
  <2>1. pc = "exec" /\ todo[p] = "download" /\ vault'[p] = File(server[p].body, server[p].mtime)
    BY <1>1 DEF Written
  <2>2. Active(server[p]) /\ RecordChanged(dbRemote[p], server[p])
    BY <2>1, PlannedMeaning DEF Reasons, Planned, Actions
  <2>3. Adds(dbRemote[p], server[p])
    BY <2>2, FreshPath DEF Fresh, Advanced
  <2>4. Body(dbLocal[p]) = Body(dbRemote[p])
    BY FreshPath, BaselineBody DEF Fresh
  <2>5. vault'[p].body = server[p].body
    BY <2>1 DEF File
  <2> QED
    BY <2>3, <2>4, <2>5 DEF Adds, Body
<1>2. CASE Merged(p)
  <2>1. pc = "exec" /\ todo[p] \in Planned /\ todo[p] \in {"mergeText", "mergeJSON"}
    BY <1>2 DEF Merged, Planned, Actions
  <2>2. vault[p] # None
    BY <2>1, PlannedMeaning DEF Reasons
  <2> QED
    BY <2>2
<1> QED
  BY <1>1, <1>2 DEF Effect, Kept, Pushed, RemovedRemotely, RemovedLocally, FellBack

(* On a file on which both sides agree the plan has nothing to do. *)
LEMMA SettledKept ==
  ASSUME QuietInv, FreshInv, NEW p \in Paths, Effect(p), Level(p), todo[p] # "pushMerged"
  PROVE  Kept(p)
<1> SUFFICES ASSUME ~Kept(p) PROVE FALSE
  OBVIOUS
<1>1. pc = "exec" /\ todo[p] \in Planned
  BY DEF Effect, Pushed, RemovedRemotely, RemovedLocally, Written, FellBack, Merged,
     Planned, Actions
<1>2. Reasons(p, vault[p], dbLocal[p], server[p], dbRemote[p], todo[p])
  BY <1>1, PlannedMeaning
<1>3. CASE vault[p] = None
  <2>1. ~Active(server[p])
    BY <1>3 DEF Level
  <2>2. todo[p] # "upload"
    BY <1>1, <1>3 DEF QuietInv, PlanSound
  <2> QED
    BY <1>1, <1>2, <1>3, <2>1, <2>2 DEF Reasons, Planned, Actions
<1>4. CASE vault[p] # None
  <2>1. Active(server[p]) /\ vault[p].body = server[p].body
    BY <1>4 DEF Level
  <2>2. vault[p].hash = vault[p].body /\ server[p].hash = server[p].body
    BY <1>4, <2>1 DEF QuietInv, HonestRecords, Honest, Active
  <2>3. SameContent(vault[p], server[p])
    BY <1>4, <2>1, <2>2 DEF SameContent, Active
  <2> QED
    BY <1>1, <1>2, <2>3 DEF Reasons, Planned
<1> QED
  BY <1>3, <1>4

(* What an edit may give way to. *)
Lost(p) ==
  \/ (Body(vault[p]) \ Body(vault'[p])) \subseteq Body(dbLocal[p])
  \/ p \notin TextPaths \cup JsonPaths /\ remote[p].mtime >= vault[p].mtime
  \/ p \in TextPaths /\ Base(p) = None
  \/ p \in JsonPaths /\ remote[p] # dbRemote[p]
  \/ {"mergeFails", "pushRejected"} \cap Faults # {} /\ MergeFallback(p)

(* No step of the engine loses an edit but by one of the rules. *)
LEMMA OnlyLostByRule ==
  ASSUME QuietInv, FreshInv, NEW p \in Paths, Effect(p)
  PROVE  Lost(p)
<1>1. LocalFile(vault[p]) /\ LocalFile(dbLocal[p]) /\ vault[p] \in Records /\ dbLocal[p] \in Records
  BY FreshPath DEF Fresh
<1>2. CASE vault'[p] = vault[p]
  BY <1>2 DEF Lost
<1>3. ASSUME pc = "exec", todo[p] \in Planned
      PROVE  /\ remote[p] = server[p]
             /\ Reasons(p, vault[p], dbLocal[p], server[p], dbRemote[p], todo[p])
  BY <1>3, PlannedInTouch, PlannedMeaning
<1>4. CASE RemovedLocally(p)
  <2>1. ~RecordChanged(dbLocal[p], vault[p])
    BY <1>3, <1>4 DEF RemovedLocally, Reasons, Planned, Actions
  <2> QED
    BY <1>1, <2>1, UnchangedBody DEF Lost
<1>5. CASE Written(p)
  <2>1. /\ remote[p] = server[p]
        /\ \/ ~RecordChanged(dbLocal[p], vault[p])
           \/ vault[p] = None
           \/ p \notin TextPaths \cup JsonPaths /\ server[p].mtime >= vault[p].mtime
    BY <1>3, <1>5 DEF Written, Reasons, Planned, Actions
  <2>2. CASE ~RecordChanged(dbLocal[p], vault[p])
    BY <1>1, <2>2, UnchangedBody DEF Lost
  <2>3. CASE vault[p] = None
    BY <2>3 DEF Lost, Body
  <2> QED
    BY <2>1, <2>2, <2>3 DEF Lost
<1>6. CASE FellBack(p)
  BY <1>6 DEF FellBack, Lost
<1>7. CASE Merged(p)
  <2>1. pc = "exec" /\ todo[p] \in Planned /\ todo[p] \in {"mergeText", "mergeJSON"}
    BY <1>7 DEF Merged, Planned, Actions
  <2>2. /\ remote[p] = server[p] /\ Active(server[p]) /\ vault[p] # None
        /\ RecordChanged(dbRemote[p], server[p])
        /\ p \in TextPaths \/ p \in JsonPaths
    BY <1>3, <2>1 DEF Reasons
  <2>3. CASE p \in TextPaths
    <3>1. Base(p) # None /\ Base(p) = dbRemote[p]
      BY <1>7, <2>3 DEF Merged, Base, Previous, Nothing
    <3>2. Base(p).body = Body(dbLocal[p])
      <4>1. Body(dbLocal[p]) = Body(dbRemote[p])
        BY FreshPath, BaselineBody DEF Fresh
      <4> QED
        BY <3>1, <4>1 DEF Body
    <3>3. PICK body : /\ body = vault'[p].body /\ vault'[p] # None
                      /\ body = (remote[p].body \ (Base(p).body \ vault[p].body))
                                  \cup (vault[p].body \ Base(p).body)
      BY <1>7, <2>3 DEF Merged, MergedBodies
    <3>4. (vault[p].body \ body) \subseteq Base(p).body
      BY <3>3
    <3> QED
      BY <2>2, <3>2, <3>3, <3>4 DEF Lost, Body
  <2>4. CASE p \notin TextPaths
    <3>1. remote[p] # dbRemote[p]
      <4>1. ~RecordChanged(server[p], server[p])
        BY DEF RecordChanged
      <4> QED
        BY <2>2, <4>1
    <3> QED
      BY <2>2, <2>4, <3>1 DEF Lost
  <2> QED
    BY <2>3, <2>4
<1> QED
  BY <1>2, <1>4, <1>5, <1>6, <1>7 DEF Effect, Kept, Pushed, RemovedRemotely

KeepsEdits == ByEngine => \A p \in Paths : Lost(p)

ResurrectsNothing ==
  ByEngine => \A p \in Paths :
    vault[p] = None /\ vault'[p] # None =>
      dbLocal[p] = None \/ vault'[p].body # dbLocal[p].body

LeavesSettled ==
  ByEngine => \A p \in Paths :
    Level(p) /\ todo[p] # "pushMerged" => vault'[p] = vault[p] /\ server'[p] = server[p]

KeepsServerNew ==
  ByEngine => \A p \in Paths : Active(server[p]) => server'[p].mtime >= server[p].mtime

(* A step of a quiet system keeps every promise of the engine. *)
LEMMA EngineSteps ==
  ASSUME Quiet, QuietInv, FreshInv, [Next]_vars
  PROVE  [KeepsEdits /\ ResurrectsNothing /\ LeavesSettled /\ KeepsServerNew]_vars
<1> SUFFICES ASSUME Next, ByEngine
             PROVE  KeepsEdits /\ ResurrectsNothing /\ LeavesSettled /\ KeepsServerNew
  BY DEF KeepsEdits, ResurrectsNothing, LeavesSettled, KeepsServerNew
<1>1. \A p \in Paths : Effect(p)
  BY EngineEffect
<1>2. KeepsEdits
  BY <1>1, OnlyLostByRule DEF KeepsEdits
<1>3. ResurrectsNothing
  BY <1>1, ComesBackNew DEF ResurrectsNothing
<1>4. LeavesSettled
  BY <1>1, SettledKept DEF LeavesSettled, Kept
<1>5. KeepsServerNew
  BY <1>1, NotOlder DEF KeepsServerNew
<1> QED
  BY <1>2, <1>3, <1>4, <1>5

(* All four promises, in every behaviour of a quiet system.                *)
LEMMA EngineTheorem ==
  Quiet => (Spec => [][KeepsEdits /\ ResurrectsNothing /\ LeavesSettled /\ KeepsServerNew]_vars)
<1> SUFFICES ASSUME Quiet
             PROVE  Spec => [][KeepsEdits /\ ResurrectsNothing /\ LeavesSettled /\ KeepsServerNew]_vars
  OBVIOUS
<1>1. QuietInv /\ FreshInv /\ [Next]_vars
        => [KeepsEdits /\ ResurrectsNothing /\ LeavesSettled /\ KeepsServerNew]_vars
  BY EngineSteps
<1> QED
  BY <1>1, FreshInvariant, PTL DEF Spec

(* While nobody edits during a cycle and no single download or removal     *)
(* fails, an edit that no sync has saved disappears from the vault only by *)
(* the documented rules.                                                   *)
THEOREM EditsTheorem == Quiet => (Spec => EditsOnlyLostByRule)
<1>1. Quiet => (Spec => [][KeepsEdits]_vars)
  BY EngineTheorem, PTL
<1> QED
  BY <1>1 DEF EditsOnlyLostByRule, KeepsEdits, Lost

(* Under the same conditions a file the user has deleted does not come     *)
(* back as it was at the last sync.                                        *)
THEOREM ResurrectionTheorem == Quiet => (Spec => NoResurrection)
<1>1. Quiet => (Spec => [][ResurrectsNothing]_vars)
  BY EngineTheorem, PTL
<1> QED
  BY <1>1 DEF NoResurrection, ResurrectsNothing

(* Nor is a file touched on which the vault and the server agree, whatever *)
(* the database says of it.                                                *)
THEOREM SettledFilesTheorem == Quiet => (Spec => SettledFilesUntouched)
<1>1. Quiet => (Spec => [][LeavesSettled]_vars)
  BY EngineTheorem, PTL
<1> QED
  BY <1>1 DEF SettledFilesUntouched, LeavesSettled

(* And no file on the server is replaced by an older version.              *)
THEOREM ServerTheorem == Quiet => (Spec => ServerNeverGoesBack)
<1>1. Quiet => (Spec => [][KeepsServerNew]_vars)
  BY EngineTheorem, PTL
<1> QED
  BY <1>1 DEF ServerNeverGoesBack, KeepsServerNew
=============================================================================
