--------------------------- MODULE SyncPlanProofs ---------------------------
(***************************************************************************)
(* What a plan promises, for any paths, contents and modification times    *)
(* and for any database, one that a failed cycle has left behind too.      *)
(***************************************************************************)
EXTENDS MCSyncPlan, TLAPS

(* The records of a path: local and remote, now and at the last sync.      *)
Row(l, pl, r, pr) ==
  /\ l \in LocalRecords /\ pl \in LocalRecords
  /\ r \in RemoteRecords /\ pr \in RemoteRecords
  /\ pr # None => r # None

-----------------------------------------------------------------------------
(* Records.                                                                *)

(* A record is a file, a deletion or missing.                              *)
LEMMA Kinds ==
  ASSUME NEW x \in RemoteRecords
  PROVE  /\ x = None <=> ~Active(x) /\ ~Tombstone(x)
         /\ ~(Active(x) /\ Tombstone(x))
         /\ Active(x) <=> x \in Files
         /\ Tombstone(x) <=> x \in Deletions
         /\ x # None => x.mtime \in Nat
  BY RecordsAssumption DEF RecordsAssumption, RemoteRecords, Files, Deletions, Active, Tombstone

LEMMA LocalKinds ==
  ASSUME NEW x \in LocalRecords
  PROVE  x \in RemoteRecords /\ ~Tombstone(x) /\ (x # None <=> x \in Files)
  BY RecordsAssumption DEF RecordsAssumption, LocalRecords, RemoteRecords, Files, Tombstone

(* recordChanged tells any two records of one side apart.                  *)
LEMMA ChangedMeansDifferent ==
  ASSUME NEW x \in RemoteRecords, NEW y \in RemoteRecords
  PROVE  RecordChanged(x, y) <=> x # y
<1>1. CASE x = None \/ y = None
  BY <1>1 DEF RecordChanged
<1>2. CASE x # None /\ y # None
  <2>1. x \in Files \cup Deletions /\ y \in Files \cup Deletions
    BY <1>2 DEF RemoteRecords
  <2>2. x.hash = y.hash /\ x.mtime = y.mtime /\ x.state = y.state => x = y
    BY <2>1 DEF Files, Deletions
  <2> QED
    BY <1>2, <2>2 DEF RecordChanged
<1> QED
  BY <1>1, <1>2

-----------------------------------------------------------------------------
(* One path.                                                               *)

Actions == {"none", "download", "upload", "mergeText", "mergeJSON", "deleteLocal", "deleteRemote"}

(* What both sides have changed is a file on the server, or was one.       *)
LEMMA ConflictRow ==
  ASSUME NEW p, NEW l, NEW pl, NEW r, NEW pr, Row(l, pl, r, pr)
  PROVE  LET c == Conflict(p, l, pl, r, pr)
         IN  /\ c \in Actions
             /\ c = "none" => r = None \/ (l = None /\ Tombstone(r))
             /\ c = "download" => Active(r) /\ ChooseRemote(l, pl, r, pr)
             /\ c \in {"upload", "mergeText", "mergeJSON"} => l # None
             /\ c # "deleteLocal"
             /\ c = "deleteRemote" => l = None /\ Active(r) /\ ~ChooseRemote(l, pl, r, pr)
  BY Kinds DEF Conflict, Row, Actions

(* The one branch that Reconcile takes.                                    *)
LEMMA ReconcileRow ==
  ASSUME NEW p, NEW l, NEW pl, NEW r, NEW pr, Row(l, pl, r, pr)
  PROVE  LET a == Reconcile(p, l, pl, r, pr)
         IN  /\ SameContent(l, r) => a = "none"
             /\ ~SameContent(l, r) /\ r # pr /\ l # pl => a = Conflict(p, l, pl, r, pr)
             /\ ~SameContent(l, r) /\ r # pr /\ l = pl =>
                  a = IF Active(r) THEN "download"
                      ELSE IF Tombstone(r) /\ l # None THEN "deleteLocal" ELSE "none"
             /\ ~SameContent(l, r) /\ r = pr /\ l # pl =>
                  a = IF l # None THEN "upload"
                      ELSE IF Active(r) THEN "deleteRemote" ELSE "none"
             /\ ~SameContent(l, r) /\ r = pr /\ l = pl => a = "none"
<1>1. (RecordChanged(pl, l) <=> pl # l) /\ (RecordChanged(pr, r) <=> pr # r)
  BY ChangedMeansDifferent, LocalKinds DEF Row
<1> QED
  BY <1>1 DEF Reconcile

(* What each action is for.                                                *)
LEMMA ReconcileActs ==
  ASSUME NEW p, NEW l, NEW pl, NEW r, NEW pr, Row(l, pl, r, pr)
  PROVE  /\ Reconcile(p, l, pl, r, pr) \in Actions
         /\ Reconcile(p, l, pl, r, pr) \in {"download", "deleteRemote"} => Active(r)
         /\ Reconcile(p, l, pl, r, pr) \in {"upload", "mergeText", "mergeJSON"} => l # None
<1>1. CASE SameContent(l, r) \/ (r = pr /\ l = pl)
  BY <1>1, ReconcileRow DEF Actions
<1>2. CASE ~SameContent(l, r) /\ r # pr /\ l # pl
  BY <1>2, ReconcileRow, ConflictRow
<1>3. CASE ~SameContent(l, r) /\ r # pr /\ l = pl
  BY <1>3, ReconcileRow DEF Actions
<1>4. CASE ~SameContent(l, r) /\ r = pr /\ l # pl
  BY <1>4, ReconcileRow DEF Actions
<1> QED
  BY <1>1, <1>2, <1>3, <1>4

(* A deletion is one that the losing side has agreed to.                   *)
LEMMA Consent ==
  ASSUME NEW p, NEW l, NEW pl, NEW r, NEW pr, Row(l, pl, r, pr)
  PROVE  LET a == Reconcile(p, l, pl, r, pr)
         IN  /\ a = "deleteLocal" => Tombstone(r) /\ r # pr /\ l = pl
             /\ a = "deleteRemote" =>
                  /\ l = None /\ pl # None
                  /\ r # pr => r.mtime < pl.mtime
<1> DEFINE a == Reconcile(p, l, pl, r, pr)
<1>1. ASSUME a = "deleteLocal" PROVE Tombstone(r) /\ r # pr /\ l = pl
  BY <1>1, ReconcileRow, ConflictRow
<1>2. ASSUME a = "deleteRemote" PROVE l = None /\ pl # None /\ (r # pr => r.mtime < pl.mtime)
  <2>1. l = None /\ l # pl
    BY <1>2, ReconcileRow, ConflictRow
  <2>2. ASSUME r # pr PROVE r.mtime < pl.mtime
    <3>1. Active(r) /\ ~ChooseRemote(l, pl, r, pr)
      BY <1>2, <2>1, <2>2, ReconcileRow, ConflictRow
    <3>2. r # None /\ ~Tombstone(r) /\ r.mtime \in Nat /\ pl.mtime \in Nat
      BY <2>1, <3>1, Kinds, LocalKinds DEF Row
    <3>3. LastTime(l, pl) = pl.mtime /\ LastTime(r, pr) = r.mtime
      BY <2>1, <3>2 DEF LastTime
    <3> QED
      BY <2>1, <3>1, <3>2, <3>3 DEF ChooseRemote
  <2> QED
    BY <2>1, <2>2
<1> QED
  BY <1>1, <1>2

(* Where nothing is done nothing is to be done.                            *)
LEMMA Settled ==
  ASSUME NEW p, NEW l, NEW pl, NEW r, NEW pr, Row(l, pl, r, pr),
         Reconcile(p, l, pl, r, pr) = "none"
  PROVE  Agree(l, r) \/ (l = pl /\ r = pr)
<1>1. CASE SameContent(l, r)
  <2>1. l # None /\ r # None /\ l.hash = r.hash
    BY <1>1 DEF SameContent
  <2>2. CASE Active(r)
    BY <2>1, <2>2 DEF Agree
  <2>3. CASE Tombstone(r)
    BY <2>1, <2>3, Kinds, LocalKinds, RecordsAssumption DEF Row, RecordsAssumption, Files, Deletions
  <2> QED
    BY <2>1, <2>2, <2>3, Kinds DEF Row
<1>2. CASE ~SameContent(l, r) /\ r # pr
  <2>1. l = None \/ r = None
    BY <1>2, ReconcileRow, ConflictRow, Kinds DEF Row
  <2> QED
    BY <1>2, <2>1, ReconcileRow, ConflictRow, Kinds DEF Row, Agree
<1>3. CASE ~SameContent(l, r) /\ r = pr /\ l # pl
  BY <1>3, ReconcileRow DEF Agree
<1> QED
  BY <1>1, <1>2, <1>3

(* What the two sides hold after an action leaves nothing to do.           *)
Outcome(a, l, r) ==
  CASE a = "download" -> <<r, r>>
    [] a \in {"upload", "mergeText", "mergeJSON"} -> <<l, l>>
    [] a = "deleteLocal" -> <<None, r>>
    [] a = "deleteRemote" -> <<None, [hash |-> "nohash", mtime |-> r.mtime, state |-> "deleted"]>>
    [] OTHER -> <<l, r>>

LEMMA Replanned ==
  ASSUME NEW p, NEW l, NEW pl, NEW r, NEW pr, Row(l, pl, r, pr),
         NEW a, a = Reconcile(p, l, pl, r, pr), a # "none"
  PROVE  LET o == Outcome(a, l, r) IN Reconcile(p, o[1], pl, o[2], pr) = "none"
<1> DEFINE o == Outcome(a, l, r)
           gone == [hash |-> "nohash", mtime |-> r.mtime, state |-> "deleted"]
<1>0. a \in Actions
  BY ReconcileActs
<1>1. CASE a = "download"
  <2>1. Active(r)
    BY <1>1, ReconcileActs
  <2>2. o[1] = r /\ o[2] = r /\ SameContent(r, r)
    BY <1>1, <2>1 DEF Outcome, SameContent, Active
  <2> QED
    BY <2>2 DEF Reconcile
<1>2. CASE a \in {"upload", "mergeText", "mergeJSON"}
  <2>1. l # None
    BY <1>2, ReconcileActs
  <2>2. o[1] = l /\ o[2] = l /\ SameContent(l, l)
    BY <1>2, <2>1 DEF Outcome, SameContent
  <2> QED
    BY <2>2 DEF Reconcile
<1>3. ASSUME NEW t, Tombstone(t), t \in RemoteRecords
      PROVE  Reconcile(p, None, pl, t, pr) = "none"
  <2>1. Row(None, pl, t, pr) /\ ~SameContent(None, t) /\ ~Active(t) /\ Conflict(p, None, pl, t, pr) = "none"
    BY <1>3, Kinds DEF Row, SameContent, Conflict, LocalRecords
  <2> QED
    BY <1>3, <2>1, ReconcileRow, Kinds
<1>4. CASE a = "deleteLocal"
  <2>1. Tombstone(r) /\ r \in RemoteRecords
    BY <1>4, Consent DEF Row
  <2>2. o[1] = None /\ o[2] = r
    BY <1>4 DEF Outcome
  <2> QED
    BY <1>3, <2>1, <2>2
<1>5. CASE a = "deleteRemote"
  <2>1. Active(r)
    BY <1>5, ReconcileActs
  <2>2. r \in Files
    BY <2>1, Kinds DEF Row
  <2>3. gone \in RemoteRecords /\ Tombstone(gone)
    <3>1. gone \in Deletions
      BY <2>2 DEF Files, Deletions
    <3> QED
      BY <3>1, Kinds DEF RemoteRecords
  <2>4. o[1] = None /\ o[2] = gone
    BY <1>5 DEF Outcome
  <2> QED
    BY <1>3, <2>3, <2>4
<1> QED
  BY <1>0, <1>1, <1>2, <1>4, <1>5 DEF Actions

-----------------------------------------------------------------------------
(* Every plan.                                                             *)

PlanInv ==
  /\ \A p \in Paths : Row(local[p], prevLocal[p], remote[p], prevRemote[p])
  /\ plan \in {NotPlanned, BuildPlan(Paths, local, prevLocal, remote, prevRemote, Renames)}

(* The records that the planner is given.                                  *)
LEMMA AnyRows == Spec => []PlanInv
<1>1. Init => PlanInv
  <2> SUFFICES ASSUME Init PROVE PlanInv
    OBVIOUS
  <2>1. PICK F \in Focus : \E l, pl \in [F -> LocalRecords], r, pr \in [F -> RemoteRecords] :
               /\ \A p \in F : pr[p] # None => r[p] # None
               /\ local = Over(l) /\ prevLocal = Over(pl)
               /\ remote = Over(r) /\ prevRemote = Over(pr)
               /\ plan = NotPlanned
    BY DEF Init
  <2>2. PICK l \in [F -> LocalRecords], pl \in [F -> LocalRecords],
             r \in [F -> RemoteRecords], pr \in [F -> RemoteRecords] :
               /\ \A p \in F : pr[p] # None => r[p] # None
               /\ local = Over(l) /\ prevLocal = Over(pl)
               /\ remote = Over(r) /\ prevRemote = Over(pr)
               /\ plan = NotPlanned
    BY <2>1
  <2>3. ASSUME NEW p \in Paths PROVE Row(local[p], prevLocal[p], remote[p], prevRemote[p])
    BY <2>2 DEF Over, Row, LocalRecords, RemoteRecords
  <2> QED
    BY <2>2, <2>3 DEF PlanInv
<1>2. PlanInv /\ [Build]_vars => PlanInv'
  BY DEF PlanInv, Build, vars
<1> QED
  BY <1>1, <1>2, PTL DEF Spec

(* The action for a path, if the watcher has paired no renames.            *)
LEMMA PlannedActions ==
  ASSUME PlanInv, NEW p \in Paths
  PROVE  /\ plan = NotPlanned => plan[p] = "notPlanned"
         /\ plan # NotPlanned =>
              \/ plan[p] = Reconcile(p, local[p], prevLocal[p], remote[p], prevRemote[p])
              \/ DOMAIN Renames # {} /\ plan[p] \in {"none", "rename"}
  BY DEF PlanInv, NotPlanned, BuildPlan, PlanAction, RenamedAway, RenameTarget

(* No file is deleted, on either side, that the other side has not seen    *)
(* deleted, or that has changed since on the side that would lose it,      *)
(* whatever renames there are (buildPlan).                                 *)
THEOREM ConsentTheorem == Spec => []DeletionsNeedConsent
<1>1. PlanInv => DeletionsNeedConsent
  <2> SUFFICES ASSUME PlanInv, NEW p \in Paths, plan[p] \in {"deleteLocal", "deleteRemote"}
               PROVE  /\ plan[p] = "deleteLocal" =>
                           Tombstone(remote[p]) /\ RemoteChanged(p) /\ local[p] = prevLocal[p]
                      /\ plan[p] = "deleteRemote" =>
                           /\ local[p] = None /\ prevLocal[p] # None
                           /\ RemoteChanged(p) => remote[p].mtime < prevLocal[p].mtime
    BY DEF DeletionsNeedConsent
  <2>1. Row(local[p], prevLocal[p], remote[p], prevRemote[p])
    BY DEF PlanInv
  <2>2. plan[p] = Reconcile(p, local[p], prevLocal[p], remote[p], prevRemote[p])
    BY PlannedActions
  <2>3. RemoteChanged(p) <=> prevRemote[p] # remote[p]
    BY <2>1, ChangedMeansDifferent DEF Row, RemoteChanged
  <2> QED
    BY <2>1, <2>2, <2>3, Consent
<1> QED
  BY <1>1, AnyRows, PTL

(* A path that buildPlan has no action for needs none: both sides agree,   *)
(* or neither has changed.                                                 *)
THEOREM SettledTheorem ==
  ASSUME DOMAIN Renames = {}
  PROVE  Spec => []NoActionOnlyWhenSettled
<1>1. PlanInv => NoActionOnlyWhenSettled
  <2> SUFFICES ASSUME PlanInv, NEW p \in Paths, plan[p] = "none"
               PROVE  Agree(local[p], remote[p]) \/ (~LocalChanged(p) /\ ~RemoteChanged(p))
    BY DEF NoActionOnlyWhenSettled
  <2>1. Row(local[p], prevLocal[p], remote[p], prevRemote[p])
    BY DEF PlanInv
  <2>2. Reconcile(p, local[p], prevLocal[p], remote[p], prevRemote[p]) = "none"
    BY PlannedActions
  <2>3. Agree(local[p], remote[p]) \/ (local[p] = prevLocal[p] /\ remote[p] = prevRemote[p])
    BY <2>1, <2>2, Settled
  <2> QED
    BY <2>1, <2>3, ChangedMeansDifferent, LocalKinds DEF Row, LocalChanged, RemoteChanged
<1> QED
  BY <1>1, AnyRows, PTL

(* A cycle that dies between an action and the saving of the database has  *)
(* left a state for which buildPlan has nothing to do.                     *)
THEOREM ReplanTheorem ==
  ASSUME DOMAIN Renames = {}
  PROVE  Spec => []ReplanAfterCrashIsEmpty
<1>1. PlanInv => ReplanAfterCrashIsEmpty
  <2> SUFFICES ASSUME PlanInv, NEW p \in Paths, Planned, plan[p] # "none"
               PROVE  Reconcile(p, After(p)[1], prevLocal[p], After(p)[2], prevRemote[p]) = "none"
    BY DEF ReplanAfterCrashIsEmpty
  <2>1. Row(local[p], prevLocal[p], remote[p], prevRemote[p])
    BY DEF PlanInv
  <2>2. plan[p] = Reconcile(p, local[p], prevLocal[p], remote[p], prevRemote[p])
    BY PlannedActions DEF Planned
  <2>3. After(p) = Outcome(plan[p], local[p], remote[p])
    BY DEF After, Outcome
  <2> QED
    BY <2>1, <2>2, <2>3, Replanned
<1> QED
  BY <1>1, AnyRows, PTL

=============================================================================
