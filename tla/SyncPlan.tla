------------------------------ MODULE SyncPlan ------------------------------
(***************************************************************************)
(* The planner of internal/sync/plan.go: buildPlan compares, path by path, *)
(* what is in the vault and on the server now with what the state database *)
(* recorded after the last sync, and chooses one action per path.  It is a *)
(* pure function; the operators below are its definition, and VaultSync    *)
(* calls them.                                                             *)
(*                                                                         *)
(* A file record is [hash, mtime, state].  A size differs only where the   *)
(* hash does, and is left out.  A remote record stands for a live file or  *)
(* for a deletion the server remembers; folders (the scan never reports    *)
(* one, a download of one only makes the directory) are left out.  The     *)
(* order of the actions is the order of the paths and carries no meaning   *)
(* of its own.                                                             *)
(***************************************************************************)
EXTENDS Naturals

CONSTANTS
  None,         \* "no record of this path"
  TextPaths,    \* the paths isMergeablePath accepts (.md)
  JsonPaths     \* the paths isJSONConfigPath accepts (.json in the config dir)

Active(r) == r # None /\ r.state = "live"
Tombstone(r) == r # None /\ r.state = "deleted"

\* Mutant: a file that appears or disappears is not a change.
RecordChangedInPlace(before, now) ==
  /\ before # None
  /\ now # None
  /\ \/ before.hash # now.hash
     \/ before.mtime # now.mtime
     \/ before.state # now.state

RecordChanged(before, now) ==
  IF before = None \/ now = None
    THEN before # now
    ELSE \/ before.hash # now.hash
         \/ before.mtime # now.mtime
         \/ before.state # now.state

LastTime(now, before) ==
  IF now # None THEN now.mtime ELSE IF before # None THEN before.mtime ELSE 0

\* Mutant: the older of the two sides wins.
ChooseOldest(l, pl, r, pr) ==
  /\ ~Tombstone(r)
  /\ IF LastTime(l, pl) = LastTime(r, pr)
       THEN r # None /\ (l = None \/ r.hash # l.hash)
       ELSE LastTime(r, pr) < LastTime(l, pl)

(* The later modification wins, and the server wins a tie.  A file missing *)
(* from a side counts with the time it had at the last sync.               *)
ChooseRemote(l, pl, r, pr) ==
  /\ ~Tombstone(r)
  /\ IF LastTime(l, pl) = LastTime(r, pr)
       THEN r # None /\ (l = None \/ r.hash # l.hash)
       ELSE LastTime(r, pr) > LastTime(l, pl)

SameContent(l, r) == l # None /\ r # None /\ l.hash = r.hash

\* Mutant: a local change of a file the server deleted is left alone.
ConflictIgnoringDeletion(p, l, pl, r, pr) ==
  CASE r = None \/ Tombstone(r)                  -> "none"
    [] Active(r) /\ l # None /\ p \in TextPaths   -> "mergeText"
    [] Active(r) /\ l # None /\ p \in JsonPaths \ TextPaths -> "mergeJSON"
    [] Active(r) /\ ~(l # None /\ p \in TextPaths \cup JsonPaths) ->
         IF ChooseRemote(l, pl, r, pr) THEN "download"
         ELSE IF l # None THEN "upload" ELSE "deleteRemote"

(* Both sides changed since the last sync.                                 *)
Conflict(p, l, pl, r, pr) ==
  CASE Tombstone(r)                               -> IF l # None THEN "upload" ELSE "none"
    [] r = None                                   -> "none"
    [] Active(r) /\ l # None /\ p \in TextPaths   -> "mergeText"
    [] Active(r) /\ l # None /\ p \in JsonPaths \ TextPaths -> "mergeJSON"
    [] Active(r) /\ ~(l # None /\ p \in TextPaths \cup JsonPaths) ->
         IF ChooseRemote(l, pl, r, pr) THEN "download"
         ELSE IF l # None THEN "upload" ELSE "deleteRemote"

\* Mutant: a deletion on the server takes the local file away, changed or not.
ReconcileTrustingDeletes(p, l, pl, r, pr) ==
  CASE SameContent(l, r)                                       -> "none"
    [] ~SameContent(l, r) /\ Tombstone(r) /\ l # None          -> "deleteLocal"
    [] ~SameContent(l, r) /\ Tombstone(r) /\ l = None          -> "none"
    [] ~SameContent(l, r) /\ ~Tombstone(r)                     ->
         IF RecordChanged(pr, r)
           THEN IF RecordChanged(pl, l) THEN Conflict(p, l, pl, r, pr)
                ELSE IF Active(r) THEN "download" ELSE "none"
           ELSE IF ~RecordChanged(pl, l) THEN "none"
                ELSE IF l # None THEN "upload"
                ELSE IF Active(r) THEN "deleteRemote" ELSE "none"

\* Mutant: equal content is not noticed before the changes are compared.
ReconcileByChange(p, l, pl, r, pr) ==
  LET localChanged  == RecordChanged(pl, l)
      remoteChanged == RecordChanged(pr, r)
  IN CASE remoteChanged /\ localChanged -> Conflict(p, l, pl, r, pr)
       [] remoteChanged /\ ~localChanged ->
            IF Active(r) THEN "download"
            ELSE IF Tombstone(r) /\ l # None THEN "deleteLocal" ELSE "none"
       [] ~remoteChanged /\ localChanged ->
            IF l # None THEN "upload"
            ELSE IF Active(r) THEN "deleteRemote" ELSE "none"
       [] ~remoteChanged /\ ~localChanged -> "none"

(* The action for a path that no rename concerns: l and r are the local    *)
(* and remote records now, pl and pr the ones of the last sync.            *)
Reconcile(p, l, pl, r, pr) ==
  LET localChanged  == RecordChanged(pl, l)
      remoteChanged == RecordChanged(pr, r)
  IN CASE SameContent(l, r) -> "none"
       [] ~SameContent(l, r) /\ remoteChanged /\ localChanged -> Conflict(p, l, pl, r, pr)
       [] ~SameContent(l, r) /\ remoteChanged /\ ~localChanged ->
            IF Active(r) THEN "download"
            ELSE IF Tombstone(r) /\ l # None THEN "deleteLocal" ELSE "none"
       [] ~SameContent(l, r) /\ ~remoteChanged /\ localChanged ->
            IF l # None THEN "upload"
            ELSE IF Active(r) THEN "deleteRemote" ELSE "none"
       [] ~SameContent(l, r) /\ ~remoteChanged /\ ~localChanged -> "none"

(* Local renames, oldPath to newPath, as the watcher pairs them.           *)
RenamedAway(p, renames, local) == p \in DOMAIN renames /\ local[renames[p]] # None
RenameTarget(p, renames) == \E q \in DOMAIN renames : renames[q] = p

(* One iteration of buildPlan.  "rename" is an upload that carries the old *)
(* path as relatedpath.                                                    *)
PlanAction(p, local, prevLocal, remote, prevRemote, renames) ==
  IF RenamedAway(p, renames, local) THEN "none"
  ELSE IF RenameTarget(p, renames) /\ local[p] # None THEN "rename"
  ELSE Reconcile(p, local[p], prevLocal[p], remote[p], prevRemote[p])

(* The plan of a whole cycle.  One-shot syncs pass no renames.             *)
BuildPlan(paths, local, prevLocal, remote, prevRemote, renames) ==
  [p \in paths |-> PlanAction(p, local, prevLocal, remote, prevRemote, renames)]

NoRenames == [p \in {} |-> None]
=============================================================================
