----------------------------- MODULE MCSyncPlan -----------------------------
(***************************************************************************)
(* Every input of the planner up to the bounds, one plan per initial       *)
(* state, and what a plan promises.  The database and the two sides may    *)
(* disagree in any way: a failed cycle leaves the database behind, other   *)
(* devices write with any modification time.  What the code guarantees is  *)
(* kept: the remote map is the database's overwritten by the server's      *)
(* records, so a path known to the database is known to it.                *)
(***************************************************************************)
EXTENDS SyncPlan

CONSTANTS
  Paths, Hashes, Times,   \* bounds: paths, contents and modification times
  Focus,                  \* the sets of paths that have records at once
  Renames                 \* the local renames given to the planner

VARIABLES local, prevLocal, remote, prevRemote, plan

vars == <<local, prevLocal, remote, prevRemote, plan>>

Files == [hash : Hashes, mtime : Times, state : {"live"}]
Deletions == [hash : {"nohash"}, mtime : Times, state : {"deleted"}]

LocalRecords == Files \cup {None}
RemoteRecords == Files \cup Deletions \cup {None}

(* The server sends a deletion without a hash.                             *)
RecordsAssumption == /\ None \notin Files \cup Deletions
                     /\ Times \subseteq Nat /\ "nohash" \notin Hashes
ASSUME RecordsAssumption

NotPlanned == [p \in Paths |-> "notPlanned"]

\* The records of the paths in focus; the other paths are unknown everywhere.
Over(rows) == [p \in Paths |-> IF p \in DOMAIN rows THEN rows[p] ELSE None]

Init ==
  \E F \in Focus :
    \E l, pl \in [F -> LocalRecords], r, pr \in [F -> RemoteRecords] :
      /\ \A p \in F : pr[p] # None => r[p] # None
      /\ local = Over(l)
      /\ prevLocal = Over(pl)
      /\ remote = Over(r)
      /\ prevRemote = Over(pr)
      /\ plan = NotPlanned

Build ==
  /\ plan = NotPlanned
  /\ plan' = BuildPlan(Paths, local, prevLocal, remote, prevRemote, Renames)
  /\ UNCHANGED <<local, prevLocal, remote, prevRemote>>

Spec == Init /\ [][Build]_vars

Planned == plan # NotPlanned

LocalChanged(p) == RecordChanged(prevLocal[p], local[p])
RemoteChanged(p) == RecordChanged(prevRemote[p], remote[p])

-----------------------------------------------------------------------------
(* Nobody loses a file he still works on: the local file is removed only   *)
(* if the server deleted it since the last sync and it was not touched     *)
(* here; the server's file is removed only if it was in the vault at the   *)
(* last sync, is gone now, and no later change of it came from elsewhere.  *)
DeletionsNeedConsent ==
  \A p \in Paths :
    /\ plan[p] = "deleteLocal" =>
         /\ Tombstone(remote[p])
         /\ RemoteChanged(p)
         /\ local[p] = prevLocal[p]
    /\ plan[p] = "deleteRemote" =>
         /\ local[p] = None
         /\ prevLocal[p] # None
         /\ RemoteChanged(p) => remote[p].mtime < prevLocal[p].mtime

Agree(l, r) ==
  IF l = None THEN ~Active(r) ELSE Active(r) /\ l.hash = r.hash

(* A path without an action is settled: the sides agree, or neither has    *)
(* changed since the last sync.                                            *)
NoActionOnlyWhenSettled ==
  \A p \in Paths :
    plan[p] = "none" =>
      \/ Agree(local[p], remote[p])
      \/ ~LocalChanged(p) /\ ~RemoteChanged(p)

(* What the sides hold after an action: the merge results are equal.       *)
After(p) ==
  CASE plan[p] = "download" -> <<remote[p], remote[p]>>
    [] plan[p] \in {"upload", "mergeText", "mergeJSON"} -> <<local[p], local[p]>>
    [] plan[p] = "deleteLocal" -> <<None, remote[p]>>
    [] plan[p] = "deleteRemote" ->
         <<None, [hash |-> "nohash", mtime |-> remote[p].mtime, state |-> "deleted"]>>
    [] OTHER -> <<local[p], remote[p]>>

(* A cycle that dies after an action and before the database is written    *)
(* has done no harm: the next plan, made against the old database, leaves  *)
(* the path alone.                                                         *)
ReplanAfterCrashIsEmpty ==
  \A p \in Paths :
    Planned /\ plan[p] # "none" =>
      Reconcile(p, After(p)[1], prevLocal[p], After(p)[2], prevRemote[p]) = "none"

=============================================================================
