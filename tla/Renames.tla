------------------------------ MODULE Renames -------------------------------
(***************************************************************************)
(* Renames in a sync cycle of continuous mode.  A rename in the vault that *)
(* the watcher has paired (module Watcher) moves the records of the last   *)
(* sync to the new path, applyRenameFixups, and makes the planner upload   *)
(* the new path and pass over the old one.  A rename on another device     *)
(* arrives as a live record of the new path and a deleted one of the old;  *)
(* applyRemoteRenameFixups finds the two by uid, or by hash, and moves the *)
(* file on disk instead of downloading it.                                 *)
(*                                                                         *)
(* A record is that of SyncPlan with the uid of the version and its body;  *)
(* a hash 0 is an empty one.  No file here can be merged, and what races   *)
(* with the execution of the plan is studied in VaultSync and Continuous.  *)
(***************************************************************************)
EXTENDS SyncPlan, Sequences, FiniteSets

CONSTANTS
  Paths,
  Races,        \* what may happen besides, of AllRaces
  MaxOps,       \* bound of the model on edits, moves and deletions
  MaxFails      \* bound of the model on cycles that fail, and restarts

(***************************************************************************)
(*   unpaired     the watcher does not pair a move in the vault            *)
(*   late         a cycle begins while a rename is on its way from the     *)
(*                watcher                                                  *)
(*   selfRename   it reports that a file was renamed to its own path       *)
(*   recreated    a path is used again before a cycle has seen it leave    *)
(*   soon         somebody goes on before the cycle after a rename         *)
(*   bothSides    a path of a rename on one side is changed on the other   *)
(*                before a cycle has seen the rename                       *)
(*   userInCycle  the user acts between the scan and the plan              *)
(*   hashed       a deletion carries the hash of what was deleted          *)
(*   failLate     a cycle fails when it has begun to change something      *)
(*   goneHere     a file that another device renames is not in the vault   *)
(*   replaced     a file is moved to a path that another one had at the    *)
(*                last sync                                                *)
(*   copied       the user copies a file: two paths have one content       *)
(***************************************************************************)
AllRaces == {"unpaired", "late", "selfRename", "recreated", "soon", "bothSides", "userInCycle",
             "hashed", "failLate", "goneHere", "replaced",
             "copied"}

NoMerges == TextPaths = {} /\ JsonPaths = {}
RacesAssumption == Races \subseteq AllRaces
BoundsAssumption == MaxOps \in Nat /\ MaxFails \in Nat

ASSUME NoMerges
ASSUME RacesAssumption
ASSUME BoundsAssumption

VARIABLES
  vault,           \* the files in the vault
  server,          \* the server's record of every path
  lastUid,
  dbLocal,         \* state database
  dbRemote,
  csRemote,        \* cs.remote
  unread,          \* deletions the server has sent and the read pump not read
  events,          \* renames on their way from the watcher
  pendingRenames,  \* those that have arrived
  pc,              \* idle, begun, fixing, exec
  prevLocal,       \* the cycle's own: previousLocal, previousRemote,
  prevRemote,
  renames,         \* localRenames,
  local,           \* currentLocal,
  remote,          \* remoteSnapshot, currentRemote, and then session.remote,
  base,            \* dbLocal, dbRemote and the paths of remoteSnapshot,
  uidPairs,        \* renames found by uid and not looked at yet,
  hashPaths,       \* deleted paths not looked at yet,
  consumed,        \* uidMatchedActivePaths,
  todo,            \* the plan
  found,           \* history: what the last cycle that saved had found
  ops,
  fails

world == <<vault, server, lastUid, unread>>
db == <<dbLocal, dbRemote>>
watcher == <<events, pendingRenames>>
correlation == <<uidPairs, hashPaths, consumed>>
own == <<prevLocal, prevRemote, renames, local, remote, base, correlation, todo>>
bounds == <<ops, fails>>
vars == <<world, db, csRemote, watcher, pc, own, found, bounds>>

Nothing == [p \in Paths |-> None]
NoBase == [local |-> Nothing, remote |-> Nothing, snapshot |-> {}]
Rename(p, q) == [old |-> p, new |-> q]

File(body, time) == [body |-> body, hash |-> body, mtime |-> time, state |-> "live", uid |-> 0]
Record(f, uid) == [f EXCEPT !.uid = uid]
Deletion(hash, time, uid) ==
  [body |-> 0, hash |-> hash, mtime |-> time, state |-> "deleted", uid |-> uid]

(* Everything is in sync at first.                                         *)
FirstBody == CHOOSE f \in [Paths -> 1..Cardinality(Paths)] :
               \A p, q \in Paths : f[p] = f[q] => p = q

Init ==
  /\ \E E \in SUBSET Paths :
       /\ vault = [p \in Paths |-> IF p \in E THEN File(FirstBody[p], 0) ELSE None]
       /\ server = [p \in Paths |-> IF p \in E THEN Record(vault[p], FirstBody[p]) ELSE None]
  /\ lastUid = Cardinality(Paths)
  /\ dbLocal = vault /\ dbRemote = server
  /\ csRemote = Nothing /\ unread = Nothing
  /\ events = <<>> /\ pendingRenames = <<>>
  /\ pc = "idle" /\ prevLocal = Nothing /\ prevRemote = Nothing
  /\ renames = NoRenames /\ local = Nothing /\ remote = Nothing /\ base = NoBase
  /\ uidPairs = {} /\ hashPaths = {} /\ consumed = {}
  /\ todo = [p \in Paths |-> "none"]
  /\ found = [local |-> dbLocal, remote |-> dbRemote]
  /\ ops = 0 /\ fails = 0

-----------------------------------------------------------------------------
(* The user.                                                               *)

Tick == ops < MaxOps /\ ops' = ops + 1
NewBody == Cardinality(Paths) + ops'

Reported == {events[k] : k \in 1..Len(events)}
            \cup {pendingRenames[k] : k \in 1..Len(pendingRenames)}
Involved == UNION {{r.old, r.new} : r \in Reported}

(* The database does not hold what the last cycle found.                   *)
Stale == found # [local |-> dbLocal, remote |-> dbRemote]

(* Paths that have left other devices, by a deletion or a rename, and the   *)
(* latter, while no cycle has seen it.                                     *)
News(p) == server[p] # dbRemote[p]
GoneThere == {p \in Paths : Tombstone(server[p]) /\ News(p)}
RenamedThere == {p \in GoneThere : \E q \in Paths :
  Active(server[q]) /\ dbRemote[p] # None /\ dbRemote[p].body = server[q].body}

UserMay(paths) ==
  /\ pc = "idle" \/ ("userInCycle" \in Races /\ pc = "fixing")
  /\ "recreated" \in Races \/ \A r \in Reported : r.old \in paths => vault[r.old] # None
  /\ "soon" \in Races \/ ~Stale
  /\ Tick
  /\ UNCHANGED <<server, lastUid, unread, db, csRemote, pendingRenames, pc, own, found, fails>>

(* What the user writes is new, or a copy of another file.                 *)
Bodies(p) ==
  {NewBody} \cup (IF "copied" \in Races /\ vault[p] = None
                  THEN {vault[q].body : q \in {r \in Paths : vault[r] # None}} ELSE {})

UserEdit(p) ==
  /\ UserMay({p})
  /\ \E body \in Bodies(p) : vault' = [vault EXCEPT ![p] = File(body, ops')]
  /\ events' \in {events} \cup (IF "selfRename" \in Races /\ vault[p] # None
                                THEN {Append(events, Rename(p, p))} ELSE {})

UserDelete(p) ==
  /\ UserMay({p})
  /\ vault[p] # None
  /\ "goneHere" \in Races \/ p \notin RenamedThere
  /\ vault' = [vault EXCEPT ![p] = None]
  /\ UNCHANGED events

UserMove(p, q) ==
  /\ UserMay({q})
  /\ "bothSides" \in Races \/ ~(News(p) \/ News(q))
  /\ "replaced" \in Races \/ dbLocal[q] = None
  /\ vault[p] # None /\ vault[q] = None
  /\ vault' = [vault EXCEPT ![q] = vault[p], ![p] = None]
  /\ events' \in {Append(events, Rename(p, q))}
                 \cup (IF "unpaired" \in Races THEN {events} ELSE {})

(* The event of a rename arrives some time after it.                       *)
EventArrives ==
  /\ events # <<>>
  /\ pendingRenames' = Append(pendingRenames, Head(events))
  /\ events' = Tail(events)
  /\ UNCHANGED <<world, db, csRemote, pc, own, found, bounds>>

-----------------------------------------------------------------------------
(* Other devices.  The server sends each record to the read pump.          *)

DeviceMay(paths) ==
  /\ pc = "idle"
  /\ "soon" \in Races \/ ~Stale
  /\ "bothSides" \in Races \/ paths \cap Involved = {}
  /\ Tick
  /\ UNCHANGED <<vault, db, watcher, pc, own, found, fails>>

DeletionHashes(r) == IF "hashed" \in Races THEN {0, r.hash} ELSE {0}
Told(p, r) == /\ csRemote' = [csRemote EXCEPT ![p] = r]
              /\ unread' = [unread EXCEPT ![p] = None]

DeviceEdit(p) ==
  /\ DeviceMay({p})
  /\ "recreated" \in Races \/ p \notin GoneThere
  /\ lastUid' = lastUid + 1
  /\ server' = [server EXCEPT ![p] = Record(File(NewBody, ops'), lastUid')]
  /\ Told(p, server'[p])

DeviceDelete(p) ==
  /\ DeviceMay({p})
  /\ Active(server[p])
  /\ lastUid' = lastUid + 1
  /\ \E h \in DeletionHashes(server[p]) :
       server' = [server EXCEPT ![p] = Deletion(h, ops', lastUid')]
  /\ Told(p, server'[p])

(* The two records have the same uid, or not.  A cycle may come between    *)
(* the two messages.                                                       *)
DeviceRename(p, q) ==
  /\ DeviceMay({p, q})
  /\ Active(server[p]) /\ ~Active(server[q])
  /\ "recreated" \in Races \/ q \notin GoneThere
  /\ "goneHere" \in Races \/ vault[p] # None
  /\ lastUid' = lastUid + 2
  /\ \E h \in DeletionHashes(server[p]), uid \in {lastUid + 1, lastUid + 2} :
       server' = [server EXCEPT ![q] = Record(server[p], lastUid + 1),
                                ![p] = Deletion(h, ops', uid)]
  /\ csRemote' = [csRemote EXCEPT ![q] = server'[q]]
  /\ unread' = [unread EXCEPT ![q] = None, ![p] = server'[p]]

ReadDeletion(p) ==
  /\ pc = "idle" /\ unread[p] # None
  /\ Told(p, unread[p])
  /\ UNCHANGED <<vault, server, lastUid, db, watcher, pc, own, found, bounds>>

-----------------------------------------------------------------------------
(* doSync.  It takes the renames that have arrived, and applies them to    *)
(* the records that it has loaded and to cs.remote.                        *)

\* Mutant: the record of the old path stays.
CopyRecord(records, r) ==
  IF records[r.old] = None THEN records ELSE [records EXCEPT ![r.new] = records[r.old]]

(* A path that is renamed to itself loses its record.                      *)
MoveRecord(records, r) ==
  IF records[r.old] = None THEN records
  ELSE [records EXCEPT ![r.new] = records[r.old], ![r.old] = None]
MoveRecords(records, rs) ==
  LET after[k \in 0..Len(rs)] == IF k = 0 THEN records ELSE MoveRecord(after[k - 1], rs[k])
  IN  after[Len(rs)]
Olds(rs) == {rs[k].old : k \in 1..Len(rs)}
LastRename(rs) ==
  [p \in Olds(rs) |->
     rs[CHOOSE k \in 1..Len(rs) : rs[k].old = p /\ \A j \in k+1..Len(rs) : rs[j].old # p].new]

Begin ==
  /\ pc = "idle"
  /\ "late" \in Races \/ events = <<>>
  /\ pc' = "begun"
  /\ prevLocal' = MoveRecords(dbLocal, pendingRenames)
  /\ prevRemote' = MoveRecords(dbRemote, pendingRenames)
  /\ csRemote' = [p \in Paths |-> IF p \in Olds(pendingRenames) THEN None ELSE csRemote[p]]
  /\ remote' = csRemote'
  /\ renames' = LastRename(pendingRenames)
  /\ pendingRenames' = <<>>
  /\ UNCHANGED <<world, db, events, local, base, correlation, todo, found, bounds>>

(* The end of a cycle, however it ends.                                    *)
Leave ==
  /\ pc' = "idle"
  /\ prevLocal' = Nothing /\ prevRemote' = Nothing /\ renames' = NoRenames
  /\ local' = Nothing /\ remote' = Nothing /\ base' = NoBase
  /\ uidPairs' = {} /\ hashPaths' = {} /\ consumed' = {}
  /\ todo' = [p \in Paths |-> "none"]

(* No connection, or any error later on.                                   *)
Fail ==
  /\ pc # "idle" /\ fails < MaxFails
  /\ "failLate" \in Races \/ pc \in {"idle", "begun"}
  /\ fails' = fails + 1
  /\ Leave
  /\ UNCHANGED <<world, db, csRemote, watcher, found, ops>>

(* The program is started again, and the server sends what has changed.    *)
Restart ==
  /\ fails < MaxFails
  /\ "failLate" \in Races \/ pc \in {"idle", "begun"}
  /\ fails' = fails + 1
  /\ Leave
  /\ csRemote' = [p \in Paths |-> IF server[p] # dbRemote[p] THEN server[p] ELSE None]
  /\ unread' = Nothing /\ events' = <<>> /\ pendingRenames' = <<>>
  /\ UNCHANGED <<vault, server, lastUid, db, found, ops>>

-----------------------------------------------------------------------------
(* runSyncCycle begins: the baseline is copied, the vault scanned, and the *)
(* renames by uid are collected.  Of several deleted paths with one uid    *)
(* deletedUIDs holds the one that the iteration met last.                  *)

DeletedIn(records) == {p \in Paths : Tombstone(records[p])}
SameUid(records, p, q) == /\ p # q /\ Active(records[q])
                          /\ records[p].uid = records[q].uid /\ records[p].uid # 0

Scan ==
  /\ pc = "begun"
  /\ pc' = "fixing"
  /\ local' = vault
  /\ remote' = [p \in Paths |-> IF remote[p] # None THEN remote[p] ELSE prevRemote[p]]
  /\ base' = [local |-> prevLocal, remote |-> prevRemote,
              snapshot |-> {p \in Paths : remote[p] # None}]
  /\ LET deleted == DeletedIn(remote')
         pairs == {Rename(p, q) : p \in deleted, q \in Paths}
         byUid == {r \in pairs : SameUid(remote', r.old, r.new)}
     IN  \E chosen \in SUBSET byUid :
           /\ \A r \in byUid : \E s \in chosen : s.new = r.new
           /\ \A r, s \in chosen : r.new = s.new => r = s
           /\ uidPairs' = chosen
           /\ hashPaths' = deleted \ {r.old : r \in chosen}
           /\ consumed' = {r.new : r \in chosen}
  /\ UNCHANGED <<world, db, csRemote, watcher, prevLocal, prevRemote, renames, todo, found, bounds>>

\* Mutant: whether something is at the new path is not asked.
PreservedUnlessTaken(p, q) ==
  /\ local[p] # None
  /\ \/ prevLocal[p] = None /\ prevRemote[p] = None
     \/ prevLocal[p] # None /\ prevLocal[p].hash # local[p].hash
     \/ vault[p] = None

(* handleRemoteRename.  os.Rename moves what is there by now, and replaces *)
(* what is at the new path.                                                *)
Preserved(p, q) ==
  /\ local[p] # None
  /\ \/ prevLocal[p] = None /\ prevRemote[p] = None
     \/ prevLocal[p] # None /\ prevLocal[p].hash # local[p].hash
     \/ local[q] # None
     \/ vault[p] = None

WithUid(record, uid) == IF uid = 0 THEN record ELSE [record EXCEPT !.uid = uid]

MovePrevious(p, q) ==
  LET moved == MoveRecord(prevRemote, Rename(p, q))
  IN  prevRemote' = IF moved[q] = None \/ remote[q] = None THEN moved
                    ELSE [moved EXCEPT ![q] = WithUid(@, remote[q].uid)]

HandleRemoteRename(p, q) ==
  IF Preserved(p, q) THEN UNCHANGED <<vault, local, prevRemote, remote>>
  ELSE /\ IF local[p] = None THEN UNCHANGED <<vault, local>>
          ELSE /\ vault' = [vault EXCEPT ![q] = vault[p], ![p] = None]
               /\ local' = [local EXCEPT ![q] = local[p], ![p] = None]
       /\ MovePrevious(p, q)
       /\ remote' = [remote EXCEPT ![p] = None]

FixByUid(r) ==
  /\ pc = "fixing" /\ r \in uidPairs
  /\ uidPairs' = uidPairs \ {r}
  /\ HandleRemoteRename(r.old, r.new)
  /\ UNCHANGED <<server, lastUid, unread, db, csRemote, watcher, pc, prevLocal, renames, base,
                 hashPaths, consumed, todo, found, bounds>>

HashOf(p) == IF remote[p].hash # 0 THEN remote[p].hash
             ELSE IF prevRemote[p] # None THEN prevRemote[p].hash ELSE 0

(* By hash there has to be exactly one candidate that is not taken.        *)
Candidates(p) == {q \in Paths \ (consumed \cup {p}) :
                    Active(remote[q]) /\ remote[q].hash = HashOf(p) /\ HashOf(p) # 0}

FixByHash(p) ==
  /\ pc = "fixing" /\ uidPairs = {} /\ p \in hashPaths
  /\ hashPaths' = hashPaths \ {p}
  /\ IF Cardinality(Candidates(p)) = 1
     THEN \E q \in Candidates(p) :
            /\ consumed' = consumed \cup {q}
            /\ HandleRemoteRename(p, q)
     ELSE UNCHANGED <<consumed, vault, local, prevRemote, remote>>
  /\ UNCHANGED <<server, lastUid, unread, db, csRemote, watcher, pc, prevLocal, renames, base,
                 uidPairs, todo, found, bounds>>

Plan ==
  /\ pc = "fixing" /\ uidPairs = {} /\ hashPaths = {}
  /\ pc' = "exec"
  /\ todo' = BuildPlan(Paths, local, prevLocal, remote, prevRemote, renames)
  /\ UNCHANGED <<world, db, csRemote, watcher, prevLocal, prevRemote, renames, local, remote,
                 base, correlation, found, bounds>>

-----------------------------------------------------------------------------
(* executePlan.                                                            *)

Doing(p, kind) ==
  /\ pc = "exec" /\ todo[p] = kind
  /\ todo' = [todo EXCEPT ![p] = "none"]
  /\ UNCHANGED <<db, watcher, pc, prevLocal, prevRemote, renames, base, correlation, found, bounds>>

(* The session has read the echo when the answer comes, and the read pump  *)
(* reads its own in time.                                                  *)
Changed(records) ==
  LET now(old) == [p \in Paths |-> IF p \in DOMAIN records THEN records[p] ELSE old[p]]
  IN  /\ server' = now(server)
      /\ csRemote' = now(csRemote)
      /\ unread' = [p \in Paths |-> IF p \in DOMAIN records THEN None ELSE unread[p]]

Pushed(p) == [local[p] EXCEPT !.body = vault[p].body, !.uid = lastUid']

Upload(p) ==
  /\ Doing(p, "upload") /\ vault[p] # None
  /\ lastUid' = lastUid + 1
  /\ Changed([q \in {p} |-> Pushed(p)])
  /\ remote' = [remote EXCEPT ![p] = server'[p]]
  /\ UNCHANGED <<vault, local>>

(* With relatedpath.  The server may delete the path the file had, which   *)
(* it announces like any deletion, or leave that to the client.            *)
UploadRenamed(p) ==
  /\ Doing(p, "rename") /\ vault[p] # None
  /\ lastUid' = lastUid + 1
  /\ \E old \in {q \in DOMAIN renames : renames[q] = p} :
       LET moved == Active(server[old]) /\ old # p
           gone == Deletion(0, server[old].mtime, lastUid')
       IN  \E Q \in {{p}} \cup (IF moved THEN {{p, old}} ELSE {}) :
             /\ Changed([q \in Q |-> IF q = p THEN Pushed(p) ELSE gone])
             /\ remote' = [q \in Paths |-> IF q \in Q THEN server'[q] ELSE remote[q]]
  /\ UNCHANGED <<vault, local>>

DeleteRemote(p) ==
  /\ Doing(p, "deleteRemote")
  /\ lastUid' = lastUid + 1
  /\ Changed([q \in {p} |-> Deletion(0, ops, lastUid')])
  /\ remote' = [remote EXCEPT ![p] = None]
  /\ UNCHANGED <<vault, local>>

DeleteLocal(p) ==
  /\ Doing(p, "deleteLocal")
  /\ vault' = [vault EXCEPT ![p] = None]
  /\ local' = [local EXCEPT ![p] = None]
  /\ remote' = [remote EXCEPT ![p] = None]
  /\ UNCHANGED <<server, lastUid, unread, csRemote>>

Download(p) ==
  /\ \A q \in Paths : todo[q] \in {"none", "download"}
  /\ Doing(p, "download")
  /\ vault' = IF remote[p] = None THEN vault
              ELSE [vault EXCEPT ![p] = File(remote[p].body, remote[p].mtime)]
  /\ UNCHANGED <<server, lastUid, unread, csRemote, local, remote>>

-----------------------------------------------------------------------------
(* saveState writes what differs from the baseline: diffRecords upserts a  *)
(* record that is not Equal to the one of its path, and deletes the paths  *)
(* of the baseline that are gone.                                          *)
Diff(rows, before, now) ==
  [p \in Paths |-> IF now[p] = before[p] THEN rows[p] ELSE now[p]]

(* doSync then enters the records in cs.remote, for the paths it took from *)
(* there.                                                                  *)
Save ==
  /\ pc = "exec" /\ \A p \in Paths : todo[p] = "none"
  /\ dbLocal' = Diff(dbLocal, base.local, vault)
  /\ dbRemote' = Diff(dbRemote, base.remote, remote)
  /\ csRemote' = [p \in Paths |-> IF p \in base.snapshot THEN remote[p] ELSE csRemote[p]]
  /\ found' = [local |-> vault, remote |-> remote]
  /\ Leave
  /\ UNCHANGED <<world, watcher, bounds>>

User == \/ \E p \in Paths : UserEdit(p) \/ UserDelete(p)
        \/ \E p, q \in Paths : UserMove(p, q)

Device == \/ \E p \in Paths : DeviceEdit(p) \/ DeviceDelete(p)
          \/ \E p, q \in Paths : p # q /\ DeviceRename(p, q)

Correlate == (\E r \in uidPairs : FixByUid(r)) \/ (\E p \in hashPaths : FixByHash(p))
Execute == \E p \in Paths : \/ Upload(p) \/ UploadRenamed(p) \/ DeleteRemote(p)
                            \/ DeleteLocal(p) \/ Download(p)
Cycle == Begin \/ Scan \/ Correlate \/ Plan \/ Execute \/ Save
ReadPump == \E p \in Paths : ReadDeletion(p)

Next == User \/ EventArrives \/ Device \/ ReadPump \/ Cycle \/ Fail \/ Restart

(* Cycles go on, the watcher reports, and the read pump reads.             *)
Spec == /\ Init /\ [][Next]_vars
        /\ WF_vars(Cycle) /\ WF_vars(EventArrives) /\ SF_vars(ReadPump)

-----------------------------------------------------------------------------
Level(p) == IF vault[p] = None THEN ~Active(server[p])
            ELSE Active(server[p]) /\ server[p].body = vault[p].body

(* Once edits and renames have ceased, the vault and the server come to    *)
(* hold the same, whatever the cycles and their failures made of the       *)
(* renames (rename.go and applyRenameFixups are to save transfers, not to  *)
(* change what a sync ends in).                                            *)
Converges == <>[](\A p \in Paths : Level(p))

ByEngine == ops' = ops

(* What the user has written and no sync has seen is not lost by a step of *)
(* the engine: it is still somewhere in the vault, on the server or was in *)
(* the baseline, or the remote side is the newer one (plan.go: last write  *)
(* wins).                                                                  *)
InVault(f) == {f[p].body : p \in {q \in Paths : f[q] # None}}
OnServer == {server[p].body : p \in {q \in Paths : server[q] # None}}
LocalEditsKept ==
  [][ByEngine => \A p \in Paths :
       \/ vault[p] = None
       \/ vault[p].body \in InVault(vault') \cup InVault(dbLocal) \cup OnServer
       \/ remote[p] # None /\ remote[p].mtime >= vault[p].mtime]_vars

(* Nor what another device has: a record that the engine replaces is kept  *)
(* under another path, is one that a sync has seen, or is the older one.   *)
ServerEditsKept ==
  [][ByEngine => \A p \in Paths :
       \/ ~Active(server[p]) \/ server'[p] = server[p]
       \/ \E q \in Paths : \/ server'[q] # None /\ server'[q].body = server[p].body
                           \/ dbRemote[q] # None /\ dbRemote[q].body = server[p].body
       \/ server'[p].mtime >= server[p].mtime]_vars

(* A file that the user has deleted, or moved away, and nobody else has    *)
(* touched, does not come back as the last sync saw it (rename.go: the old *)
(* path of a rename is not downloaded again).                              *)
NoResurrection ==
  [][ByEngine => \A p \in Paths :
       vault[p] = None /\ vault'[p] # None =>
         \/ dbLocal[p] = None \/ vault'[p].body # dbLocal[p].body
         \/ vault'[p].body \in InVault(vault)
         \/ News(p)]_vars

=============================================================================
