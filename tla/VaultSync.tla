----------------------------- MODULE VaultSync ------------------------------
(***************************************************************************)
(* The sync cycle of internal/sync/engine.go, as RunOnce runs it: connect  *)
(* and receive the server's records, load the state database, scan the     *)
(* vault, plan (module SyncPlan), execute the plan - uploads, deletions    *)
(* and merges one at a time, then downloads - rescan the vault and save    *)
(* both sides as the new baseline, in one transaction.  Meanwhile a user   *)
(* edits the vault and other devices edit the server's copy; a cycle may   *)
(* stop anywhere.                                                          *)
(*                                                                         *)
(* The text of a file is the set of the edits that made it: an edit is the *)
(* tick of the clock at which it was made.  A version of a file is what is *)
(* in it (body), what its record says of that (hash), its modification     *)
(* time, and whether it is a file or a deletion.  A record also carries    *)
(* the uid of its version, and a pull of the uid returns the version's     *)
(* body; the version stands for its uid here.                              *)
(*                                                                         *)
(* Left out: folders, encryption, and the lock (module SyncLock), by which *)
(* one cycle runs at a time.  RunOnce passes no local renames; two paths   *)
(* never have the same text or uid here, so applyRemoteRenameFixups finds  *)
(* nothing to do.                                                          *)
(***************************************************************************)
EXTENDS SyncPlan, FiniteSets

CONSTANTS
  Paths,
  Faults,       \* what the environment does besides editing between cycles
  MaxEdits,     \* bound of the model on edits
  MaxAborts     \* bound of the model on cycles that stop early

(***************************************************************************)
(*   userInCycle    the user edits while a cycle runs                      *)
(*   deviceInCycle  another device pushes while a cycle is connected       *)
(*   downloadFails  a worker fails to dial, pull or write                  *)
(*   mergeFails     a patch does not apply, a JSON file does not parse     *)
(*   pushRejected   the server answers the push of a merge with an error   *)
(*   removeFails    the operating system refuses to remove a file          *)
(*   lateEcho       the server sends the echo of a push after its answer   *)
(***************************************************************************)
AllFaults == {"userInCycle", "deviceInCycle", "downloadFails", "mergeFails",
              "pushRejected", "removeFails", "lateEcho"}

(* A pull on the main connection does not skip notifications; what it      *)
(* reads instead is not described here, so notifications and merges, which *)
(* pull there, are not studied together.                                   *)
MergesAreQuiet ==
  Faults \cap {"deviceInCycle", "lateEcho"} # {} => TextPaths = {} /\ JsonPaths = {}

Versions == [body : SUBSET Nat, hash : SUBSET Nat, mtime : Nat, state : {"live", "deleted"}]

NoneAssumption == None \notin Versions
FaultsAssumption == Faults \subseteq AllFaults
BoundsAssumption == MaxEdits \in Nat /\ MaxAborts \in Nat

ASSUME MergesAreQuiet
ASSUME NoneAssumption
ASSUME FaultsAssumption
ASSUME BoundsAssumption

VARIABLES
  vault,      \* the files in the vault directory
  server,     \* the server's current version of every path
  dbLocal,    \* state database: the local files at the last save
  dbRemote,   \* state database: the server's records at the last save
  initial,    \* state database: no cycle has been saved yet
  pc,         \* where the cycle is
  scanned,    \* currentLocal
  remote,     \* e.remote, then the session's remote map
  todo,       \* what the plan still has for every path
  unread,     \* notifications sent to the main connection and not read yet
  clock,      \* edits so far
  aborts      \* cycles that stopped early so far

disk == <<vault, server>>
db == <<dbLocal, dbRemote, initial>>
cycle == <<pc, scanned, remote, todo, unread>>
vars == <<vault, server, dbLocal, dbRemote, initial, pc, scanned, remote, todo,
          unread, clock, aborts>>

Records == Versions \cup {None}
Steps == {"idle", "connected", "exec", "save"}
Pending == {"upload", "deleteRemote", "deleteLocal", "mergeText", "mergeJSON", "pushMerged"}
Todos == Pending \cup {"none", "download", "downloaded", "failed"}

TypeOK ==
  /\ vault \in [Paths -> Records]
  /\ server \in [Paths -> Records]
  /\ dbLocal \in [Paths -> Records]
  /\ dbRemote \in [Paths -> Records]
  /\ initial \in BOOLEAN
  /\ pc \in Steps
  /\ scanned \in [Paths -> Records]
  /\ remote \in [Paths -> Records]
  /\ todo \in [Paths -> Todos]
  /\ unread \in [Paths -> Records]
  /\ clock \in Nat
  /\ aborts \in Nat

Nothing == [p \in Paths |-> None]
NoPlan == [p \in Paths |-> "none"]

File(body, mtime) == [body |-> body, hash |-> body, mtime |-> mtime, state |-> "live"]
\* Mutant: a deletion without a hash.
DeletionWithoutHash(mtime) == [body |-> {}, mtime |-> mtime, state |-> "deleted"]

Deletion(mtime) == [body |-> {}, hash |-> {0}, mtime |-> mtime, state |-> "deleted"]

Init ==
  /\ vault = Nothing
  /\ server = Nothing
  /\ dbLocal = Nothing
  /\ dbRemote = Nothing
  /\ initial = TRUE
  /\ pc = "idle"
  /\ scanned = Nothing
  /\ remote = Nothing
  /\ todo = NoPlan
  /\ unread = Nothing
  /\ clock = 0
  /\ aborts = 0

-----------------------------------------------------------------------------
(* The environment: the user and the other devices.                        *)

(* An edit of a file that can be merged adds to it; other files are        *)
(* replaced as a whole.                                                    *)
Edited(p, r) ==
  File((IF Active(r) /\ p \in TextPaths \cup JsonPaths THEN r.body ELSE {}) \cup {clock'},
       clock')

Tick == clock < MaxEdits /\ clock' = clock + 1

UserMayEdit == pc = "idle" \/ "userInCycle" \in Faults
DeviceMayEdit == pc = "idle" \/ "deviceInCycle" \in Faults

UserEdit(p) ==
  /\ UserMayEdit
  /\ Tick
  /\ \/ vault' = [vault EXCEPT ![p] = Edited(p, @)]
     \/ vault[p] # None /\ vault' = [vault EXCEPT ![p] = None]
  /\ UNCHANGED <<server, db, cycle, aborts>>

(* The server tells every connected client of a push.                      *)
DeviceEdit(p) ==
  /\ DeviceMayEdit
  /\ Tick
  /\ \/ server' = [server EXCEPT ![p] = Edited(p, @)]
     \/ Active(server[p]) /\ server' = [server EXCEPT ![p] = Deletion(clock')]
  /\ unread' = IF pc = "idle" THEN unread ELSE [unread EXCEPT ![p] = server'[p]]
  /\ UNCHANGED <<vault, db, pc, scanned, remote, todo, aborts>>

-----------------------------------------------------------------------------
(* A cycle begins.                                                         *)

(* ensureConnected and handshake: the server sends every record it has.    *)
Connect ==
  /\ pc = "idle"
  /\ pc' = "connected"
  /\ remote' = server
  /\ UNCHANGED <<disk, db, scanned, todo, unread, clock, aborts>>

(* loadState, scanLocal and buildPlan.  The first sync of a vault ignores  *)
(* what the database says.                                                 *)
Previous(records) == IF initial THEN Nothing ELSE records

PlanCycle ==
  /\ pc = "connected"
  /\ pc' = "exec"
  /\ scanned' = vault
  /\ remote' = [p \in Paths |->
       IF remote[p] # None THEN remote[p] ELSE Previous(dbRemote)[p]]
  /\ todo' = BuildPlan(Paths, scanned', Previous(dbLocal), remote',
                       Previous(dbRemote), NoRenames)
  /\ UNCHANGED <<disk, db, unread, clock, aborts>>

-----------------------------------------------------------------------------
(* The plan is executed.                                                   *)

Doing(p, kinds) == pc = "exec" /\ todo[p] \in kinds
Done(p) == todo' = [todo EXCEPT ![p] = "none"]

StopCycle ==
  /\ pc' = "idle"
  /\ scanned' = Nothing
  /\ remote' = Nothing
  /\ todo' = NoPlan
  /\ unread' = Nothing

(* What session.push and session.delete read while they wait for their     *)
(* answer: every notification, whatever its path.                          *)
Absorbed == [q \in Paths |-> IF unread[q] # None THEN unread[q] ELSE remote[q]]

\* Mutant: the session does not enter the echo of its push into its map.
PushIgnoringEcho(p, version) ==
  /\ server' = [server EXCEPT ![p] = version]
  /\ remote' = Absorbed
  /\ unread' = Nothing

(* A push: the server stores the version and notifies this client too; the *)
(* echo that precedes the answer is how the session learns the new record. *)
(* A push and its answer are one step here (module Session has the         *)
(* messages), and the step ends: the code waits for the answer without a   *)
(* deadline, so nothing said here is about a server that never answers.    *)
Push(p, version) ==
  /\ server' = [server EXCEPT ![p] = version]
  /\ \/ /\ remote' = [Absorbed EXCEPT ![p] = version]
        /\ unread' = Nothing
     \/ /\ "lateEcho" \in Faults
        /\ remote' = Absorbed
        /\ unread' = [Nothing EXCEPT ![p] = version]

(* The record pushed is the one of the scan, the text is read only now.    *)
Upload(p) ==
  /\ Doing(p, {"upload"})
  /\ IF vault[p] = None
       THEN StopCycle /\ UNCHANGED server
       ELSE /\ Push(p, [scanned[p] EXCEPT !.body = vault[p].body])
            /\ Done(p)
            /\ UNCHANGED <<pc, scanned>>
  /\ UNCHANGED <<vault, db, clock, aborts>>

(* session.delete stamps the deletion with the time of the call; the path  *)
(* is dropped from the session's map.                                      *)
DeleteRemote(p) ==
  /\ Doing(p, {"deleteRemote"})
  /\ server' = [server EXCEPT ![p] = Deletion(clock)]
  /\ remote' = [Absorbed EXCEPT ![p] = None]
  /\ unread' = IF "lateEcho" \in Faults
                 THEN [Nothing EXCEPT ![p] = Deletion(clock)] ELSE Nothing
  /\ Done(p)
  /\ UNCHANGED <<vault, db, pc, scanned, clock, aborts>>

(* A failing os.Remove is only logged.                                     *)
DeleteLocal(p) ==
  /\ Doing(p, {"deleteLocal"})
  /\ \/ vault' = [vault EXCEPT ![p] = None]
     \/ "removeFails" \in Faults /\ UNCHANGED vault
  /\ remote' = [remote EXCEPT ![p] = None]
  /\ scanned' = [scanned EXCEPT ![p] = None]
  /\ Done(p)
  /\ UNCHANGED <<server, db, pc, unread, clock, aborts>>

(* WriteFileWithTimes of what a pull of the record's uid returned.         *)
WriteVersion(p, r) == vault' = [vault EXCEPT ![p] = File(r.body, r.mtime)]

(* The merge base is the version of the last sync.                         *)
Base(p) == Previous(dbRemote)[p]

\* Mutant: the merge keeps the server's text.
MergedBodiesOfServer(p) == {remote[p].body}

(* threeWayMerge applies to the server's text what the local text adds to  *)
(* and drops from the base; jsonMerge keeps the server's object and adds   *)
(* what is local only, which may be any part of the local edits.           *)
MergedBodies(p) ==
  IF p \in TextPaths
    THEN {(remote[p].body \ (Base(p).body \ vault[p].body))
            \cup (vault[p].body \ Base(p).body)}
    ELSE {remote[p].body \cup kept : kept \in SUBSET vault[p].body}

Later(s, t) == IF s >= t THEN s ELSE t

MergeFallback(p) ==
  /\ WriteVersion(p, remote[p])
  /\ Done(p)
  /\ UNCHANGED scanned

(* mergeTextFile and mergeJSONFile up to the local write.  Any failure     *)
(* falls back to the server's version.  (The code enters the merged record *)
(* into currentLocal after the push; nobody reads it there in between.)    *)
Merge(p) ==
  /\ Doing(p, {"mergeText", "mergeJSON"})
  /\ \/ /\ \/ vault[p] = None
           \/ p \in TextPaths /\ Base(p) = None
           \/ "mergeFails" \in Faults
        /\ MergeFallback(p)
     \/ /\ vault[p] # None
        /\ p \in TextPaths => Base(p) # None
        /\ \E body \in MergedBodies(p) :
             scanned' = [scanned EXCEPT ![p] =
               File(body, Later(remote[p].mtime, scanned[p].mtime))]
        /\ vault' = [vault EXCEPT ![p] = scanned'[p]]
        /\ todo' = [todo EXCEPT ![p] = "pushMerged"]
  /\ UNCHANGED <<server, db, pc, remote, unread, clock, aborts>>

PushMerged(p) ==
  /\ Doing(p, {"pushMerged"})
  /\ Push(p, scanned[p])
  /\ Done(p)
  /\ UNCHANGED <<vault, db, pc, scanned, clock, aborts>>

(* The server refuses the push; the merged file is overwritten.            *)
RejectMerged(p) ==
  /\ "pushRejected" \in Faults
  /\ Doing(p, {"pushMerged"})
  /\ MergeFallback(p)
  /\ UNCHANGED <<server, db, pc, remote, unread, clock, aborts>>

-----------------------------------------------------------------------------
(* The downloads come last; the workers only read the session's map.       *)

OnlyDownloadsLeft == \A q \in Paths : todo[q] \notin Pending

Download(p) ==
  /\ Doing(p, {"download"})
  /\ OnlyDownloadsLeft
  /\ IF remote[p] = None
       THEN Done(p) /\ UNCHANGED vault
       ELSE WriteVersion(p, remote[p]) /\ todo' = [todo EXCEPT ![p] = "downloaded"]
  /\ UNCHANGED <<server, db, pc, scanned, remote, unread, clock, aborts>>

DownloadFails(p) ==
  /\ "downloadFails" \in Faults
  /\ Doing(p, {"download"})
  /\ OnlyDownloadsLeft
  /\ todo' = [todo EXCEPT ![p] = "failed"]
  /\ UNCHANGED <<disk, db, pc, scanned, remote, unread, clock, aborts>>

Some(outcome) == \E q \in Paths : todo[q] = outcome

(* The end of executeDownloadsParallel, then the second scan.  Jobs may be *)
(* left over once workers have failed.  Only a cycle in which nothing was  *)
(* downloaded counts as failed.                                            *)
Rescan ==
  /\ pc = "exec"
  /\ OnlyDownloadsLeft
  /\ Some("download") => Some("failed")
  /\ IF Some("failed") /\ ~Some("downloaded")
       THEN StopCycle
       ELSE /\ pc' = "save"
            /\ scanned' = vault
            /\ todo' = NoPlan
            /\ UNCHANGED <<remote, unread>>
  /\ UNCHANGED <<disk, db, clock, aborts>>

\* Mutant: the server's records are not saved with the local ones.
SaveLocal ==
  /\ pc = "save"
  /\ dbLocal' = scanned
  /\ initial' = FALSE
  /\ StopCycle
  /\ UNCHANGED <<disk, dbRemote, clock, aborts>>

(* saveState and SaveStateAtomic; then the connection is closed.           *)
Save ==
  /\ pc = "save"
  /\ dbLocal' = scanned
  /\ dbRemote' = remote
  /\ initial' = FALSE
  /\ StopCycle
  /\ UNCHANGED <<disk, clock, aborts>>

(* The cycle stops where it is: the process dies or is told to stop, the   *)
(* connection breaks, a file cannot be read or written.                    *)
Abort ==
  /\ pc # "idle"
  /\ aborts < MaxAborts
  /\ aborts' = aborts + 1
  /\ StopCycle
  /\ UNCHANGED <<disk, db, clock>>

-----------------------------------------------------------------------------
Execute(p) ==
  \/ Upload(p) \/ DeleteRemote(p) \/ DeleteLocal(p)
  \/ Merge(p) \/ PushMerged(p) \/ RejectMerged(p)
  \/ Download(p) \/ DownloadFails(p)

Engine == Connect \/ PlanCycle \/ (\E p \in Paths : Execute(p)) \/ Rescan \/ Save

Environment == \E p \in Paths : UserEdit(p) \/ DeviceEdit(p)

Next == Engine \/ Environment \/ Abort

Spec == Init /\ [][Next]_vars

(* A cycle that has begun goes on, and another one is run some time after  *)
(* it (by hand, by a timer, by the continuous mode).                       *)
FairSpec == Spec /\ WF_vars(Engine)

-----------------------------------------------------------------------------
(* Properties.                                                             *)

Agree(l, r) ==
  IF l = None THEN ~Active(r) ELSE Active(r) /\ l.hash = r.hash

(* The baseline of the next sync is one on which both sides agreed: what   *)
(* the database holds of the vault and of the server is the same files     *)
(* with the same content.  saveState stores two maps that were obtained    *)
(* separately, one by a scan, one from messages.                           *)
BaselineAgrees == \A p \in Paths : Agree(dbLocal[p], dbRemote[p])

(* What the next sync would plan, if it began now.                         *)
NextPlan(p) ==
  Reconcile(p, vault[p], Previous(dbLocal)[p],
            IF server[p] # None THEN server[p] ELSE Previous(dbRemote)[p],
            Previous(dbRemote)[p])

Level(p) ==
  IF vault[p] = None THEN ~Active(server[p])
  ELSE Active(server[p]) /\ vault[p].body = server[p].body

(* Between cycles, a file on which the vault and the server differ is one  *)
(* the next sync acts on: no difference is ever mistaken for the baseline. *)
NoSilentDivergence ==
  pc = "idle" => \A p \in Paths : NextPlan(p) = "none" => Level(p)

(* The engine's own steps, as opposed to edits.                            *)
ByEngine == clock' = clock

Body(r) == IF r = None THEN {} ELSE r.body

(* An edit of the user that no sync has saved disappears from the vault    *)
(* only by the documented rules: a file that cannot be merged gives way to *)
(* a later version, a note without a common base to the server's, and so   *)
(* does a value in a JSON file that both sides have set, or a file whose   *)
(* merge fails.                                                            *)
EditsOnlyLostByRule ==
  [][ByEngine => \A p \in Paths :
       \/ (Body(vault[p]) \ Body(vault'[p])) \subseteq Body(dbLocal[p])
       \/ p \notin TextPaths \cup JsonPaths /\ remote[p].mtime >= vault[p].mtime
       \/ p \in TextPaths /\ Base(p) = None
       \/ p \in JsonPaths /\ remote[p] # dbRemote[p]
       \/ {"mergeFails", "pushRejected"} \cap Faults # {} /\ MergeFallback(p)]_vars

(* A file the user has deleted does not come back as it was at the last    *)
(* sync: only another version of it can.                                   *)
NoResurrection ==
  [][ByEngine => \A p \in Paths :
       vault[p] = None /\ vault'[p] # None =>
         dbLocal[p] = None \/ vault'[p].body # dbLocal[p].body]_vars

(* A sync leaves alone a file on which the vault and the server agree,     *)
(* even if the cycle that made them agree died before it could save that:  *)
(* two clients that have settled do not keep pushing to each other.  (A    *)
(* merge that came out as the server's text is still pushed once.)         *)
SettledFilesUntouched ==
  [][ByEngine => \A p \in Paths :
       Level(p) /\ todo[p] # "pushMerged" =>
         vault'[p] = vault[p] /\ server'[p] = server[p]]_vars

(* The client never replaces a file on the server by an older version.     *)
ServerNeverGoesBack ==
  [][ByEngine => \A p \in Paths :
       Active(server[p]) => server'[p].mtime >= server[p].mtime]_vars

(* Once the edits stop, syncing makes the vault and the server equal, and  *)
(* leaves them so.                                                         *)
Converges == <>[](\A p \in Paths : Level(p))

(* Until the first sync of a vault is saved, no file is deleted, on either *)
(* side, however often it is interrupted and whatever goes on meanwhile.   *)
FirstSyncDeletesNothing ==
  [][ByEngine /\ initial => \A p \in Paths :
       /\ vault[p] # None => vault'[p] # None
       /\ Active(server[p]) => Active(server'[p])]_vars
=============================================================================
