----------------------------- MODULE Continuous -----------------------------
(***************************************************************************)
(* Continuous mode, internal/sync/continuous.go: what makes sync cycles    *)
(* run, and what they are told.  A read pump enters notifications of the   *)
(* main connection into cs.remote and triggers; the watcher reports local  *)
(* changes; the main loop turns both into a debounce timer; the timer      *)
(* calls doSync in a goroutine of its own; a heartbeat closes a silent     *)
(* connection; the main loop opens a new one.                              *)
(*                                                                         *)
(* What a cycle does to a path is the subject of VaultSync; here a change  *)
(* of a path is a version number that the server assigns, one for all      *)
(* uploads of a cycle, and a cycle either brings a path to the newest      *)
(* version it has been told of, or makes a version of its own.  Left out:  *)
(* deletions, renames, what a failing cycle has already done, the          *)
(* notifications a session reads on the execution connection, ready        *)
(* messages after the handshake, and other processes that use the lock.    *)
(***************************************************************************)
EXTENDS Naturals, Sequences, FiniteSets

CONSTANTS
  Paths,
  Calls,        \* the goroutines in which the timer calls doSync
  Listing,      \* what the server sends in a handshake
  Faults,       \* what goes wrong
  MaxChanges,   \* bound of the model on changes by other devices and the user
  MaxLosses     \* bound of the model on lost connections, stops and failures

(***************************************************************************)
(*   newsInCycle     the read pump or a new connection enters something in *)
(*                   cs.remote while a cycle is under way                  *)
(*   callInTail      a call of doSync that finds another one running does  *)
(*                   so, or says so, just as that one returns              *)
(*   connectionLost  the main connection breaks                            *)
(*   silence         the main connection delivers nothing any more         *)
(*   stop            the program is stopped and started again              *)
(*   stopInCycle     so it is, and a cycle is under way                    *)
(*   cycleFails      a dial, a handshake, the state database, a cycle fail *)
(***************************************************************************)
AllFaults == {"newsInCycle", "callInTail", "connectionLost", "silence", "stop",
              "stopInCycle", "cycleFails"}

(* One page of the protocol's documentation says that a handshake lists    *)
(* every file, another that it lists the changes since the client's        *)
(* version.                                                                *)
ListingAssumption == Listing \in {"everything", "newer"}
PathsAssumption == IsFiniteSet(Paths)
FaultsAssumption == Faults \subseteq AllFaults
BoundsAssumption == MaxChanges \in Nat /\ MaxLosses \in Nat

ASSUME ListingAssumption
ASSUME PathsAssumption
ASSUME FaultsAssumption
ASSUME BoundsAssumption

VARIABLES
  latest,       \* server: the version of the last change of every path
  seq,          \* server: the last version
  main,         \* the main connection, and what the main loop does about it
  stream,       \* main connection: notifications that are not read yet
  csRemote,     \* cs.remote; 0 is "not in the map"
  csVersion,    \* cs.version
  trigger,      \* the channel of the same name, of capacity one
  event,        \* watcher.Out has an event
  timer,        \* debounceTimer is running
  inProgress,   \* cs.syncInProgress
  pending,      \* cs.syncPending
  call,         \* where each call of doSync is
  snapshot,     \* remoteSnapshot of the call that runs a cycle
  updated,      \* updatedRemote of that call
  execVersion,  \* version and execVersion of that call
  lockFile,     \* the vault's lock exists
  dirty,        \* paths changed in the vault and not synced
  dbRemote,     \* state database: version of every path at the last save
  dbVersion,    \* state database: meta key version
  initial,      \* state database: meta key initial
  missed,       \* history: paths of which cs has lost, or was not sent, the news
  failed,       \* history: the last call of doSync that ran made no cycle
  changes, losses

server == <<latest, seq>>
loop == <<trigger, event, timer>>
flags == <<inProgress, pending>>
cs == <<csRemote, csVersion>>
work == <<snapshot, updated, execVersion>>
db == <<dbRemote, dbVersion, initial>>
history == <<missed, failed>>
bounds == <<changes, losses>>
vars == <<latest, seq, main, stream, csRemote, csVersion, trigger, event, timer,
          inProgress, pending, call, snapshot, updated, execVersion, lockFile,
          dirty, dbRemote, dbVersion, initial, missed, failed, changes, losses>>

Versions == [Paths -> Nat]
Notifications == [path : Paths, version : Nat]
InCycle == {"taken", "dialled", "cycled"}
Running == InCycle \cup {"begun", "locked", "unlocking", "ending", "clearing"}
Mains == {"up", "silent", "lost", "dropped", "connecting", "stopped"}

TypeOK ==
  /\ latest \in Versions /\ seq \in Nat
  /\ main \in Mains
  /\ stream \in Seq(Notifications)
  /\ csRemote \in Versions /\ csVersion \in Nat
  /\ trigger \in BOOLEAN /\ event \in BOOLEAN /\ timer \in BOOLEAN
  /\ inProgress \in BOOLEAN /\ pending \in BOOLEAN
  /\ call \in [Calls -> Running \cup {"none", "skipping"}]
  /\ snapshot \in Versions /\ updated \in Versions /\ execVersion \in Nat
  /\ lockFile \in BOOLEAN
  /\ dirty \subseteq Paths
  /\ dbRemote \in Versions /\ dbVersion \in Nat /\ initial \in BOOLEAN
  /\ missed \subseteq Paths /\ failed \in BOOLEAN
  /\ changes \in Nat /\ losses \in Nat

NoVersions == [p \in Paths |-> 0]

(* RunContinuous once it has connected for the first time.                 *)
Init ==
  /\ latest = NoVersions /\ seq = 0
  /\ main = "up" /\ stream = <<>>
  /\ csRemote = NoVersions /\ csVersion = 0
  /\ trigger = FALSE /\ event = FALSE /\ timer = TRUE
  /\ inProgress = FALSE /\ pending = FALSE
  /\ call = [c \in Calls |-> "none"]
  /\ snapshot = NoVersions /\ updated = NoVersions /\ execVersion = 0
  /\ lockFile = FALSE /\ dirty = {}
  /\ dbRemote = NoVersions /\ dbVersion = 0 /\ initial = TRUE
  /\ missed = {} /\ failed = FALSE
  /\ changes = 0 /\ losses = 0

CycleUnderWay == \E c \in Calls : call[c] \in InCycle
Goto(c, step) == call' = [call EXCEPT ![c] = step]

NewsMayArrive == CycleUnderWay => "newsInCycle" \in Faults

(* cs.mu is held by connect for as long as the handshake takes.            *)
MutexFree == main # "connecting"

-----------------------------------------------------------------------------
(* The environment.                                                        *)

Change == changes < MaxChanges /\ changes' = changes + 1 /\ UNCHANGED losses
Loss(fault) ==
  fault \in Faults /\ losses < MaxLosses /\ losses' = losses + 1 /\ UNCHANGED changes

Notify(notes) == stream' = IF main = "up" THEN stream \o notes ELSE stream

DevicePush(p) ==
  /\ Change
  /\ seq' = seq + 1
  /\ latest' = [latest EXCEPT ![p] = seq']
  /\ Notify(<<[path |-> p, version |-> seq']>>)
  /\ UNCHANGED <<main, cs, loop, flags, call, work, lockFile, dirty, db, history>>

UserEdit(p) ==
  /\ Change
  /\ dirty' = dirty \cup {p}
  /\ event' = (event \/ main # "stopped")
  /\ UNCHANGED <<server, main, stream, cs, trigger, timer, flags, call, work, lockFile,
                 db, history>>

LoseConnection ==
  /\ main \in {"up", "silent"}
  /\ Loss("connectionLost")
  /\ main' = "lost"
  /\ stream' = <<>>
  /\ UNCHANGED <<server, cs, loop, flags, call, work, lockFile, dirty, db, history>>

GoSilent ==
  /\ main = "up"
  /\ Loss("silence")
  /\ main' = "silent"
  /\ stream' = <<>>
  /\ UNCHANGED <<server, cs, loop, flags, call, work, lockFile, dirty, db, history>>

-----------------------------------------------------------------------------
(* The read pump and the heartbeat.                                        *)

PumpRead ==
  /\ main = "up"
  /\ stream # <<>>
  /\ NewsMayArrive
  /\ csRemote' = [csRemote EXCEPT ![Head(stream).path] = Head(stream).version]
  /\ stream' = Tail(stream)
  /\ trigger' = TRUE
  /\ missed' = missed \ {Head(stream).path}
  /\ UNCHANGED <<server, main, csVersion, event, timer, flags, call, work, lockFile,
                 dirty, db, failed, bounds>>

(* No message for heartbeatTimeout: the heartbeat closes the connection,   *)
(* and the read pump ends with an error.                                   *)
Heartbeat ==
  /\ main = "silent"
  /\ main' = "lost"
  /\ UNCHANGED <<server, stream, cs, loop, flags, call, work, lockFile, dirty, db,
                 history, bounds>>

-----------------------------------------------------------------------------
(* The main loop.                                                          *)

Selecting == main \in {"up", "silent", "lost"}

OnTrigger ==
  /\ Selecting
  /\ trigger
  /\ trigger' = FALSE
  /\ timer' = TRUE
  /\ UNCHANGED <<server, main, stream, cs, event, flags, call, work, lockFile, dirty, db,
                 history, bounds>>

OnEvent ==
  /\ Selecting
  /\ event
  /\ event' = FALSE
  /\ timer' = TRUE
  /\ UNCHANGED <<server, main, stream, cs, trigger, flags, call, work, lockFile, dirty,
                 db, history, bounds>>

OnPumpDone ==
  /\ main = "lost"
  /\ main' = "dropped"
  /\ csRemote' = NoVersions
  /\ UNCHANGED <<server, stream, csVersion, loop, flags, call, work, lockFile, dirty, db,
                 history, bounds>>

(* connect, once the backoff is over.  It empties cs.remote and holds cs.mu  *)
(* until the server has sent its listing.                                  *)
Connect ==
  /\ main = "dropped"
  /\ NewsMayArrive
  /\ main' = "connecting"
  /\ csRemote' = NoVersions
  /\ UNCHANGED <<server, stream, csVersion, loop, flags, call, work, lockFile, dirty, db,
                 history, bounds>>

(* The version the database will have of a path, as far as it is settled:  *)
(* a cycle under way may bring it a newer one.                             *)
CurrentRemote == [p \in Paths |-> IF snapshot[p] # 0 THEN snapshot[p] ELSE dbRemote[p]]
CycleToSave == \E c \in Calls : call[c] \in {"taken", "dialled"}
Saved == IF CycleToSave THEN CurrentRemote ELSE dbRemote

IsListed(p, version) == Listing = "everything" \/ initial \/ latest[p] > version

\* Mutant: the listing is a map of its own, without the paths that are not listed.
ListedOnly(version) == [p \in {o \in Paths : IsListed(o, version)} |-> latest[p]]

Listed(version) == [p \in Paths |-> IF IsListed(p, version) THEN latest[p] ELSE 0]
Unlisted(version) == {p \in Paths : ~IsListed(p, version) /\ Saved[p] # latest[p]}

\* Mutant: nothing is triggered after a reconnection.
ConnectedQuietly ==
  /\ main = "connecting"
  /\ main' = "up"
  /\ csRemote' = Listed(csVersion)
  /\ csVersion' = seq
  /\ stream' = <<>>
  /\ missed' = Unlisted(csVersion)
  /\ UNCHANGED <<server, loop, flags, call, work, lockFile, dirty, db, failed, bounds>>

Connected ==
  /\ main = "connecting"
  /\ main' = "up"
  /\ csRemote' = Listed(csVersion)
  /\ csVersion' = seq
  /\ stream' = <<>>
  /\ trigger' = TRUE
  /\ missed' = Unlisted(csVersion)
  /\ UNCHANGED <<server, event, timer, flags, call, work, lockFile, dirty, db, failed,
                 bounds>>

ConnectFails ==
  /\ main = "connecting"
  /\ Loss("connectionLost")
  /\ main' = "dropped"
  /\ UNCHANGED <<server, stream, cs, loop, flags, call, work, lockFile, dirty, db,
                 history>>

-----------------------------------------------------------------------------
(* doSync.                                                                 *)

InTail(steps) == (\E d \in Calls : call[d] \in steps) => "callInTail" \in Faults

\* Mutant: a call of doSync does not look whether another one is running.
FireAlways(c) ==
  /\ timer
  /\ main # "stopped"
  /\ call[c] = "none"
  /\ timer' = FALSE
  /\ inProgress' = TRUE
  /\ Goto(c, "begun")
  /\ failed' = FALSE
  /\ UNCHANGED <<server, main, stream, cs, trigger, event, pending, work, lockFile,
                 dirty, db, missed, bounds>>

(* The timer's goroutine starts, and swaps syncInProgress.                 *)
Fire(c) ==
  /\ timer
  /\ main # "stopped"
  /\ call[c] = "none"
  /\ InTail({"clearing"})
  /\ timer' = FALSE
  /\ inProgress' = TRUE
  /\ Goto(c, IF inProgress THEN "skipping" ELSE "begun")
  /\ failed' = (failed /\ inProgress)
  /\ UNCHANGED <<server, main, stream, cs, trigger, event, pending, work, lockFile,
                 dirty, db, missed, bounds>>

Skip(c) ==
  /\ call[c] = "skipping"
  /\ pending' = TRUE
  /\ Goto(c, "none")
  /\ UNCHANGED <<server, main, stream, cs, loop, inProgress, work, lockFile, dirty, db,
                 history, bounds>>

(* acquireLock fails: a program that was stopped has left its lock.        *)
LockBusy(c) ==
  /\ call[c] = "begun"
  /\ lockFile
  /\ Goto(c, "ending")
  /\ failed' = TRUE
  /\ UNCHANGED <<server, main, stream, cs, loop, flags, work, lockFile, dirty, db,
                 missed, bounds>>

(* acquireLock.  The state database is opened and loaded under the lock,   *)
(* and nobody else writes it meanwhile.                                    *)
Lock(c) ==
  /\ call[c] = "begun"
  /\ ~lockFile
  /\ lockFile' = TRUE
  /\ Goto(c, "locked")
  /\ UNCHANGED <<server, main, stream, cs, loop, flags, work, dirty, db, history,
                 bounds>>

(* A copy of cs.remote and cs.version, as soon as cs.mu is free.           *)
Take(c) ==
  /\ call[c] = "locked"
  /\ MutexFree
  /\ snapshot' = csRemote
  /\ execVersion' = csVersion
  /\ Goto(c, "taken")
  /\ UNCHANGED <<server, main, stream, cs, loop, flags, updated, lockFile, dirty, db,
                 history, bounds>>

(* The execution connection.  Its handshake returns the server's version;  *)
(* the listing that goes with it is dropped.                               *)
Dial(c) ==
  /\ call[c] = "taken"
  /\ execVersion' = seq
  /\ Goto(c, "dialled")
  /\ UNCHANGED <<server, main, stream, cs, loop, flags, snapshot, updated, lockFile,
                 dirty, db, history, bounds>>

(* One notification for every path that was pushed, in any order.          *)
Notes(paths, version) ==
  {s \in [1 .. Cardinality(paths) -> [path : paths, version : {version}]] :
     {s[i].path : i \in DOMAIN s} = paths}

(* runSyncCycle.  A path that changed on both sides is uploaded or         *)
(* downloaded; the planner decides.  The saved version is the one of the   *)
(* execution connection.                                                   *)
Cycle(c) ==
  /\ call[c] = "dialled"
  /\ \E uploads \in SUBSET dirty :
       /\ {p \in dirty : CurrentRemote[p] = dbRemote[p]} \subseteq uploads
       /\ seq' = IF uploads = {} THEN seq ELSE seq + 1
       /\ latest' = [p \in Paths |-> IF p \in uploads THEN seq' ELSE latest[p]]
       /\ \E notes \in Notes(uploads, seq') : Notify(notes)
       /\ updated' = [p \in Paths |-> IF p \in uploads THEN seq' ELSE CurrentRemote[p]]
  /\ dirty' = {}
  /\ dbRemote' = updated'
  /\ dbVersion' = execVersion
  /\ initial' = FALSE
  /\ Goto(c, "cycled")
  /\ UNCHANGED <<main, cs, loop, flags, snapshot, execVersion, lockFile, history,
                 bounds>>

(* An error return.  What only the snapshot had is not asked for again.    *)
CycleFails(c) ==
  /\ call[c] \in {"locked", "taken", "dialled"}
  /\ Loss("cycleFails")
  /\ Goto(c, "unlocking")
  /\ failed' = TRUE
  /\ missed' = missed \cup {p \in Paths : csRemote[p] = 0 /\ Saved[p] # dbRemote[p]}
  /\ UNCHANGED <<server, main, stream, cs, loop, flags, work, lockFile, dirty, db>>

\* Mutant: the results replace the whole map.
PublishAll(c) ==
  /\ call[c] = "cycled"
  /\ MutexFree
  /\ csVersion' = IF execVersion > csVersion THEN execVersion ELSE csVersion
  /\ csRemote' = updated
  /\ missed' = missed \cup {p \in Paths : snapshot[p] # 0 /\ updated[p] < csRemote[p]}
  /\ Goto(c, "unlocking")
  /\ UNCHANGED <<server, main, stream, loop, flags, work, lockFile, dirty, db, failed,
                 bounds>>

(* The results go back into cs, for the paths of the snapshot.             *)
Publish(c) ==
  /\ call[c] = "cycled"
  /\ MutexFree
  /\ csVersion' = IF execVersion > csVersion THEN execVersion ELSE csVersion
  /\ csRemote' = [p \in Paths |-> IF snapshot[p] # 0 THEN updated[p] ELSE csRemote[p]]
  /\ missed' = missed \cup {p \in Paths : snapshot[p] # 0 /\ updated[p] < csRemote[p]}
  /\ Goto(c, "unlocking")
  /\ UNCHANGED <<server, main, stream, loop, flags, work, lockFile, dirty, db, failed,
                 bounds>>

(* The deferred calls, last one first: the lock is released ...            *)
Unlock(c) ==
  /\ call[c] = "unlocking"
  /\ lockFile' = FALSE
  /\ Goto(c, "ending")
  /\ UNCHANGED <<server, main, stream, cs, loop, flags, work, dirty, db, history,
                 bounds>>

\* Mutant: requests that were skipped are forgotten.
RetriggerNever(c) ==
  /\ call[c] = "ending"
  /\ InTail({"skipping"})
  /\ pending' = FALSE
  /\ Goto(c, "clearing")
  /\ UNCHANGED <<server, main, stream, cs, loop, inProgress, work, lockFile, dirty, db,
                 history, bounds>>

(* ... then a sync that was requested meanwhile is scheduled ...           *)
Retrigger(c) ==
  /\ call[c] = "ending"
  /\ InTail({"skipping"})
  /\ timer' = (timer \/ pending)
  /\ pending' = FALSE
  /\ Goto(c, "clearing")
  /\ UNCHANGED <<server, main, stream, cs, trigger, event, inProgress, work, lockFile,
                 dirty, db, history, bounds>>

(* ... and the next call may run.                                          *)
Clear(c) ==
  /\ call[c] = "clearing"
  /\ inProgress' = FALSE
  /\ Goto(c, "none")
  /\ UNCHANGED <<server, main, stream, cs, loop, pending, work, lockFile, dirty, db,
                 history, bounds>>

-----------------------------------------------------------------------------
(* RunContinuous returns when its context is cancelled, and the program    *)
(* exits; it does not wait for a call of doSync.                           *)
Stop ==
  /\ main # "stopped"
  /\ \/ Loss("stop") /\ \A c \in Calls : call[c] = "none"
     \/ Loss("stopInCycle")
  /\ main' = "stopped"
  /\ stream' = <<>>
  /\ csRemote' = NoVersions /\ csVersion' = 0
  /\ trigger' = FALSE /\ event' = FALSE /\ timer' = FALSE
  /\ inProgress' = FALSE /\ pending' = FALSE
  /\ call' = [c \in Calls |-> "none"]
  /\ UNCHANGED <<server, work, lockFile, dirty, db, history>>

(* RunContinuous from the start to its first scheduleSync.                 *)
Start ==
  /\ main = "stopped"
  /\ main' = "up"
  /\ csRemote' = Listed(dbVersion)
  /\ csVersion' = seq
  /\ timer' = TRUE
  /\ missed' = Unlisted(dbVersion)
  /\ UNCHANGED <<server, stream, trigger, event, flags, call, work, lockFile, dirty, db,
                 failed, bounds>>

-----------------------------------------------------------------------------
Step(c) ==
  \/ Skip(c) \/ LockBusy(c) \/ Lock(c) \/ Take(c) \/ Dial(c) \/ Cycle(c)
  \/ Publish(c) \/ Unlock(c) \/ Retrigger(c) \/ Clear(c)

Loop == OnTrigger \/ OnEvent \/ OnPumpDone \/ Connect \/ Connected \/ Start

Environment ==
  \/ \E p \in Paths : DevicePush(p) \/ UserEdit(p)
  \/ LoseConnection \/ GoSilent \/ ConnectFails \/ Stop
  \/ \E c \in Calls : CycleFails(c)

Next ==
  \/ Environment \/ PumpRead \/ Heartbeat \/ Loop
  \/ \E c \in Calls : Fire(c) \/ Step(c)

Spec == Init /\ [][Next]_vars

(* Every goroutine runs on, the timer fires, the server answers, and a     *)
(* program that was stopped is started again.                              *)
FairSpec ==
  /\ Spec
  /\ WF_vars(PumpRead) /\ WF_vars(Heartbeat)
  /\ WF_vars(OnTrigger) /\ WF_vars(OnEvent)
  /\ WF_vars(OnPumpDone \/ Connect \/ Connected \/ Start)
  /\ WF_vars(\E c \in Calls : Fire(c))
  /\ \A c \in Calls : WF_vars(Step(c))

-----------------------------------------------------------------------------
(* Nothing is left that would make the client sync.                        *)
AtRest ==
  /\ main = "up" /\ stream = <<>>
  /\ ~trigger /\ ~event /\ ~timer
  /\ \A c \in Calls : call[c] = "none"

(* What a client lacks by now it lacks by a lapse: its last cycle failed,  *)
(* a request is marked in cs.syncPending, or, of a path, the results of a  *)
(* cycle have replaced newer news in cs.remote or a handshake has left out *)
(* what neither the database nor a cycle under way had.                    *)
HasAllButLapses ==
  ~failed /\ ~pending =>
    dirty = {} /\ \A p \in Paths \ missed : dbRemote[p] = latest[p]

(* Whatever goes wrong, a client at rest lacks a change only by a lapse:   *)
(* no notification and no local change is otherwise consumed without its   *)
(* effect.                                                                 *)
ForgottenOnlyByLapse == AtRest => HasAllButLapses

(* Once nothing changes and nothing breaks any more, the client, if it is  *)
(* not up to date by then, gets there by itself, but for lapses: after     *)
(* lost and silent connections, failed handshakes, restarts and requests   *)
(* that came while a cycle ran.                                            *)
CatchesUp == <>[]HasAllButLapses

(* Calls of doSync never run cycles side by side, however the timer fires: *)
(* they share the state database, cs and the vault.                        *)
OneCycleAtATime ==
  \A c, d \in Calls : call[c] \in Running /\ call[d] \in Running => c = d

(* A call that finds a sync in progress is made up for: another one begins *)
(* after it.  If its mark comes after the other's look at syncPending, the *)
(* mark stays for the call that comes next, whatever makes it come.        *)
LookYetToCome(c) == call[c] \in Running \ {"clearing"}
ServedOrMarked ==
  \A c \in Calls :
    call[c] = "skipping" ~>
      \/ main = "stopped"
      \/ \E d \in Calls : call[d] = "begun"
      \/ pending /\ \A d \in Calls : ~LookYetToCome(d)

(* What the code does not keep when the faults they are about can occur.   *)
(* A client at rest has seen every change, lapses or not.                  *)
NothingForgotten == AtRest => dbRemote = latest /\ dirty = {}

(* The results of a cycle leave alone what the read pump has entered in    *)
(* cs.remote meanwhile.                                                    *)
PublishKeepsNews ==
  [][\A c \in Calls : call[c] = "cycled" /\ call'[c] = "unlocking" =>
       \A p \in Paths : csRemote'[p] >= csRemote[p]]_vars

(* A request that a call has skipped is always served.                     *)
RequestsServed ==
  \A c \in Calls :
    call[c] = "skipping" ~> (main = "stopped" \/ \E d \in Calls : call[d] = "begun")

(* A program that was stopped has left no lock behind.                     *)
StoppedWithoutLock == main = "stopped" => ~lockFile
=============================================================================
