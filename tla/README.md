# A verification of obsidian-headless

obsidian-headless (`ob`) is a command-line client of the Obsidian Sync and
Publish services. This directory holds TLA+ models of the Go program under
`src/`, the configurations with which TLC checks them, and proofs that TLAPS
checks. Paths of the Go code below are relative to `src/internal/`.

## The system

| component | state | operations |
|---|---|---|
| vault lock, `sync/lock.go` | one lock file per vault | `acquireLock`, release |
| planner, `sync/plan.go` | none (a pure function) | `buildPlan` |
| sync cycle, `sync/engine.go` | the vault's files, the records of the server, the connection | `RunOnce`, `runSyncCycle`, `executePlan`, the download workers, `saveState` |
| merges, `sync/merge.go` | none | `threeWayMerge`, `jsonMerge` |
| session, `sync/session.go` | the remote map, the position in the message stream | `pull`, `push`, `delete` |
| connection, `sync/connection.go` | websocket, version | `ensureConnected`, `handshake`, `dialWorker` |
| state store, `storage/state.go` | SQLite: local files, server files, `initial`, `version` | `SaveStateAtomic`, loads |
| continuous mode, `sync/continuous.go` | `cs.remote`, `syncInProgress`, `syncPending`, timer, pending renames | read pump, heartbeat, `scheduleSync`, `doSync`, reconnection |
| renames, `sync/rename.go`, `applyRenameFixups` | the previous and current maps, the disk | local and remote rename fixups |
| watcher, `sync/watch/` | known inodes, delayed deletions, ignore list | event loop, rescan, aggregator |
| breaker, `circuitbreaker/` with gobreaker | closed, open, half-open, counts | `Execute` |
| publish, `publish/engine.go` | the site, a cache that is written and never read | list, scan, compare, upload, remove |
| secrets, `config/secrets.go`, `storage/credentials.go` | keyring, fallback database, master key | get, set, delete |
| configuration, `config/config.go` | a directory per vault: `config.json`, `state.db` | read, write, remove, find by path |
| commands, `cli/` | a token, secrets and configuration | login, logout, sync-setup, sync-config, sync-unlink, sync, publish |

How they interact. A cycle of either mode takes the lock, loads the state
database, scans the vault, plans, executes the plan through a session on a
websocket, scans again and saves both sides in one transaction. Continuous mode
runs the same `runSyncCycle` from a debounce timer, fed by the watcher and by a
read pump on a second websocket. Every dial goes through the breaker. The commands
write the secrets and the configuration from which a sync starts. Other
devices change the server's files at any time; the server notifies every
connection of every push, the pusher's too.

What is hard about it: a cycle works on four copies of the truth (vault, server,
and the database's memory of both) that change under it; it reads notifications
only where it waits for answers; downloads fail one by one; a cycle can die
between any two actions; locks go stale by the clock; continuous mode is five
goroutines over one mutex-protected map. `PROJECT.json` lists each such hazard at
its line, with the properties that cover it, and a note where a run leaves part of it
out or no property covers it. Most hazards of this code bite: where a property fails
once the hazard can occur, the runs leave that fault out by name, and "What the code
does not keep" lists the property, the fault and the constants that show it.

What makes each part correct:

* lock: at most one cycle per vault; a dead process does not block the vault for
  ever.
* planner: no deletion without the consent of the side that loses the file; a
  path without an action is settled; planning again after a crash is harmless.
* session: every answer is the answer to its request; what succeeds has been
  transferred whole; no notification that was read is lost.
* download workers: files hold what was recorded for them; the caller gets an answer,
  and an honest one; a vault that cannot be reached is probed one dial at a time.
* renames: moving records about loses no edit of either side, brings nothing back,
  and ends in the state a sync without renames would end in.
* watcher: no change goes unnoticed; what it calls a rename is one; excluded paths
  stay unseen; what is held back is let go.
* commands: a secret is found where it was left and is gone when it was forgotten; a
  sync starts from its own past or from none; the site is what the vault asks for.
* continuous mode: cycles do not overlap; a request made during a cycle is made up
  for; no notification and no local change is consumed without its effect, through
  lost connections and restarts.
* cycle: the saved baseline is one on which both sides agreed; no difference is
  ever mistaken for the baseline; edits are lost only by the documented rules;
  deleted files do not come back; settled files are left alone; a first sync
  deletes nothing; the sides converge.

## The modules

### SyncLock, SyncLockProofs

`SyncLock` models `acquireLock` and the function it returns, one action per
system call: `Create` (the first `openExclusive`), `Stat`, `RemoveStale`,
`Recreate`, `Release`. `Crash` and `Age` (24 hours pass) are the environment.
`lockFile` is the file, with its creator (the text in the file names him; nothing
reads it) and whether it is older than `staleLockAge`.

`robbed` is history: the holders whose file somebody else has removed.

* `SyncLock_takeovers` (pass): three processes, three crashes, takeovers that overlap
  in any way, cycles that last longer than 24 hours. Two cycles run at once only if
  the file of one was removed under it (`ExclusiveUnlessRobbed`); that is the doing of
  a takeover or of the release of a process that was itself robbed, and of nothing else
  (`RobbedByTakeover`); an orphaned lock is recovered (`OrphanRecovered`).

That takeovers do rob is a fact of the code: see "What the code does not keep".

Bounds. Three processes: a holder, one that robs it, and one that gets in next. Three
crashes, so that every one of them may leave a file.

Fairness in `FairSpec`: time passes (`Age`), and each process goes on with
its system calls and tries again later. Crashes are never required.

### SyncPlan, MCSyncPlan, SyncPlanProofs

`SyncPlan` is `buildPlan` as operators: `RecordChanged`, `ChooseRemote`,
`Conflict` (both sides changed), `Reconcile` (one path), `PlanAction` (with local
renames), `BuildPlan`. `isMergeablePath` and `isJSONConfigPath` are the constants
`TextPaths` and `JsonPaths`. A record is its hash, modification time and whether
it is a deletion.

* `SyncPlan_rows` (pass): no file is deleted without the consent of the side that loses
  it, no action means that the path is settled, and a plan made again after a crash that
  followed its execution is empty. There is one initial state for every combination of
  local record, remembered local record, remote record and remembered remote record of
  one path of each kind, with three hashes and three times, 47098 combinations. Three of
  each suffice: the code only compares two hashes or two times of the same row, and a
  row in which all differ needs three. No row depends on another path unless renames are
  given.

### VaultSync, VaultSyncProofs

`VaultSync` is one client running cycles, a user, and other devices.

| code | model |
|---|---|
| the vault directory | `vault` |
| the server's current versions | `server` |
| tables `local_files`, `server_files`, meta key `initial` | `dbLocal`, `dbRemote`, `initial` |
| `currentLocal` | `scanned` |
| `e.remote`, then `session.remote` | `remote` |
| the plan and how far it is executed | `todo` |
| bytes that wait in the websocket | `unread` |
| `ensureConnected`, `handshake` | `Connect` |
| `loadState`, `scanLocal`, `buildPlan` | `PlanCycle` |
| the cases of `executePlan` | `Upload`, `DeleteRemote`, `DeleteLocal`, `Merge` with `PushMerged` / `RejectMerged` |
| the download workers | `Download`, `DownloadFails` |
| end of `executeDownloadsParallel`, second scan | `Rescan` |
| `saveState`, `SaveStateAtomic` | `Save` |
| any early return, a signal, a crash | `Abort` |

The text of a file is the set of the edits that made it, so a model state shows
whether an edit was lost. `body` is what a version contains and `hash` what its
record says it contains; they are two fields because the code pushes the hash of
the scan with the content of a later read. Modification times are the ticks of a
clock shared by everybody (clients with wrong clocks are not modelled).

`Faults` says what may happen besides edits between cycles, so that a run can
show which fault breaks which property: `userInCycle`, `deviceInCycle`,
`downloadFails`, `mergeFails`, `pushRejected`, `removeFails`, `lateEcho`.
Everything in the list is something the code meets in reality.

* `VaultSync_quiet` (pass): a note, a configuration file and an image; merges that
  fail, pushes that are rejected, a cycle that stops at any point. All the safety
  properties of the cycle and convergence.
* `VaultSync_busy` (pass): edits during cycles, failing downloads, refused removals,
  late echoes. What survives: a first sync deletes nothing.

Notes that both sides have at the first sync are never merged (there is no base);
the server's version replaces a newer local one.

Bounds. `MaxEdits` is 4 in the quiet run: two edits let each side make a version and
settle, two more let each change it again, with a deletion and a re-creation among them.
The three paths are one of each kind that the planner tells apart, and serve every
property that relates paths: an upload enters what the server's other paths have become
between cycles (`Absorbed`). A notification that arrives during a cycle is the fault
`deviceInCycle`, which this run leaves out. One abort is enough because an abort leaves
only the disk and the database, and the next cycle starts from any such state.

Fairness. `FairSpec` asks that a cycle which has begun goes on and that another
one follows (`WF_vars(Engine)`): the engine is one goroutine that never waits for
the user, cycles are started again by hand, by a timer or by continuous mode. That an
upload's answer comes is an assumption about the server, not something the code sees
to: `readMessageLogged` (`session.go:350`) waits without a deadline, and a cycle whose
answer never comes does not end. No fairness is asked of edits, faults or aborts.

### Continuous, ContinuousProofs

`Continuous` is `RunContinuous`: what makes cycles run and what they are told.

| code | model |
|---|---|
| `cs.remote`, `cs.version` | `csRemote`, `csVersion`; a path that is not in the map has version 0 |
| `cs.syncInProgress`, `cs.syncPending` | `inProgress`, `pending` |
| the channels `trigger`, `watcher.Out`; `debounceTimer` | `trigger`, `event`, `timer` |
| the main connection and where the main loop's `select` is | `main`, `stream` |
| each goroutine in which the timer calls `doSync` | `call[c]`, one value per step |
| `remoteSnapshot`, `updatedRemote`, `version` of that call | `snapshot`, `updated`, `execVersion` |
| tables and meta keys of the state database | `dbRemote`, `dbVersion`, `initial` |
| `startReadPump`, `startHeartbeat` | `PumpRead`, `Heartbeat` |
| the main loop's cases | `OnTrigger`, `OnEvent`, `OnPumpDone`, `Connect` to `Connected` or `ConnectFails` |
| `doSync`: `Swap`, the lock, snapshot under `cs.mu`, dial and handshake, `runSyncCycle`, publication, the deferred calls in their order | `Fire`/`Skip`, `Lock`/`LockBusy`, `Take`, `Dial`, `Cycle`/`CycleFails`, `Publish`, `Unlock`, `Retrigger`, `Clear` |
| cancelled context and exit; the next start | `Stop`, `Start` |

A change of a path is the version the server gave it. What a cycle does to a path
is the subject of `VaultSync`; here it brings a path to the newest version it was
told of, or makes a version of its own. Deletions, renames and the effects of half
a cycle are left out. Two pages of the documentation disagree on what a handshake
lists, everything or what is newer than the client's version, so `Listing` is a
parameter. `missed` and `failed` are history: the paths whose news was lost to
the client, and whether its last cycle failed.

* `Continuous_rough` (pass): everything goes wrong. Connections break and fall silent,
  the program is stopped anywhere and started again, cycles fail, news and requests come
  at the worst moments, handshakes list only what is newer. Cycles never overlap
  (`OneCycleAtATime`). A client at rest lacks a change only by one of four lapses: its
  last cycle failed, a request is left in `cs.syncPending`, or, of that path, a cycle's
  older results have replaced newer news in `cs.remote`, or a handshake has left out
  what the client had not seen (`ForgottenOnlyByLapse`). But for these it catches up by
  itself once nothing changes or breaks any more (`CatchesUp`). A request that was
  skipped is served, or stays marked for the next call (`ServedOrMarked`).

Each lapse is a place where the code does not keep what is expected of it, see "What the code
does not keep". Without those faults (`Faults` of `connectionLost`, `silence` and `stop`,
`Listing = "everything"`, two paths, two changes, one loss) `NothingForgotten` and
`RequestsServed`, which excuse nothing, hold too.

Bounds. One path, because the lapses of a path concern it alone and the other properties are
about calls; two changes, so that news meets older news; two losses, so that a reconnection
can fail and a restart meet a broken connection. Two calls: a third would find the same
flags as the second, which it cannot tell apart.

Fairness. Every goroutine goes on, the timer fires, the server answers a
handshake, a stopped program is started again. The first two are what the Go
runtime does; the last two are the conditions under which catching up means
anything: a handshake has no deadline either. Nothing is asked of the user, other
devices or faults, and a reconnection may fail as long as there are losses to spend.

### Session, Breaker, Transfers, Downloads, TransfersProofs, SessionProofs

`Transfers` composes three modules: `Session` is the protocol on a connection,
`Breaker` the circuit breaker that all connections of a vault share, and the rest
is how the engine uses them: `executePlan`, then `executeDownloadsParallel`.
`Downloads` is the abstract specification of the worker pool.

| code | model |
|---|---|
| the two directions of a websocket | `request[c]`, `inbox[c]` |
| where `push`, `pull` or `delete` waits for what it reads next | `call[c]` |
| what it returned; `session.remote` | `result[c]`, `remote` |
| `push`: request, pieces, answers | `StartPush`, `PushReadsReply` |
| `pull`: request, answer, pieces, decryption | `StartPull`, `PullReadsAnswer`, `PullReadsPiece` |
| `delete` | `StartDelete`, `DeleteReadsReply` |
| the server of a connection | `ServePull`, `ServePush`, `ServeFrame`, `ServeDelete`, `Refuse`, `OtherDevice` |
| jobs channel, its `close`, the counters, `errMsgs` | `jobsCh`, `fed`, `closed`, `done`, `errMsgs` |
| a worker goroutine | `worker[w]`, with its attempt, the generation it dialled in and its job |
| `dialWorker`; a dial that has begun may succeed after a cancellation | `Dial`, `DialSucceeds`, `DialFails` |
| the loop of a worker | `Take`, `TakeInVain`, `PullFails`, `Store`, `Exit` |
| the feeder, `wg.Wait`, the count of errors | `Feed`, `StopFeeding`, `Return`, `Outcome` |
| `context.AfterFunc` | `Cancel` |
| `SyncWS` settings with gobreaker's counters | `Breaker` operators, `TripAfter`, `MaxRequests` |

A request has no identifier: a call takes the next message for its answer. So the
server's messages are in one sequence per connection, notifications among them,
and a frame knows which version and which position it belongs to. Content is a
length in units, `chunkSize` of which make a frame; encryption adds `Overhead`.

* `Transfers_pool` (pass): a plan of up to two calls beside another device, or
  two workers with two files of two frames. Answers belong to their requests
  (`InStep`), notifications that are read are entered (`NewsKept`), what counts as
  transferred is whole (`PullsAsRecorded`, `PushedWhole`), a half-open breaker
  admits one dial (`ProbesBounded`), and the pool implements `Downloads`
  (`PoolKeepsPromise`, a refinement, with its liveness). Of a cancelled sync `Downloads`
  says what the code gives, a nil or an error; `docs/parallel-downloads.md:127` promises
  "All workers exit; `ctx.Err()` returned". That is `CancelReported`, which the code does
  not keep, see below.
* `Session_pieces` (violation): `push` counts pieces before encryption.

Bounds. Two workers and two jobs: one worker can give up while the other works,
both can wait at the breaker, one job can be in hand while the other is in the
channel. Files of two frames so that a transfer can break between frames.
`TripAfter` 2 against three attempts (in the code 3 against 7) so that a worker
meets an open breaker of its own making, `MaxTimeouts` 1 so that it half-opens,
with older calls still out; the theorems hold for any numbers. Encrypted content of 3 units
is cut in two frames of 2 before and after encryption; the size at which the two
differ is left to `Session_pieces`. `MaxUid` 3 with two jobs leaves room for one new version,
so that the order of two notifications of one path is not exercised by the run;
`NewsKeptTheorem` has it, for any number. Calls on the main connection and downloads
share nothing but the breaker, so `MaxMixed` 0 keeps them in separate behaviours.

Fairness. Each goroutine goes on; so does a connection: the server answers or the
connection breaks. The code has no timeout for a server that falls silent, so
nothing here says what happens then.

### Renames

`Renames` is a cycle of continuous mode whose subject is renames; it uses the
planner of `SyncPlan` with its rename rows.

| code | model |
|---|---|
| `cs.pendingRenames`, events in the watcher | `pendingRenames`, `events` |
| `previousLocal`, `previousRemote`, `localRenames`, `currentLocal`, `currentRemote` | `prevLocal`, `prevRemote`, `renames`, `local`, `remote` |
| `applyRenameFixups` | `MoveRecords`, in `Begin` |
| the uid and the hash part of `applyRemoteRenameFixups` | `FixByUid`, `FixByHash` |
| `handleRemoteRename` | `HandleRemoteRename`, `MovePrevious`, `Preserved` |
| the maps it iterates over, in any order | `uidPairs`, `hashPaths` |
| `buildPlan`, `executePlan` | `Plan`, `Execute` |
| `SaveStateAtomic` with `diffRecords` | `Save`, `Diff` |
| a rename as the server sends it: a live record, a deleted one | `DeviceRename`, `ReadDeletion` |

* `Renames_apart` (pass): four edits, renames and deletions of two files by the user and
  by another device in any order, to paths that no file had at the last sync; the
  watcher pairs a rename or sees a deletion and a new file (`unpaired`); one cycle fails
  when it dials, or the program is restarted. What the user wrote and what another
  device wrote survives, nothing comes back, the sides converge.
* `Renames_replaced` (violation): a file is moved to the path of one whose deletion no cycle
  has seen, and deleted too; the first one comes back.

`Races` names what the passing run leaves out, each of which breaks a property, see
below. Two files and four operations: a rename and one that meets it, a sequence of two
renames, an edit and a deletion around them. Larger instances were checked apart, with
`unpaired`: the three safety properties with three paths, four operations and a failure
(33 million states), `NoResurrection` with two paths and five operations (3.6 million),
`Converges` with three paths and three operations (2.1 million); and the two promises on
edits with `copied` and `replaced` as well, with three paths and four operations (51
million) and two paths and five operations (4.9 million).

Fairness: cycles go on (`WF`), the watcher delivers what it has paired, and the read
pump reads (strongly fair, because a cycle takes `cs.mu` again and again).

### Watcher, WatcherProofs

| code | model |
|---|---|
| `fsnotify` events | `queue`; `handle` sees the disk as it is when it takes one |
| `scanner.state` | `scanner` |
| `pendingRenames`, `pendingRenamePaths` and their timers | the same; `late` is a callback that waits for `renameMu` after its timer was stopped |
| branches of `handle`, `handleFileCreate` | `HandleDropped`, `HandleDirectory`, `HandleRename`, `HandleCreate`, `HandleRemove`, `HandleWrite` |
| `deferDeletion`'s timer | `WindowEnds`, `Callback` |
| `addDirsRecursive` and the walk, in the background | `AddDir`, `WalkFile` |
| `fullRescan`, `rescanDir` | `StartRescan`, `RescanFile` |
| `AddIgnorePaths`, `FlushIgnored` | `RemoteRenameCycle`, `Cycle` |
| aggregator: pending events, `emit`, `Out` | `Push`, `PushRename`, `Emit`, `Send`, `pending`, `sending`, `Out` |
| context done, `flushPendingRenames`, `Shutdown`, close of `Out` | `Stop`, `CloseAggregator`, `Flush`, `CloseOut`; a `Send` after it is the state `"panicked"` |
| the kernel's watches, removed when the event is handled | `watched`; `ElsewhereChange` is what the kernel still reports of a directory that was moved out |

Time is left out: any timer that runs may fire at any moment, so every length of
the windows is covered. A sync cycle reads the whole vault, so what an event is for
is to make one happen; `synced` is the vault as the last cycle read it.

* `Watcher_paired` (pass): three files, one of them excluded and one in a directory that
  arrives and leaves, three actions of the user, of the rescan or of another device, and
  a stop. The maps of held removals agree (`HeldInv`), a reported rename is one and
  excluded files are never mentioned (`ReportsTrue`), and a change is followed by a
  cycle, unless the stop comes first (`AllNoticed`). That property is not about paths
  that are ignored after a remote rename, and the run leaves out callbacks that are
  late, files that leave a directory before it is watched, and a stop within an emit:
  with each of them changes do go unnoticed, see below.

Bounds. Three inodes let a file be removed, created anew and moved.
A channel of one event makes `emit` wait. Three actions are a rename and what
meets it; the fourth that `lateTimer` needs is checked apart, see below.

Fairness: the kernel delivers, timers fire, jobs and cycles run. Nothing makes the
user act, or a rescan start, so no property relies on the rescan.

### SecretStore, Publish, Commands, CommandsProofs

`Commands` is what the commands do outside a vault. A command is a list of steps
(`todo`), each a change of one file, one store or the server, and `Ends` may cut it
off before any of them. `SecretStore` and `Publish` have the steps of two parts.

| code | model |
|---|---|
| the keyring; `credentials.db` | `keyring`, `fallback` |
| whether a store found a keyring when it was opened | `opened` (`OpenStore`), against `up` |
| `Get`; `Set`; the two halves of `Delete` | `Get`; `StoreInRing`, `StoreInFallback`; `RemoveFromRing`, `ClearFallback` |
| a vault's `config.json`; its state databases | `config`; `state`, with the folder each was saved for |
| login, logout | `LoginSteps`, `LogoutSteps`, `LogoutLoginSteps` |
| sync-setup, sync-config `--state-path`, sync-unlink | `SyncSetup`, `SyncConfig`, `UnlinkSteps` |
| one cycle, as far as the state database goes | `Sync` |
| `publish.Engine.Run` | `PublishRun`, then `ListSite`, `ScanVault`, `UploadPage`, `DeletePage` |
| `detectPublishFlag`, selection | `Flagged`, `Selected` |

* `Commands_daily` (pass): any commands in any order, cut off anywhere. Secrets are
  found where they were left, whenever a keyring appears; an unlinked vault has none in
  either place; a sync starts from the past of its own folder; a publish run that
  succeeds leaves the site as the vault asks, and what is private is never there.
* `Commands_reattached` (violation): sync-setup of an attached vault.

Bounds. `MaxSecret` 3: a token, the one that replaces it, and one more after a
logout. Two folders and the two kinds of state path. Two files, one that the
patterns include and one that they do not, with the three kinds of front matter,
so that uploads and deletions of one run can be cut off between. A behaviour is
about syncing or about publishing (`Uses`): the two share the token only.

No liveness is stated of commands: the user starts them and may stop them.

## What is proved

`SyncLockProofs`
: `TypeCorrect`, `ExclusionTheorem` and `RobberyTheorem`, for any set of processes, any
  number of crashes, overlapping takeovers and cycles of any length. Exclusion itself is
  false; the invariant says of a holder that was not robbed that the file is there and
  is its own (`HolderOwnsFile`), and one file has one owner. `RobberyTheorem` follows
  from the steps that remove the file.

`VaultSyncProofs`
: * `TypeCorrect`, under any faults. Typing is not inductive alone: an action
    reads `scanned[p]` or `remote[p]` as a record, so the invariant `Backed` says
    that a planned action has the records it needs.
  * `BaselineTheorem` and `DivergenceTheorem`, for any paths, numbers of edits and
    aborts, if `Faults` is within `mergeFails` and `pushRejected` (`Quiet`). The
    invariant `QuietInv` says that records tell the truth about their content
    (`HonestRecords`), that what the plan has left is consistent with what the
    session knows of the server (`PlanSound`), and that the second scan and the
    remote map agree when they are saved (`RescanAgrees`). The hypothesis cannot be
    dropped, see "What the code does not keep".
  * `EditsTheorem`, `ResurrectionTheorem`, `SettledFilesTheorem` and `ServerTheorem`,
    under the same hypothesis. They say what a step may not do, so the invariant
    must tell why the step is taken: `FreshInv` relates each entry of the plan to
    the files as they are at that moment, not as they were scanned. An action
    that is still to be executed is what `Reconcile` answers about them now
    (`InTouch`), a changed file holds an edit its baseline lacks and is not older
    (`Advanced`), and times and edits are not ahead of the clock (`Dated`). Without
    `Advanced` the planner's comparison of times could prefer an old version. The
    rest is a table of the planner's reasons (`PlannedFor`) and, for each action,
    what it does to the vault and the server (`EngineEffect`).
  * `FirstSyncTheorem`, under any faults: the first plan contains no deletion
    (`FirstInv`), because it is made against an empty past.

`ContinuousProofs`
: * `TypeCorrect`, under any faults.
  * `CyclesTheorem`: cycles never overlap, for any number of calls. The invariant
    `Claimed` says that a call that runs has set `syncInProgress`; with it the swap
    in `Fire` cannot let a second call in.
  * `LapseTheorem`, under any faults and with either listing: `ForgottenOnlyByLapse`.
    The invariant `NewsInv` says where a change that is not in the database is on its
    way: whoever reads all that is unread knows the newest version, but for what was
    missed (`Told`); nobody knows a version that is not made yet (`Bounded`); what a
    cycle publishes is what it saved (`SavedUpdated`); news that entered `cs.remote`
    while a cycle has its copy has another call coming (`InHand`); what is known and not
    saved has a call coming or under way, unless a cycle failed (`Remembered`).

`TransfersProofs`
: * `PoolTheorem`: the invariant `PoolInv` says that the channel holds the jobs after
    those that were taken, that every job taken is done or in the hands of one
    worker unless a worker gave up, and what each phase implies about workers
    and counters.
  * `PoolImplementsDownloads`: with `PoolInv`, each step of the pool is a step of
    `Downloads` or a stutter, for any workers, jobs, retries and faults. Its
    liveness is model-checked.
  * `ProbesTheorem`: a half-open breaker counts exactly the dials of its own
    generation that wait, and no dial has a generation ahead of the breaker's
    (`BreakerInv`); so late answers of an earlier one cannot let a second probe in.

`WatcherProofs`
: * `TypesTheorem` and `HeldTheorem`, for any files and inodes; the second without
    `lateTimer`, with which its conclusion is false: without a late callback the only
    code that takes a removal out of either map takes it out of both (`Paired`).
  * `ReportsTheorem`, whatever races there are. A rename is reported long after the two
    events it was made of, so `TruthInv` says that nothing along the way is a lie: a
    file state belongs to an inode that has been at its path, in the scanner as on
    disk; so does a removal that is held; nothing held, listed for a rescan or waiting
    in a late callback is excluded; and an event that is pending, being sent or in `Out` is
    credible. Where an inode has been is history, so files may move on meanwhile.

`CommandsProofs`
: * `PrivateTheorem`: what a run has scanned is not private and is what the files
    contain, and nothing is scanned while no process runs (`PublishInv`); so a
    body that is read later is not private either.
  * `OwnPastTheorem`: a state database is where the configuration says, for its
    folder (`MatchedBy`), or, between the two steps of a move, where the
    configuration that is about to be written says. `WritesFirst` says which
    steps a command may still have before it, which is why the list of steps is part of
    the invariant.
  * `SecretsTheorem` and `UnlinkTheorem`, if neither place of secrets goes away or
    refuses a call (`StoreTroubles`): a command may be cut off anywhere. The invariant
    `StoresInv` reads the rest of the command's list: a secret is touched only by a
    store that knows the keyring, or after the step that opens it (`RingFirst`); an
    entry of `credentials.db` that is to be cleared can be spared, or a removal comes
    before (`ClearsSpare`); the secrets of a vault are gone before its configuration is
    (`ForgetsFirst`). That the keyring was used only while it was there (`RingUsed`)
    makes what is found independent of it.
  * `PublishedTheorem`, if nobody edits during a run: what the listing, the scan and
    the transfers so far say of the site holds when the next step starts
    (`ListingTrue`, `TransferTrue`, `SiteTrue`), and the steps come in order
    (`InTurn`).

`SyncPlanProofs`
: `ConsentTheorem`, for any paths and records and any renames, and, where no rename
  is given, `SettledTheorem` and `ReplanTheorem`. A plan is made once, so the invariant
  (`PlanInv`) is that every action is the one that the records give; what remains is the
  case analysis of `Reconcile`. With renames the planner answers for two paths at once and
  the two conclusions are about one; that is what `Renames` is for.

`SessionProofs`
: Where no notification comes within a pull (see "What the code does not keep"):
  * `InStepTheorem`. `WireInv` says what is in the two directions of a connection in
    each phase of a call (`InCall`): at most one request or one run of answers, in the
    order in which the call will take them, and notifications only where it skips them.
  * `PushedWholeTheorem`, if encryption adds no frame; otherwise the conclusion is
    false, as `Session_pieces` shows. `PushInv` relates what the call still has to send
    to what the server still expects.
  * `NewsKeptTheorem`: `NewsInv` orders notifications by the versions they announce
    and tells those that are on their way from the one that was entered last.
  * `PullsTheorem`, if no file is deleted that is to be pulled: `PullInv` says that the
    pieces read and the pieces under way are together the content of the version asked
    for, and `CountInv` bounds the counters, so that this theorem includes the types.

The theorems assume the ASSUMEs of the modules: that `None` is not a version or a
record, that bounds, sizes and times are numbers and sizes have a greatest, that the
models' own names for "nobody" and "no hash" are not those of connections or hashes,
that `Paths` and `Workers` are finite, that there are inodes
for the files that are there at first, that a page is not both public and private,
and that merges and notifications are not studied together. Those that exclude a
fault say so as a hypothesis.

Only model-checked: liveness (`OrphanRecovered`, `Converges` of both modules,
`ServedOrMarked`, `CatchesUp`, `AllNoticed`, that of `PoolKeepsPromise`), for fairness
and ENABLED are outside what TLAPS can do; and the properties of `Renames`.

## What the code does not keep

The passing runs leave something out where the code does not keep a property. Each
line names what to put into the constants of a run to see it fail; three are
kept as runs, `Session_pieces`, `Renames_replaced` and `Commands_reattached`. The
module's header says what each name means.

Lock (`SyncLock_takeovers` with two processes, one crash, `Ageing = "orphaned"`):

* `MutualExclusion`. Two processes find the file stale; the first removes it and creates
  its own; the second, past its `Stat`, removes that one by name (`lock.go:30`): both
  hold the lock. `lock_test.go:87` has a second acquisition fail: "expected concurrent
  lock acquisition to fail". With `Ageing = "any"` a cycle of more than 24 hours loses
  its lock.

Cycle (`VaultSync_quiet` with the fault added; each of these properties is violated):

* `lateEcho`: `BaselineAgrees`, `NoResurrection`. `push` returns before the echo of its
  own record has come (`session.go:236`).
* `downloadFails`: `BaselineAgrees`, `NoSilentDivergence`, `Converges`. Some of a batch
  fail, the cycle goes on (`engine.go:622`) and saves the records of all; a file that
  was not downloaded looks deleted by the user to the next cycle.
  `docs/parallel-downloads.md:126` has it retried: "next sync will retry failed files".
  Two paths without a merge, two edits and no abort are enough.
* `userInCycle`: `BaselineAgrees`, `NoSilentDivergence`, `EditsOnlyLostByRule`,
  `SettledFilesUntouched`, `Converges`. The second scan (`engine.go:282`) makes the
  edit the baseline.
* `deviceInCycle`: `BaselineAgrees`, `NoSilentDivergence`, `ServerNeverGoesBack`,
  `SettledFilesUntouched`, `Converges`. The plan was made before (`engine.go:417`).
* `removeFails`: `BaselineAgrees`, `Converges`.

Continuous mode (`Continuous_rough` with the constants that are named):

* `Faults = {"newsInCycle"}`, `Listing = "everything"`, no losses: `PublishKeepsNews`.
  `continuous.go:513` copies the cycle's older record over the newer one of the read
  pump. The comment above it, lines 511-512: "Paths added or updated by readPump during
  execution are NOT in remoteSnapshot, so they are preserved untouched."
* `Faults = {"connectionLost"}`, `Listing = "newer"`: `NothingForgotten`. The version
  that the execution connection is told (`continuous.go:487`) is ahead of what the
  client has seen, and the next handshake resumes from it;
  `website/src/architecture/sync-protocol.md:417` has it "resume from the exact point
  you left off".
* `Faults = {"callInTail"}`: `RequestsServed`. A request between the look at
  `syncPending` and the clearing of `syncInProgress` (`continuous.go:407`) is marked,
  and nobody looks until something else triggers a sync. The comment, lines 413-414: "If
  a sync request arrived while this one was running, re-trigger after completion."
* `Faults = {"stopInCycle"}`: `StoppedWithoutLock`. `RunContinuous` returns
  (`continuous.go:532`) while `doSync` runs in the timer's goroutine, and the program
  exits before its deferred calls. `graceful-shutdown.md:26`
  (`.serena/memories/src-go/sync`): "Lock file is removed via `defer` in both modes".

Connections (`Transfers_pool`, `Faults`):

* `noticeInPull`: `InStep` and `PullsAsRecorded`. `pull` reads a notification as its
  answer, takes the file for an empty one, and the stream stays out of step
  (`session.go:159`).
* `deletedMeanwhile`: `PullsAsRecorded` (`session.go:168`).
* `dialWorker` retries until "~6 retries" are made, its comment says, but the breaker
  opens after three failures of all workers together.
* `CancelReported` (`Troubles = {"cancel"}`, one worker, `Sizes = {0}`, `MaxCalls` 0,
  `MaxTimeouts` 0, `MaxUid` 2). A sync that is cancelled when all jobs are in the
  channel makes the workers leave; the pool returns nil if something was stored before,
  with jobs undone, and the cycle saves (`engine.go:628`).
  `docs/parallel-downloads.md:127`: "All workers exit; `ctx.Err()` returned".

Renames (`Renames_apart` with the race added; each of these properties is violated):

* `failLate`, `goneHere`: `Converges`.
* `recreated`, `soon`, `hashed`, `selfRename`: `NoResurrection`, `Converges`.
* `copied`, `late`: `NoResurrection`.
* `bothSides`: `ServerEditsKept`, `NoResurrection`, `Converges`. The rename removes the other
  device's unseen change from `cs.remote`.
* `userInCycle`: `LocalEditsKept`, `NoResurrection`, `Converges`.
* `replaced`: `NoResurrection` (run `Renames_replaced`), and `Converges`. The user
  deletes a file, moves another onto its path and deletes that too. The move takes the
  other file's record to the path, the server's record no longer equals it, and the next
  cycle takes the first file for a new one and downloads it (`continuous.go:101`;
  `plan.go`: deleted here, changed there). Deleted files come back only by such races;
  an edit is lost by `bothSides` and `userInCycle` alone.
* After a local rename the database is not what the cycle found: the difference is
  taken to records that were moved in memory only (`engine.go:223`).

Watcher (`Watcher_paired`):

* `lateTimer` with `MaxOps` 4: `HeldInv`, `AllNoticed`. A callback that was late
  takes out another removal of the same inode, and the path stays ignored.
* `stopInEmit` and `unwatched`: `AllNoticed`.
* `CleanShutdown` (files `a` and `b`, `Races = {"stop", "stopInEmit"}`, `MaxOps` 2):
  `emit` sends on `Out` after it has let go of its lock (`aggregator.go:120`), and
  `shutdown` closes `Out` without waiting for it (`watcher.go:369`): a send on a closed
  channel is a panic. `graceful-shutdown.md:4`: "Implemented clean shutdown on
  SIGINT/SIGTERM for the sync command".
* `NoticedIgnored`: the user's own changes of a path that another device renamed
  are ignored until the next cycle.
* `RenamesLeadElsewhere` (files `a` and `b`, `Races = {"recreate"}`): a file that is
  moved away and back is reported as renamed to its own path.

Commands (`Commands_daily`, `Troubles`):

* `ringGoes`, `refused`, `clearFails`: `SecretsInv` and `UnlinkForgets`.
* `openFails`: `UnlinkForgets`. sync-unlink drops the error of `ClearVaultSecrets`
  (`cli/sync.go:364`), removes the configuration, and the vault's key and salt stay
  where they are. `README.md:212`: "Disconnect a vault from sync and remove stored
  credentials."
* `reattached` (run `Commands_reattached`), `customLeft`, `diesInMove`, `diesInFile`:
  `SyncsFromOwnPast`.
* `editInRun`: `PublishedAsWanted` and `PrivateUnpublished`, because the page is
  read again when it is sent.
* A private file in `Unprobed`: `PrivateUnpublished`. Front matter longer than
  `publishProbeSize` has no flag.
* Not in a run: two vaults may be attached to one folder, and
  `FindSyncConfigByPath` takes the first it finds; `cache.json` of a publish run is
  written and never read.

## Plan

Next to prove: the two promises of `Renames` on edits, which need an invariant of what
each record of a correlated rename says of the files. Next to model: two processes on one
vault, the lock composed with the cycle.

## What is not modelled

* Two processes of the program at once, beyond the lock: concurrent commands, two
  programs that make `master.key`, a sync that received its listing before it had
  to wait for the lock (`engine.go:98`). One cycle alone fills what TLC can reach.
* Torn files: a downloaded file is written in place and its times set afterwards
  (`util/files.go:183`). A crash between the two looks like an edit to the next
  scan; the models write a file in one step.
* A server that falls silent in a handshake while `connect` holds `cs.mu`
  (`continuous.go:204`): the models let every handshake end.
* Folders, filters on paths and types, the names of conflicting copies, and the
  parts of `FileRecord` that nothing decides on.
* The text of merges (`merge.go` uses a third-party diff); what a merge keeps is in
  `VaultSync`.
* The write-ahead log of SQLite when a state database is moved
  (`cli/sync.go:289`); schema migration, one idempotent transaction under the lock.
* The circuit breaker and the retries of the REST client: the breaker has the form
  of `Breaker` with other numbers, and a retry repeats one stateless request.
* Cryptography (pure functions over bytes), command-line presentation, logging,
  remote setup commands that are one request each, the vendored 1Password stub,
  the website, and the legacy TypeScript client, which is no longer built.
