------------------------------ MODULE Watcher ------------------------------
(***************************************************************************)
(* The file watcher of continuous mode, internal/sync/watch.  The kernel   *)
(* queues an event for every change of a watched directory; handle takes   *)
(* them one by one and looks at the disk as it is by then.  A removal is   *)
(* held back for a moment, for the creation of the same inode elsewhere    *)
(* makes the two a rename.  The aggregator keeps one event per path and    *)
(* sends it on Out when the path has been quiet.  A sync cycle reads the   *)
(* whole vault, so an event is a trigger, and only a rename is more than   *)
(* that.                                                                   *)
(*                                                                         *)
(* Time is left out: a timer that runs may fire at any moment.  So the     *)
(* tokens of the aggregator, which keep a timer that was replaced from     *)
(* sending early, make no difference here: one event per entry is sent.    *)
(* Inodes are not used twice: a file system that gives a new file the      *)
(* inode of one just deleted makes the pair a rename by this design.       *)
(***************************************************************************)
EXTENDS Naturals, Sequences, FiniteSets

CONSTANTS
  Files,        \* paths of files in the vault
  Dir,          \* a directory that arrives with files in it
  Inside,       \* the paths in Files that are in Dir
  Excluded,     \* the paths in Files that match w.excludes
  Inodes,
  None,         \* no file, no inode, no path
  Races,        \* what may happen, of AllRaces
  OutCap,       \* capacity of the channel Out
  MaxOps        \* bound of the model: actions of the user, rescans, and
                \* renames by other devices

(***************************************************************************)
(*   rescan         the ticker starts fullRescan in the background         *)
(*   directory      Dir is moved into the vault, and out of it; what       *)
(*                  happens to its files then is reported at their old     *)
(*                  paths until the kernel is told to stop watching        *)
(*   remoteRename   a cycle enacts a rename made on another device         *)
(*   lateTimer      the window of a held removal ends and its callback is  *)
(*                  waiting for renameMu when the removal is taken back    *)
(*   unwatched      a file leaves Dir when Dir is not watched yet          *)
(*   recreate       a path is created while events of it are in the queue  *)
(*   stop           the program is stopped                                 *)
(*   stopInEmit     so it is, and Out is closed while emit is about to     *)
(*                  send on it, or waits for room in it                    *)
(***************************************************************************)
AllRaces == {"rescan", "directory", "unwatched", "remoteRename", "lateTimer",
             "recreate", "stop", "stopInEmit"}

FilesAssumption == /\ Dir \notin Files
                   /\ Inside \subseteq Files
                   /\ Excluded \subseteq Files \ Inside
                   /\ None \notin Files \cup Inodes \cup {Dir}
RacesAssumption == Races \subseteq AllRaces
InodesAssumption == \E f \in [Files -> Inodes] : \A p, q \in Files : f[p] = f[q] => p = q
BoundsAssumption == OutCap \in Nat \ {0} /\ MaxOps \in Nat

ASSUME FilesAssumption
ASSUME RacesAssumption
ASSUME InodesAssumption
ASSUME BoundsAssumption

VARIABLES
  disk,                \* what Lstat says of every path
  dir,                 \* Dir is not yet there, there, or has left again
  watched,             \* the kernel reports what happens in Dir
  queue,               \* fw.Events
  scanner,             \* scanner.state
  pendingRenames,      \* the path of the held removal, by inode
  pendingRenamePaths,  \* its inverse
  late,                \* callbacks of stopped timers that run all the same
  walk,                \* background job of a new directory: the files to visit
  rescan,              \* fullRescan: the files to visit, as listed
  ignored,             \* ignoredOld and ignoredNew
  pending,             \* aggregator: the event of every path
  sending,             \* events that emit has taken out and not sent yet
  Out,                 \* the channel
  state,               \* Run: running, closing, flushing, closed; or panicked
  synced,              \* the vault as the last cycle read it
  ops,                 \* how many of MaxOps there have been
  been                 \* history: where each inode has been

user == <<disk, dir, watched, queue, ops, been>>
held == <<pendingRenames, pendingRenamePaths, late>>
background == <<walk, rescan>>
channel == <<pending, sending, Out>>
cycle == <<ignored, synced>>
vars == <<user, scanner, held, background, channel, cycle, state>>

Stat == [ino : Inodes, time : 0..MaxOps]
Stats == Stat \cup {None}
Event == [type : {"create", "write", "remove"}, old : {None}]
         \cup [type : {"rename"}, old : Files]
ScanEvent == [path : Files \cup {Dir}, event : Event]
Ops == {"create", "write", "remove", "rename"}
States == {"running", "closing", "flushing", "closed", "panicked"}

On(d) == {p \in Files : d[p] # None}

(* Files that are there from the start, each with an inode of its own.     *)
FirstInode == CHOOSE f \in [Files -> Inodes] : \A p, q \in Files : f[p] = f[q] => p = q

Init ==
  /\ \E E \in SUBSET (Files \ Inside) :
       disk = [p \in Files |-> IF p \in E THEN [ino |-> FirstInode[p], time |-> 0] ELSE None]
  /\ dir = "absent" /\ watched = FALSE /\ queue = <<>>
  /\ scanner = [p \in Files |-> IF p \in Excluded THEN None ELSE disk[p]]
  /\ pendingRenames = [i \in Inodes |-> None]
  /\ pendingRenamePaths = [p \in Files |-> None]
  /\ late = {} /\ walk = {} /\ rescan = {} /\ ignored = {}
  /\ pending = [p \in Files \cup {Dir} |-> None]
  /\ sending = {} /\ Out = <<>> /\ state = "running"
  /\ synced = disk /\ ops = 0
  /\ been = [i \in Inodes |-> {p \in On(disk) : disk[p].ino = i}]

-----------------------------------------------------------------------------
(* The user and the kernel.  An event says which path, not what is there.  *)

Visible(p) == p \in Inside => watched
Happened(p, op) == IF Visible(p) THEN <<[path |-> p, op |-> op]>> ELSE <<>>
Reports(events) == queue' = queue \o events
Here(p) == p \in Inside => dir = "there"
MayLeave(p) == disk[p] # None /\ ("unwatched" \in Races \/ Visible(p))

Fresh == {i \in Inodes : been[i] = {}}
File(i) == [ino |-> i, time |-> ops + 1]

(* An action of the user, and the events it makes the kernel queue.        *)
UserDoes(events) ==
  /\ state = "running" /\ ops < MaxOps
  /\ ops' = ops + 1
  /\ Reports(events)
  /\ UNCHANGED <<scanner, held, background, channel, cycle, state>>

UserCreate(p) ==
  /\ disk[p] = None /\ Here(p) /\ Fresh # {}
  /\ "recreate" \in Races \/ \A k \in 1..Len(queue) : queue[k].path # p
  /\ UserDoes(Happened(p, "create"))
  /\ LET i == CHOOSE f \in Fresh : TRUE
     IN  /\ disk' = [disk EXCEPT ![p] = File(i)]
         /\ been' = [been EXCEPT ![i] = {p}]
  /\ UNCHANGED <<dir, watched>>

UserWrite(p) ==
  /\ disk[p] # None
  /\ UserDoes(Happened(p, "write"))
  /\ disk' = [disk EXCEPT ![p].time = ops + 1]
  /\ UNCHANGED <<dir, watched, been>>

UserRemove(p) ==
  /\ MayLeave(p)
  /\ UserDoes(Happened(p, "remove"))
  /\ disk' = [disk EXCEPT ![p] = None]
  /\ UNCHANGED <<dir, watched, been>>

(* A rename over an existing file says nothing of the file that is gone.   *)
Moved(p, q) == [disk EXCEPT ![q] = disk[p], ![p] = None]
BeenMoved(p, q) == [been EXCEPT ![disk[p].ino] = @ \cup {q}]

UserMove(p, q) ==
  /\ MayLeave(p) /\ Here(q) /\ p # q
  /\ UserDoes(Happened(p, "rename") \o Happened(q, "create"))
  /\ disk' = Moved(p, q)
  /\ been' = BeenMoved(p, q)
  /\ UNCHANGED <<dir, watched>>

MoveDirIn ==
  /\ "directory" \in Races /\ dir = "absent"
  /\ Cardinality(Fresh) >= Cardinality(Inside)
  /\ UserDoes(Happened(Dir, "create"))
  /\ dir' = "there"
  /\ \E f \in [Inside -> Fresh] :
       /\ \A p, q \in Inside : f[p] = f[q] => p = q
       /\ disk' = [p \in Files |-> IF p \in Inside THEN File(f[p]) ELSE disk[p]]
       /\ been' = [i \in Inodes |-> been[i] \cup {p \in Inside : f[p] = i}]
  /\ UNCHANGED watched

MoveDirOut ==
  /\ dir = "there"
  /\ UserDoes(Happened(Dir, "rename"))
  /\ dir' = "left"
  /\ disk' = [p \in Files |-> IF p \in Inside THEN None ELSE disk[p]]
  /\ UNCHANGED <<watched, been>>

(* What happens to files of Dir once it is elsewhere.                      *)
ElsewhereChange(p, op) ==
  /\ dir = "left" /\ watched
  /\ UserDoes(Happened(p, op))
  /\ UNCHANGED <<disk, dir, watched, been>>

-----------------------------------------------------------------------------
(* The aggregator.  Push replaces what is pending for the path, and what   *)
(* it replaces may be a rename, which is thereby forgotten.                *)

Pushed(f, p, type) == [f EXCEPT ![p] = [type |-> type, old |-> None]]
PushedRename(f, p, old) == [f EXCEPT ![p] = [type |-> "rename", old |-> old]]
Push(p, type) == pending' = Pushed(pending, p, type)
PushRename(p, old) == pending' = PushedRename(pending, p, old)

Emit(p) ==
  /\ state \in {"running", "closing"} /\ pending[p] # None
  /\ sending' = sending \cup {[path |-> p, event |-> pending[p]]}
  /\ pending' = [pending EXCEPT ![p] = None]
  /\ UNCHANGED <<user, scanner, held, background, cycle, Out, state>>

(* emit sends when it no longer holds the lock, and a send on a channel    *)
(* that is closed, meanwhile or while it waits for room, is a panic.       *)
Send(e) ==
  /\ e \in sending
  /\ IF state = "closed"
     THEN state' = "panicked" /\ UNCHANGED <<sending, Out>>
     ELSE /\ Len(Out) < OutCap
          /\ sending' = sending \ {e} /\ Out' = Append(Out, e)
          /\ UNCHANGED state
  /\ UNCHANGED <<user, scanner, held, background, cycle, pending>>

-----------------------------------------------------------------------------
\* Mutant: a file that is still the same inode has not changed.
ChangedInode(p) == IF disk[p] = None THEN "remove"
                   ELSE IF scanner[p] = None THEN "create"
                   ELSE IF scanner[p].ino # disk[p].ino THEN "write" ELSE None

(* scanner.HasChanged: what it reports, or None, and what it remembers.    *)

Changed(p) == IF disk[p] = None THEN "remove"
              ELSE IF scanner[p] = None THEN "create"
              ELSE IF scanner[p] # disk[p] THEN "write" ELSE None
Remember(p) == scanner' = [scanner EXCEPT ![p] = disk[p]]
PushIfChanged(p) == IF Changed(p) = None THEN UNCHANGED pending ELSE Push(p, Changed(p))

(* timer.Stop of a held removal: its callback may be running already.      *)
StopTimer(i) ==
  late' \in {late} \cup (IF "lateTimer" \in Races
                         THEN {late \cup {[path |-> pendingRenames[i], ino |-> i]}} ELSE {})

(* handle takes the next event; "dropped" are its early returns.           *)
Ev == Head(queue)
Handles == /\ state = "running" /\ queue # <<>>
           /\ queue' = Tail(queue)
           /\ UNCHANGED <<disk, dir, ops, been, sending, Out, cycle, rescan, state>>

Dropped(e) ==
  \/ e.path \in Excluded \cup ignored
  \/ e.op # "create" /\ e.path \in Files /\ pendingRenamePaths[e.path] # None

HandleDropped ==
  /\ Handles /\ Dropped(Ev)
  /\ UNCHANGED <<watched, scanner, held, walk, pending>>

(* Of a directory that is there no event is reported, but one of every     *)
(* file in it by the background job.  One that is gone is watched no more  *)
(* once its event is handled.                                              *)
HandleDirectory ==
  /\ Handles /\ Ev.path = Dir
  /\ watched' = (watched /\ Ev.op = "create")
  /\ IF Ev.op # "create" THEN Push(Dir, "remove") /\ UNCHANGED walk
     ELSE IF dir = "there" THEN walk' = {Dir} /\ UNCHANGED pending
     ELSE Push(Dir, "create") /\ UNCHANGED walk
  /\ UNCHANGED <<scanner, held>>

\* Mutant: whether a removal is held for the inode is not asked.
IsRenameOfAny(p) == disk[p] # None

(* handleFileCreate.  A held removal of the same inode makes a rename; one *)
(* of the same path and another inode is cancelled.                        *)
IsRename(p) == disk[p] # None /\ pendingRenames[disk[p].ino] # None
IsRecreated(p) == /\ disk[p] # None /\ pendingRenamePaths[p] # None
                  /\ pendingRenames[pendingRenamePaths[p]] # None

HandleRename ==
  LET p == Ev.path
      i == disk[p].ino
      old == pendingRenames[i]
  IN  /\ Handles /\ ~Dropped(Ev) /\ p \in Files /\ Ev.op = "create"
      /\ IsRename(p)
      /\ StopTimer(i)
      /\ pendingRenames' = [pendingRenames EXCEPT ![i] = None]
      /\ pendingRenamePaths' = [pendingRenamePaths EXCEPT ![old] = None]
      /\ Remember(p)
      /\ PushRename(p, old)
      /\ UNCHANGED <<watched, walk>>

HandleCreate ==
  LET p == Ev.path
      i == pendingRenamePaths[p]
  IN  /\ Handles /\ ~Dropped(Ev) /\ p \in Files /\ Ev.op = "create"
      /\ ~IsRename(p)
      /\ IF IsRecreated(p)
         THEN /\ StopTimer(i)
              /\ pendingRenames' = [pendingRenames EXCEPT ![i] = None]
              /\ pendingRenamePaths' = [pendingRenamePaths EXCEPT ![p] = None]
         ELSE UNCHANGED held
      /\ IF disk[p] # None THEN Remember(p) ELSE UNCHANGED scanner
      /\ Push(p, "create")
      /\ UNCHANGED <<watched, walk>>

(* deferDeletion holds the removal back if the inode of the path is known. *)
HandleRemove ==
  LET p == Ev.path
      i == scanner[p].ino
      other == pendingRenames[i]
  IN  /\ Handles /\ ~Dropped(Ev) /\ p \in Files /\ Ev.op \in {"remove", "rename"}
      /\ scanner' = [scanner EXCEPT ![p] = None]
      /\ IF scanner[p] = None
         THEN Push(p, "remove") /\ UNCHANGED held
         ELSE /\ IF other = None THEN UNCHANGED late ELSE StopTimer(i)
              /\ pendingRenames' = [pendingRenames EXCEPT ![i] = p]
              /\ pendingRenamePaths' =
                   [q \in Files |-> IF q = p THEN i
                                    ELSE IF q = other THEN None ELSE pendingRenamePaths[q]]
              /\ UNCHANGED pending
      /\ UNCHANGED <<watched, walk>>

HandleWrite ==
  LET p == Ev.path
  IN  /\ Handles /\ ~Dropped(Ev) /\ p \in Files /\ Ev.op = "write"
      /\ PushIfChanged(p)
      /\ Remember(p)
      /\ UNCHANGED <<watched, held, walk>>

\* Mutant: the path stays in pendingRenamePaths.
CallbackLeavingPath(p, i) ==
  IF pendingRenames[i] = None
  THEN UNCHANGED <<pendingRenames, pendingRenamePaths, pending>>
  ELSE /\ pendingRenames' = [pendingRenames EXCEPT ![i] = None]
       /\ UNCHANGED pendingRenamePaths
       /\ Push(p, "remove")

(* The window ends.  The callback asks whether anything is held for its    *)
(* inode, not whether that is the removal it was made for.                 *)
Callback(p, i) ==
  IF pendingRenames[i] = None
  THEN UNCHANGED <<pendingRenames, pendingRenamePaths, pending>>
  ELSE /\ pendingRenames' = [pendingRenames EXCEPT ![i] = None]
       /\ pendingRenamePaths' = [pendingRenamePaths EXCEPT ![p] = None]
       /\ Push(p, "remove")

Timer(i) == [path |-> pendingRenames[i], ino |-> i]
Running == {Timer(i) : i \in {j \in Inodes : pendingRenames[j] # None}}

WindowEnds ==
  /\ state \in {"running", "closing"}
  /\ \E t \in Running \cup late :
       /\ late' = IF t \in Running THEN late ELSE late \ {t}
       /\ Callback(t.path, t.ino)
  /\ UNCHANGED <<user, scanner, background, sending, Out, cycle, state>>

-----------------------------------------------------------------------------
(* Background jobs.  A new directory is watched and the scanner told of    *)
(* its files, addDirsRecursive; then each of them is reported.             *)

AddDir ==
  /\ walk = {Dir} /\ state # "closed"
  /\ watched' = (dir = "there")
  /\ walk' = {p \in Inside : disk[p] # None}
  /\ scanner' = [p \in Files |-> IF p \in Inside /\ disk[p] # None THEN disk[p] ELSE scanner[p]]
  /\ UNCHANGED <<disk, dir, queue, ops, been, held, rescan, channel, cycle, state>>

(* Without FileInfo handleFileCreate looks for no rename.                  *)
WalkFile(p) ==
  /\ p \in walk /\ p # Dir /\ state # "closed"
  /\ walk' = walk \ {p}
  /\ IF disk[p] # None THEN Remember(p) ELSE UNCHANGED scanner
  /\ Push(p, "create")
  /\ UNCHANGED <<user, held, rescan, sending, Out, cycle, state>>

StartRescan ==
  /\ "rescan" \in Races /\ state = "running" /\ rescan = {}
  /\ ops < MaxOps /\ ops' = ops + 1
  /\ rescan' = On(disk) \ Excluded
  /\ UNCHANGED <<disk, dir, watched, queue, been, scanner, held, walk, channel, cycle, state>>

RescanFile(p) ==
  /\ p \in rescan
  /\ rescan' = rescan \ {p}
  /\ IF state = "running" THEN PushIfChanged(p) /\ Remember(p)
     ELSE UNCHANGED <<pending, scanner>>
  /\ UNCHANGED <<user, held, walk, sending, Out, cycle, state>>

-----------------------------------------------------------------------------
(* doSync: it forgets the ignored paths and reads the vault.  A rename on  *)
(* another device is enacted on disk, and the paths ignored from then on.  *)

Cycle ==
  /\ Out # <<>> /\ state # "panicked"
  /\ Out' = <<>>
  /\ ignored' = {}
  /\ synced' = disk
  /\ UNCHANGED <<user, scanner, held, background, pending, sending, state>>

RemoteRenameCycle(p, q) ==
  /\ "remoteRename" \in Races /\ state = "running"
  /\ ops < MaxOps /\ ops' = ops + 1
  /\ {p, q} \cap Inside = {} /\ disk[p] # None /\ disk[q] = None
  /\ ignored' = {p, q}
  /\ disk' = Moved(p, q) /\ been' = BeenMoved(p, q)
  /\ synced' = disk'
  /\ Reports(Happened(p, "rename") \o Happened(q, "create"))
  /\ UNCHANGED <<dir, watched, scanner, held, background, channel, state>>

-----------------------------------------------------------------------------
(* Run ends: shutdown waits for the background jobs, reports the removals  *)
(* that are held, sends what is pending, and closes Out.                   *)

Stop ==
  /\ "stop" \in Races /\ state = "running"
  /\ state' = "closing"
  /\ UNCHANGED <<user, scanner, held, background, channel, cycle>>

CloseAggregator ==
  /\ state = "closing" /\ walk = {} /\ rescan = {}
  /\ state' = "flushing"
  /\ pending' = [p \in DOMAIN pending |->
                   IF \E i \in Inodes : pendingRenames[i] = p
                   THEN [type |-> "remove", old |-> None] ELSE pending[p]]
  /\ pendingRenames' = [i \in Inodes |-> None]
  /\ pendingRenamePaths' = [p \in Files |-> None]
  /\ UNCHANGED <<user, scanner, late, background, sending, Out, cycle>>

Flush(p) ==
  /\ state = "flushing" /\ pending[p] # None /\ Len(Out) < OutCap
  /\ pending' = [pending EXCEPT ![p] = None]
  /\ Out' = Append(Out, [path |-> p, event |-> pending[p]])
  /\ UNCHANGED <<user, scanner, held, background, sending, cycle, state>>

(* The flush gives up after five seconds, but only a full channel makes it *)
(* wait.  Nothing waits for an emit that has not sent yet: see Send.       *)
CloseOut ==
  /\ state = "flushing"
  /\ (\A p \in DOMAIN pending : pending[p] = None) \/ Len(Out) = OutCap
  /\ "stopInEmit" \in Races \/ sending = {}
  /\ state' = "closed"
  /\ UNCHANGED <<user, scanner, held, background, channel, cycle>>

UserNext == \/ \E p \in Files : UserCreate(p) \/ UserWrite(p) \/ UserRemove(p)
            \/ \E p, q \in Files : UserMove(p, q)
            \/ MoveDirIn \/ MoveDirOut
            \/ \E p \in Inside, op \in {"create", "write", "remove"} : ElsewhereChange(p, op)

Handle == \/ HandleDropped \/ HandleDirectory \/ HandleRename
          \/ HandleCreate \/ HandleRemove \/ HandleWrite

Timers == \/ WindowEnds
          \/ \E p \in Files \cup {Dir} : Emit(p)
          \/ \E e \in sending : Send(e)

Background == AddDir \/ (\E p \in Files : WalkFile(p)) \/ (\E p \in Files : RescanFile(p))

Shutdown == Stop \/ CloseAggregator \/ (\E p \in Files \cup {Dir} : Flush(p)) \/ CloseOut

Next == \/ UserNext \/ Handle \/ Timers \/ Background \/ StartRescan
        \/ Cycle \/ (\E p, q \in Files : RemoteRenameCycle(p, q))
        \/ Shutdown

(* The kernel delivers, timers fire, jobs run, and the main loop takes     *)
(* what is in Out; nothing makes the user act or a rescan start.           *)
Fairness == /\ WF_vars(Handle) /\ WF_vars(Background) /\ WF_vars(Cycle)
            /\ WF_vars(WindowEnds)
            /\ \A p \in Files \cup {Dir} : WF_vars(Emit(p))
            /\ WF_vars(\E e \in sending : Send(e))

Spec == Init /\ [][Next]_vars /\ Fairness

-----------------------------------------------------------------------------
TypeOK ==
  /\ disk \in [Files -> Stats] /\ scanner \in [Files -> Stats] /\ synced \in [Files -> Stats]
  /\ dir \in {"absent", "there", "left"} /\ watched \in BOOLEAN
  /\ queue \in Seq([path : Files \cup {Dir}, op : Ops])
  /\ pendingRenames \in [Inodes -> Files \cup {None}]
  /\ pendingRenamePaths \in [Files -> Inodes \cup {None}]
  /\ late \subseteq [path : Files, ino : Inodes]
  /\ walk \subseteq Inside \cup {Dir} /\ rescan \subseteq Files /\ ignored \subseteq Files
  /\ pending \in [Files \cup {Dir} -> Event \cup {None}]
  /\ sending \subseteq ScanEvent /\ Out \in Seq(ScanEvent)
  /\ state \in States
  /\ ops \in 0..MaxOps
  /\ been \in [Inodes -> SUBSET Files]

(* The two maps of held removals name each other: no path stays in         *)
(* pendingRenamePaths, where handle skips its events, without a timer that *)
(* will take it out.                                                       *)
HeldInStep ==
  /\ \A i \in Inodes : pendingRenames[i] # None => pendingRenamePaths[pendingRenames[i]] = i
  /\ \A p \in Files : pendingRenamePaths[p] # None => pendingRenames[pendingRenamePaths[p]] = p

(* Every variable has its type, and the maps of held removals agree        *)
(* whenever timers, events and background jobs take turns.                 *)
HeldInv == TypeOK /\ HeldInStep

Reported == sending \cup {Out[k] : k \in 1..Len(Out)}
            \cup {[path |-> p, event |-> pending[p]] : p \in {q \in DOMAIN pending : pending[q] # None}}

(* A rename that is reported is one: the same file has been at both paths. *)
RenamesAreTrue ==
  \A e \in Reported : e.event.type = "rename" =>
    \E i \in Inodes : {e.path, e.event.old} \subseteq been[i]

(* What is excluded is never reported, as the source of a rename neither.  *)
ExcludedUnseen ==
  \A e \in Reported : {e.path, e.event.old} \cap Excluded = {}

(* What is reported may be believed.                                       *)
ReportsTrue == RenamesAreTrue /\ ExcludedUnseen

(* Nothing in the watcher has something left to do.                        *)
Idle == /\ queue = <<>> /\ walk = {} /\ rescan = {} /\ late = {} /\ Reported = {}
        /\ \A i \in Inodes : pendingRenames[i] = None

(* No change of the vault goes by unnoticed: when nothing is left to do,   *)
(* the last cycle has read what is on disk.                                *)
NoticedAll ==
  Idle => \A p \in Files \ (Excluded \cup ignored) : synced[p] = disk[p]

(* Not so for the paths of a rename that a cycle has enacted: until the    *)
(* next cycle, whatever starts it, what the user does to them is ignored.  *)
NoticedIgnored == Idle => \A p \in Files \ Excluded : synced[p] = disk[p]

(* A rename leads from one path to another.                                *)
RenamesLeadElsewhere ==
  \A e \in Reported : e.event.type = "rename" => e.path # e.event.old

(* A stop is clean: no goroutine panics for it (Watcher.shutdown closes    *)
(* Out, on which emit may still be sending).                               *)
CleanShutdown == state # "panicked"

(* What the user does is read by a cycle that follows it: every event gets *)
(* through, the watcher comes to rest, and by then the last cycle has read *)
(* what is on disk.  Not promised of a path that is excluded, or that a    *)
(* remote rename made handle ignore and no cycle has followed; of what a   *)
(* stop finds unread; nor, by what the run leaves out, when a callback is  *)
(* late, when a file leaves a directory that is not watched yet, or when   *)
(* the stop comes within an emit.                                          *)
AllNoticed == <>[](NoticedAll /\ (Idle \/ state # "running"))

=============================================================================
