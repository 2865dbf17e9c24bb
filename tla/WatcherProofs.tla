---------------------------- MODULE WatcherProofs ----------------------------
(***************************************************************************)
(* For any files, inodes and bounds, and whatever the user and the other   *)
(* devices do: every variable has its type, and what is reported may be    *)
(* believed.  As long as no callback of a stopped timer is late, the two   *)
(* maps of held removals name each other as well; with a late callback     *)
(* they do not, so that assumption is needed.                              *)
(***************************************************************************)
EXTENDS Watcher, TLAPS

(* If no callback can be late, none is, and then the maps of held removals *)
(* change only in handle and with their timers, both together.             *)
InTime == "lateTimer" \notin Races
Paired == InTime => HeldInStep /\ late = {}

Inv == TypeOK /\ Paired

(* What each of the actions changes, by group.                             *)
FileTypes == disk \in [Files -> Stats] /\ scanner \in [Files -> Stats] /\ synced \in [Files -> Stats]
QueueTypes == queue \in Seq([path : Files \cup {Dir}, op : Ops])
HeldTypes == /\ pendingRenames \in [Inodes -> Files \cup {None}]
             /\ pendingRenamePaths \in [Files -> Inodes \cup {None}]
LateTypes == late \subseteq [path : Files, ino : Inodes]
PendingTypes == pending \in [Files \cup {Dir} -> Event \cup {None}]

(* None is not a file state, a path or an inode that a map could hold.     *)
LEMMA NoneApart == /\ None \notin Files /\ None \notin Inodes /\ None \notin Files \cup {Dir}
                   /\ Dir \notin Files /\ Inside \subseteq Files /\ Excluded \subseteq Files
  BY FilesAssumption DEF FilesAssumption

(* An event that is reported is one of the kernel's.                       *)
LEMMA QueueKept ==
  ASSUME QueueTypes, NEW p \in Files \cup {Dir}, NEW op \in Ops,
         NEW q \in Files \cup {Dir}, NEW op2 \in Ops
  PROVE  /\ Reports(Happened(p, op)) => QueueTypes'
         /\ Reports(Happened(p, op) \o Happened(q, op2)) => QueueTypes'
<1> DEFINE E == [path : Files \cup {Dir}, op : Ops]
<1>1. Happened(p, op) \in Seq(E) /\ Happened(q, op2) \in Seq(E)
  <2>1. \A e \in E : <<e>> \in Seq(E)
    OBVIOUS
  <2>2. [path |-> p, op |-> op] \in E /\ [path |-> q, op |-> op2] \in E /\ << >> \in Seq(E)
    OBVIOUS
  <2> QED
    BY <2>1, <2>2 DEF Happened
<1>2. Happened(p, op) \o Happened(q, op2) \in Seq(E)
  BY <1>1
<1>3. \A s \in Seq(E) : queue \o s \in Seq(E)
  BY DEF QueueTypes
<1> QED
  BY <1>1, <1>2, <1>3 DEF Reports, QueueTypes

(* What a new or changed file looks like.                                  *)
LEMMA FileStats ==
  ASSUME FileTypes, ops \in 0..MaxOps, ops < MaxOps
  PROVE  /\ \A i \in Inodes : File(i) \in Stats
         /\ \A p \in Files : disk[p] # None => [disk[p] EXCEPT !.time = ops + 1] \in Stats
         /\ ops + 1 \in 0..MaxOps
<1>1. MaxOps \in Nat /\ ops + 1 \in 0..MaxOps
  BY BoundsAssumption DEF BoundsAssumption
<1>2. \A i \in Inodes : File(i) \in Stats
  BY <1>1 DEF File, Stats, Stat
<1>3. ASSUME NEW p \in Files, disk[p] # None
      PROVE  [disk[p] EXCEPT !.time = ops + 1] \in Stats
  <2>1. disk[p] \in Stat
    BY <1>3 DEF FileTypes, Stats
  <2> QED
    BY <2>1, <1>1 DEF Stat, Stats
<1> QED
  BY <1>1, <1>2, <1>3

(* The events that the aggregator keeps.                                   *)
LEMMA PushTypes ==
  ASSUME PendingTypes, NEW p \in Files \cup {Dir}
  PROVE  /\ \A type \in {"create", "write", "remove"} : Push(p, type) => PendingTypes'
         /\ \A old \in Files : PushRename(p, old) => PendingTypes'
  BY DEF PendingTypes, Push, PushRename, Pushed, PushedRename, Event

(* HasChanged reports a change, or none.                                   *)
LEMMA PushIfChangedTypes ==
  ASSUME PendingTypes, NEW p \in Files, PushIfChanged(p)
  PROVE  PendingTypes'
<1>1. CASE Changed(p) = None
  BY <1>1 DEF PushIfChanged, PendingTypes
<1>2. CASE Changed(p) # None
  <2>1. Changed(p) \in {"create", "write", "remove"}
    BY <1>2 DEF Changed
  <2>2. Push(p, Changed(p))
    BY <1>2 DEF PushIfChanged
  <2> QED
    BY <2>1, <2>2, PushTypes
<1> QED
  BY <1>1, <1>2

(* Update of the scanner.                                                  *)
LEMMA RememberTypes ==
  ASSUME FileTypes, NEW p \in Files, Remember(p)
  PROVE  scanner' \in [Files -> Stats]
  BY DEF FileTypes, Remember

(* Users change the disk and the queue, and nothing of the watcher.        *)
WatcherSame == UNCHANGED <<scanner, held, background, channel, cycle, state>>

(* A step of theirs keeps the invariant if what it changes has its type.   *)
LEMMA UserChanges ==
  ASSUME Inv, WatcherSame, disk' \in [Files -> Stats], dir' \in {"absent", "there", "left"},
         watched' \in BOOLEAN, QueueTypes', ops' \in 0..MaxOps, been' \in [Inodes -> SUBSET Files]
  PROVE  Inv'
<1>1. Paired'
  BY DEF Inv, Paired, HeldInStep, WatcherSame, held
<1>2. TypeOK'
  BY DEF Inv, TypeOK, WatcherSame, QueueTypes, held, background, channel, cycle
<1> QED
  BY <1>1, <1>2 DEF Inv

(* A move of a file on disk.                                               *)
LEMMA MoveTypes ==
  ASSUME Inv, NEW p \in Files, NEW q \in Files, disk[p] # None
  PROVE  Moved(p, q) \in [Files -> Stats] /\ BeenMoved(p, q) \in [Inodes -> SUBSET Files]
<1>1. disk \in [Files -> Stats] /\ been \in [Inodes -> SUBSET Files]
  BY DEF Inv, TypeOK
<1>2. Moved(p, q) \in [Files -> Stats]
  BY <1>1 DEF Moved, Stats
<1>3. disk[p].ino \in Inodes
  BY <1>1 DEF Stats, Stat
<1>4. BeenMoved(p, q) \in [Inodes -> SUBSET Files]
  BY <1>1, <1>3 DEF BeenMoved
<1> QED
  BY <1>2, <1>4

(* Whatever the user does, the maps of held removals stay as they are.     *)
LEMMA UserStep ==
  ASSUME Inv, UserNext
  PROVE  Inv'
<1>0. /\ FileTypes /\ QueueTypes /\ ops \in 0..MaxOps
      /\ dir \in {"absent", "there", "left"} /\ watched \in BOOLEAN
      /\ been \in [Inodes -> SUBSET Files]
  BY DEF Inv, TypeOK, FileTypes, QueueTypes
<1>1. ASSUME NEW events, UserDoes(events)
      PROVE  WatcherSame /\ Reports(events) /\ ops < MaxOps /\ ops' \in 0..MaxOps
  BY <1>0, <1>1, FileStats DEF UserDoes, WatcherSame
<1>2. "create" \in Ops /\ "write" \in Ops /\ "remove" \in Ops /\ "rename" \in Ops
  BY DEF Ops
<1>3. ASSUME NEW p \in Files, UserCreate(p)
      PROVE  Inv'
  <2>1. UserDoes(Happened(p, "create")) /\ UNCHANGED <<dir, watched>> /\ Fresh # {}
    BY <1>3 DEF UserCreate
  <2>2. PICK i \in Inodes : disk' = [disk EXCEPT ![p] = File(i)] /\ been' = [been EXCEPT ![i] = {p}]
    <3> DEFINE i == CHOOSE f \in Fresh : TRUE
    <3>1. i \in Inodes
      BY <2>1 DEF Fresh
    <3>2. disk' = [disk EXCEPT ![p] = File(i)] /\ been' = [been EXCEPT ![i] = {p}]
      BY <1>3 DEF UserCreate
    <3> QED
      BY <3>1, <3>2
  <2>3. disk' \in [Files -> Stats] /\ been' \in [Inodes -> SUBSET Files]
    BY <1>0, <1>1, <2>1, <2>2, FileStats DEF FileTypes
  <2>4. QueueTypes'
    BY <1>0, <1>1, <1>2, <2>1, QueueKept
  <2> QED
    BY <1>0, <1>1, <2>1, <2>3, <2>4, UserChanges
<1>4. ASSUME NEW p \in Files, UserWrite(p)
      PROVE  Inv'
  <2>1. /\ UserDoes(Happened(p, "write")) /\ UNCHANGED <<dir, watched, been>> /\ disk[p] # None
        /\ disk' = [disk EXCEPT ![p] = [disk[p] EXCEPT !.time = ops + 1]]
    BY <1>4 DEF UserWrite
  <2>2. disk' \in [Files -> Stats]
    BY <1>0, <1>1, <2>1, FileStats DEF FileTypes
  <2>3. QueueTypes'
    BY <1>0, <1>1, <1>2, <2>1, QueueKept
  <2> QED
    BY <1>0, <1>1, <2>1, <2>2, <2>3, UserChanges
<1>5. ASSUME NEW p \in Files, UserRemove(p)
      PROVE  Inv'
  <2>1. /\ UserDoes(Happened(p, "remove")) /\ UNCHANGED <<dir, watched, been>>
        /\ disk' = [disk EXCEPT ![p] = None]
    BY <1>5 DEF UserRemove
  <2>2. disk' \in [Files -> Stats]
    BY <1>0, <2>1 DEF FileTypes, Stats
  <2>3. QueueTypes'
    BY <1>0, <1>1, <1>2, <2>1, QueueKept
  <2> QED
    BY <1>0, <1>1, <2>1, <2>2, <2>3, UserChanges
<1>6. ASSUME NEW p \in Files, NEW q \in Files, UserMove(p, q)
      PROVE  Inv'
  <2>1. /\ UserDoes(Happened(p, "rename") \o Happened(q, "create"))
        /\ UNCHANGED <<dir, watched>> /\ disk[p] # None
        /\ disk' = Moved(p, q) /\ been' = BeenMoved(p, q)
    BY <1>6 DEF UserMove, MayLeave
  <2>2. QueueTypes'
    BY <1>0, <1>1, <1>2, <2>1, QueueKept
  <2>3. disk' \in [Files -> Stats] /\ been' \in [Inodes -> SUBSET Files]
    BY <2>1, MoveTypes
  <2> QED
    BY <1>0, <1>1, <2>1, <2>2, <2>3, UserChanges
<1>7. CASE MoveDirIn
  <2>1. UserDoes(Happened(Dir, "create")) /\ dir' = "there" /\ UNCHANGED watched
    BY <1>7 DEF MoveDirIn
  <2>2. PICK f \in [Inside -> Fresh] :
          /\ disk' = [p \in Files |-> IF p \in Inside THEN File(f[p]) ELSE disk[p]]
          /\ been' = [i \in Inodes |-> been[i] \cup {p \in Inside : f[p] = i}]
    BY <1>7 DEF MoveDirIn
  <2>3. \A p \in Inside : File(f[p]) \in Stats
    BY <1>0, <1>1, <2>1, FileStats DEF Fresh
  <2>4. disk' \in [Files -> Stats] /\ been' \in [Inodes -> SUBSET Files]
    BY <1>0, <2>2, <2>3, NoneApart DEF FileTypes
  <2>5. QueueTypes'
    BY <1>0, <1>1, <1>2, <2>1, QueueKept
  <2> QED
    BY <1>0, <1>1, <2>1, <2>4, <2>5, UserChanges
<1>8. CASE MoveDirOut
  <2>1. /\ UserDoes(Happened(Dir, "rename")) /\ dir' = "left" /\ UNCHANGED <<watched, been>>
        /\ disk' = [p \in Files |-> IF p \in Inside THEN None ELSE disk[p]]
    BY <1>8 DEF MoveDirOut
  <2>2. disk' \in [Files -> Stats]
    BY <1>0, <2>1 DEF FileTypes, Stats
  <2>3. QueueTypes'
    BY <1>0, <1>1, <1>2, <2>1, QueueKept
  <2> QED
    BY <1>0, <1>1, <2>1, <2>2, <2>3, UserChanges
<1>9. ASSUME NEW p \in Inside, NEW op \in {"create", "write", "remove"}, ElsewhereChange(p, op)
      PROVE  Inv'
  <2>1. UserDoes(Happened(p, op)) /\ UNCHANGED <<disk, dir, watched, been>>
    BY <1>9 DEF ElsewhereChange
  <2>2. QueueTypes'
    BY <1>0, <1>1, <1>2, <2>1, QueueKept, NoneApart
  <2> QED
    BY <1>0, <1>1, <2>1, <2>2, UserChanges DEF FileTypes
<1> QED
  BY <1>3, <1>4, <1>5, <1>6, <1>7, <1>8, <1>9 DEF UserNext

-----------------------------------------------------------------------------
(* handle.  It takes the first event, and leaves the disk as it is.        *)

(* What a step of the watcher itself has to keep.                          *)
LEMMA WatcherChanges ==
  ASSUME Inv, UNCHANGED <<disk, dir, been, ops, cycle, sending, Out>>,
         watched' \in BOOLEAN, state' \in States,
         QueueTypes', scanner' \in [Files -> Stats], HeldTypes', LateTypes', Paired',
         walk' \subseteq Inside \cup {Dir}, rescan' \subseteq Files, PendingTypes'
  PROVE  Inv'
<1>1. TypeOK'
  BY DEF Inv, TypeOK, QueueTypes, HeldTypes, LateTypes, PendingTypes, cycle
<1> QED
  BY <1>1 DEF Inv

(* What is taken out of a queue.                                           *)
LEMMA FirstTaken ==
  ASSUME NEW E, NEW s \in Seq(E), s # << >>
  PROVE  Head(s) \in E /\ Tail(s) \in Seq(E)
  OBVIOUS

(* The event taken, and what handle leaves alone.                          *)
LEMMA HandlesTypes ==
  ASSUME Inv, Handles
  PROVE  /\ watched \in BOOLEAN /\ UNCHANGED <<disk, dir, been, ops, cycle, sending, Out, rescan, state>>
         /\ state' \in States
         /\ QueueTypes' /\ Ev \in [path : Files \cup {Dir}, op : Ops]
         /\ rescan' \subseteq Files
<1>1. queue \in Seq([path : Files \cup {Dir}, op : Ops]) /\ queue # <<>>
  BY DEF Inv, TypeOK, Handles
<1>2. queue' \in Seq([path : Files \cup {Dir}, op : Ops]) /\ Ev \in [path : Files \cup {Dir}, op : Ops]
  BY <1>1, FirstTaken DEF Handles, Ev
<1> QED
  BY <1>2 DEF Inv, TypeOK, Handles, QueueTypes

(* A timer that is stopped may be late with its callback only if callbacks *)
(* can be late at all.                                                     *)
LEMMA StopTimerTypes ==
  ASSUME Inv, NEW i \in Inodes, pendingRenames[i] # None, StopTimer(i)
  PROVE  LateTypes' /\ (InTime => late' = {})
<1>1. late \subseteq [path : Files, ino : Inodes] /\ pendingRenames[i] \in Files
  BY DEF Inv, TypeOK
<1>2. [path |-> pendingRenames[i], ino |-> i] \in [path : Files, ino : Inodes]
  BY <1>1
<1>3. \/ late' = late
      \/ /\ ~InTime
         /\ late' = late \cup {[path |-> pendingRenames[i], ino |-> i]}
  BY DEF StopTimer, InTime
<1>4. LateTypes'
  BY <1>1, <1>2, <1>3 DEF LateTypes
<1> QED
  BY <1>3, <1>4 DEF Inv, Paired

(* Letting go of one held removal.                                         *)
LEMMA LettingGo ==
  ASSUME Inv, NEW i \in Inodes, pendingRenames[i] # None,
         pendingRenames' = [pendingRenames EXCEPT ![i] = None],
         pendingRenamePaths' = [pendingRenamePaths EXCEPT ![pendingRenames[i]] = None]
  PROVE  HeldTypes' /\ (InTime => HeldInStep') /\ pendingRenames[i] \in Files
<1>1. /\ pendingRenames \in [Inodes -> Files \cup {None}]
      /\ pendingRenamePaths \in [Files -> Inodes \cup {None}]
  BY DEF Inv, TypeOK
<1>2. HeldTypes'
  BY <1>1 DEF HeldTypes
<1>3. InTime => HeldInStep'
  BY <1>1, NoneApart DEF Inv, Paired, HeldInStep
<1> QED
  BY <1>1, <1>2, <1>3

(* Nothing held changes.                                                   *)
LEMMA HeldSame ==
  ASSUME Inv, UNCHANGED held
  PROVE  HeldTypes' /\ LateTypes' /\ Paired'
  BY DEF Inv, TypeOK, HeldTypes, LateTypes, Paired, HeldInStep, held

(* handle keeps the invariant.                                             *)
LEMMA HandleStep ==
  ASSUME Inv, Handle
  PROVE  Inv'
<1>0. /\ FileTypes /\ PendingTypes /\ HeldTypes
      /\ walk \subseteq Inside \cup {Dir}
  BY DEF Inv, TypeOK, FileTypes, PendingTypes, HeldTypes
<1>1. CASE HandleDropped
  BY <1>0, <1>1, HandlesTypes, HeldSame, WatcherChanges DEF HandleDropped, FileTypes, PendingTypes
<1>2. CASE HandleDirectory
  <2>1. Handles /\ watched' \in BOOLEAN /\ UNCHANGED <<scanner, held>>
    BY <1>2 DEF HandleDirectory
  <2>2. PendingTypes' /\ walk' \subseteq Inside \cup {Dir}
    BY <1>0, <1>2, PushTypes DEF HandleDirectory, PendingTypes
  <2> QED
    BY <1>0, <2>1, <2>2, HandlesTypes, HeldSame, WatcherChanges DEF FileTypes
<1>3. CASE HandleRename
  <2> DEFINE p == Ev.path
             i == disk[p].ino
             old == pendingRenames[i]
  <2>1. /\ Handles /\ p \in Files /\ IsRename(p) /\ StopTimer(i) /\ Remember(p)
        /\ PushRename(p, old) /\ UNCHANGED <<watched, walk>>
        /\ pendingRenames' = [pendingRenames EXCEPT ![i] = None]
        /\ pendingRenamePaths' = [pendingRenamePaths EXCEPT ![old] = None]
    BY <1>3 DEF HandleRename
  <2>2. i \in Inodes /\ old # None
    BY <1>0, <2>1 DEF IsRename, FileTypes, Stats, Stat
  <2> HIDE DEF p, i
  <2>3. HeldTypes' /\ (InTime => HeldInStep') /\ old \in Files
    BY <2>1, <2>2, LettingGo
  <2>4. LateTypes' /\ Paired'
    BY <2>1, <2>2, <2>3, StopTimerTypes DEF Paired
  <2>5. PendingTypes' /\ scanner' \in [Files -> Stats]
    BY <1>0, <2>1, <2>3, PushTypes, RememberTypes
  <2> QED
    BY <1>0, <2>1, <2>3, <2>4, <2>5, HandlesTypes, WatcherChanges
<1>4. CASE HandleCreate
  <2> DEFINE p == Ev.path
             i == pendingRenamePaths[p]
  <2>1. /\ Handles /\ p \in Files /\ UNCHANGED <<watched, walk>> /\ Push(p, "create")
        /\ IF disk[p] # None THEN Remember(p) ELSE UNCHANGED scanner
        /\ IF IsRecreated(p)
           THEN /\ StopTimer(i)
                /\ pendingRenames' = [pendingRenames EXCEPT ![i] = None]
                /\ pendingRenamePaths' = [pendingRenamePaths EXCEPT ![p] = None]
           ELSE UNCHANGED held
    BY <1>4 DEF HandleCreate
  <2> HIDE DEF p
  <2>2. PendingTypes' /\ scanner' \in [Files -> Stats]
    BY <1>0, <2>1, PushTypes, RememberTypes DEF FileTypes
  <2>3. HeldTypes' /\ LateTypes' /\ Paired'
    <3>1. CASE IsRecreated(p)
      <4>1. i \in Inodes /\ pendingRenames[i] # None
        BY <1>0, <2>1, <3>1 DEF IsRecreated, HeldTypes
      <4>2. InTime => pendingRenames[i] = p
        BY <1>0, <2>1, <3>1 DEF IsRecreated, HeldInStep, Inv, Paired
      <4> HIDE DEF i
      <4>3. HeldTypes'
        BY <1>0, <2>1, <3>1, <4>1 DEF HeldTypes
      <4>4. InTime => HeldInStep'
        BY <2>1, <3>1, <4>1, <4>2, LettingGo
      <4> QED
        BY <2>1, <3>1, <4>1, <4>3, <4>4, StopTimerTypes DEF Paired
    <3>2. CASE ~IsRecreated(p)
      BY <2>1, <3>2, HeldSame
    <3> QED
      BY <3>1, <3>2
  <2> QED
    BY <1>0, <2>1, <2>2, <2>3, HandlesTypes, WatcherChanges
<1>5. CASE HandleRemove
  <2> DEFINE p == Ev.path
             i == scanner[p].ino
             other == pendingRenames[i]
  <2>1. /\ Handles /\ p \in Files /\ UNCHANGED <<watched, walk>>
        /\ ~Dropped(Ev) /\ Ev.op # "create"
        /\ scanner' = [scanner EXCEPT ![p] = None]
        /\ IF scanner[p] = None
           THEN Push(p, "remove") /\ UNCHANGED held
           ELSE /\ IF other = None THEN UNCHANGED late ELSE StopTimer(i)
                /\ pendingRenames' = [pendingRenames EXCEPT ![i] = p]
                /\ pendingRenamePaths' =
                     [q \in Files |-> IF q = p THEN i
                                      ELSE IF q = other THEN None ELSE pendingRenamePaths[q]]
                /\ UNCHANGED pending
    BY <1>5 DEF HandleRemove
  <2>2. pendingRenamePaths[p] = None
    BY <2>1 DEF Dropped
  <2> HIDE DEF p
  <2>3. scanner' \in [Files -> Stats] /\ PendingTypes'
    BY <1>0, <2>1, PushTypes DEF FileTypes, Stats, PendingTypes
  <2>4. HeldTypes' /\ LateTypes' /\ Paired'
    <3>1. CASE scanner[p] = None
      BY <2>1, <3>1, HeldSame
    <3>2. CASE scanner[p] # None
      <4>1. i \in Inodes
        BY <1>0, <2>1, <3>2 DEF FileTypes, Stats, Stat
      <4> HIDE DEF i
      <4>2. HeldTypes'
        BY <1>0, <2>1, <3>2, <4>1 DEF HeldTypes
      <4>3. HeldInStep => \A q \in Files : pendingRenamePaths[q] = i /\ i # None => q = other
        BY <1>0 DEF HeldInStep
      <4>4. HeldInStep => HeldInStep'
        BY <1>0, <2>1, <2>2, <3>2, <4>1, <4>3, NoneApart DEF HeldInStep, HeldTypes
      <4>5. LateTypes' /\ (InTime => late' = {})
        <5>1. CASE other = None
          BY <2>1, <3>2, <5>1 DEF Inv, TypeOK, Paired, LateTypes
        <5>2. CASE other # None
          BY <2>1, <3>2, <4>1, <5>2, StopTimerTypes
        <5> QED
          BY <5>1, <5>2
      <4> QED
        BY <4>2, <4>4, <4>5 DEF Inv, Paired
    <3> QED
      BY <3>1, <3>2
  <2> QED
    BY <1>0, <2>1, <2>3, <2>4, HandlesTypes, WatcherChanges
<1>6. CASE HandleWrite
  <2>1. /\ Handles /\ Ev.path \in Files /\ PushIfChanged(Ev.path) /\ Remember(Ev.path)
        /\ UNCHANGED <<watched, held, walk>>
    BY <1>6 DEF HandleWrite
  <2>2. PendingTypes' /\ scanner' \in [Files -> Stats]
    BY <1>0, <2>1, PushIfChangedTypes, RememberTypes
  <2> QED
    BY <1>0, <2>1, <2>2, HandlesTypes, HeldSame, WatcherChanges
<1> QED
  BY <1>1, <1>2, <1>3, <1>4, <1>5, <1>6 DEF Handle

(* Timers and background jobs.                                             *)

(* A window ends, an event is emitted or sent.                             *)
LEMMA TimersStep ==
  ASSUME Inv, Timers
  PROVE  Inv'
<1>0. /\ FileTypes /\ QueueTypes /\ PendingTypes /\ HeldTypes /\ LateTypes
      /\ walk \subseteq Inside \cup {Dir} /\ rescan \subseteq Files
      /\ state \in States /\ watched \in BOOLEAN
      /\ sending \subseteq ScanEvent /\ Out \in Seq(ScanEvent)
  BY DEF Inv, TypeOK, FileTypes, QueueTypes, PendingTypes, HeldTypes, LateTypes
<1>1. CASE WindowEnds
  <2>1. PICK t \in Running \cup late :
          /\ late' = IF t \in Running THEN late ELSE late \ {t}
          /\ Callback(t.path, t.ino)
    BY <1>1 DEF WindowEnds
  <2>2. /\ UNCHANGED <<user, scanner, background, sending, Out, cycle, state>>
        /\ LateTypes' /\ (late = {} => late' = {})
    BY <1>0, <1>1, <2>1 DEF WindowEnds, LateTypes
  <2>3. HeldTypes' /\ PendingTypes' /\ (InTime => HeldInStep')
    <3>1. CASE t \in Running
      <4>1. PICK i \in Inodes : pendingRenames[i] # None /\ t = Timer(i)
        BY <3>1 DEF Running
      <4>2. t.path = pendingRenames[i] /\ t.ino = i
        BY <4>1 DEF Timer
      <4>3. /\ pendingRenames' = [pendingRenames EXCEPT ![i] = None]
            /\ pendingRenamePaths' = [pendingRenamePaths EXCEPT ![pendingRenames[i]] = None]
            /\ Push(pendingRenames[i], "remove")
        BY <2>1, <4>1, <4>2 DEF Callback
      <4>4. HeldTypes' /\ (InTime => HeldInStep') /\ pendingRenames[i] \in Files
        BY <4>1, <4>3, LettingGo
      <4> QED
        BY <1>0, <4>3, <4>4, PushTypes
    <3>2. CASE t \notin Running
      <4>1. t \in late /\ t.path \in Files /\ t.ino \in Inodes
        BY <1>0, <2>1, <3>2 DEF LateTypes
      <4>2. ~InTime
        BY <4>1 DEF Inv, Paired
      <4>3. HeldTypes'
        BY <1>0, <2>1, <4>1 DEF Callback, HeldTypes
      <4>4. PendingTypes'
        BY <1>0, <2>1, <4>1, PushTypes DEF Callback, PendingTypes
      <4> QED
        BY <4>2, <4>3, <4>4
    <3> QED
      BY <3>1, <3>2
  <2>4. Paired'
    BY <2>2, <2>3 DEF Inv, Paired
  <2> QED
    BY <1>0, <2>2, <2>3, <2>4, WatcherChanges DEF user, background, FileTypes, QueueTypes
<1>2. ASSUME NEW p \in Files \cup {Dir}, Emit(p)
      PROVE  Inv'
  <2>1. /\ pending[p] # None
        /\ sending' = sending \cup {[path |-> p, event |-> pending[p]]}
        /\ pending' = [pending EXCEPT ![p] = None]
        /\ UNCHANGED <<user, scanner, held, background, cycle, Out, state>>
    BY <1>2 DEF Emit
  <2>2. pending[p] \in Event
    BY <1>0, <2>1 DEF PendingTypes
  <2>3. sending' \subseteq ScanEvent
    BY <1>0, <2>1, <2>2 DEF ScanEvent
  <2>4. PendingTypes'
    BY <1>0, <2>1 DEF PendingTypes
  <2>5. TypeOK'
    BY <2>1, <2>3, <2>4 DEF Inv, TypeOK, PendingTypes, user, held, background, cycle
  <2> QED
    BY <2>1, <2>5, HeldSame DEF Inv
<1>3. ASSUME NEW e \in sending, Send(e)
      PROVE  Inv'
  <2>1. /\ \/ state' = "panicked" /\ UNCHANGED <<sending, Out>>
           \/ sending' = sending \ {e} /\ Out' = Append(Out, e) /\ UNCHANGED state
        /\ UNCHANGED <<user, scanner, held, background, cycle, pending>>
    BY <1>3 DEF Send
  <2>2. Out' \in Seq(ScanEvent) /\ sending' \subseteq ScanEvent /\ state' \in States
    BY <1>0, <1>3, <2>1 DEF States
  <2>3. TypeOK'
    BY <2>1, <2>2 DEF Inv, TypeOK, user, held, background, cycle
  <2> QED
    BY <2>1, <2>3, HeldSame DEF Inv
<1> QED
  BY <1>1, <1>2, <1>3 DEF Timers

(* The jobs change what the scanner knows and what is pending.             *)
LEMMA BackgroundStep ==
  ASSUME Inv, Background \/ StartRescan
  PROVE  Inv'
<1>0. /\ FileTypes /\ QueueTypes /\ PendingTypes
      /\ walk \subseteq Inside \cup {Dir} /\ rescan \subseteq Files
      /\ state \in States /\ watched \in BOOLEAN /\ ops \in 0..MaxOps
  BY DEF Inv, TypeOK, FileTypes, QueueTypes, PendingTypes
<1>1. CASE AddDir
  <2>1. /\ watched' \in BOOLEAN /\ walk' = {p \in Inside : disk[p] # None}
        /\ scanner' = [p \in Files |-> IF p \in Inside /\ disk[p] # None THEN disk[p] ELSE scanner[p]]
        /\ UNCHANGED <<disk, dir, queue, ops, been, held, rescan, channel, cycle, state>>
    BY <1>1 DEF AddDir
  <2>2. scanner' \in [Files -> Stats]
    BY <1>0, <2>1 DEF FileTypes
  <2>3. TypeOK'
    BY <2>1, <2>2 DEF Inv, TypeOK, held, channel, cycle
  <2> QED
    BY <2>1, <2>3, HeldSame DEF Inv
<1>2. ASSUME NEW p \in Files, WalkFile(p)
      PROVE  Inv'
  <2>1. /\ walk' = walk \ {p} /\ Push(p, "create")
        /\ IF disk[p] # None THEN Remember(p) ELSE UNCHANGED scanner
        /\ UNCHANGED <<user, held, rescan, sending, Out, cycle, state>>
    BY <1>2 DEF WalkFile
  <2>2. scanner' \in [Files -> Stats] /\ PendingTypes' /\ walk' \subseteq Inside \cup {Dir}
    BY <1>0, <2>1, PushTypes, RememberTypes DEF FileTypes
  <2> QED
    BY <1>0, <2>1, <2>2, HeldSame, WatcherChanges DEF user, QueueTypes
<1>3. CASE StartRescan
  <2>1. /\ ops < MaxOps /\ ops' = ops + 1 /\ rescan' \subseteq Files
        /\ UNCHANGED <<disk, dir, watched, queue, been, scanner, held, walk, channel, cycle, state>>
    BY <1>3 DEF StartRescan, On
  <2>2. ops' \in 0..MaxOps
    BY <1>0, <2>1, FileStats
  <2>3. TypeOK'
    BY <2>1, <2>2 DEF Inv, TypeOK, held, channel, cycle
  <2> QED
    BY <2>1, <2>3, HeldSame DEF Inv
<1>4. ASSUME NEW p \in Files, RescanFile(p)
      PROVE  Inv'
  <2>1. /\ rescan' = rescan \ {p}
        /\ IF state = "running" THEN PushIfChanged(p) /\ Remember(p)
           ELSE UNCHANGED <<pending, scanner>>
        /\ UNCHANGED <<user, held, walk, sending, Out, cycle, state>>
    BY <1>4 DEF RescanFile
  <2>2. scanner' \in [Files -> Stats] /\ PendingTypes' /\ rescan' \subseteq Files
    BY <1>0, <2>1, PushIfChangedTypes, RememberTypes DEF FileTypes, PendingTypes
  <2> QED
    BY <1>0, <2>1, <2>2, HeldSame, WatcherChanges DEF user, QueueTypes
<1> QED
  BY <1>1, <1>2, <1>3, <1>4 DEF Background

-----------------------------------------------------------------------------
(* Cycles and the end.                                                     *)

(* A cycle reads the vault, or moves a file in it.                         *)
LEMMA CycleStep ==
  ASSUME Inv, Cycle \/ \E p, q \in Files : RemoteRenameCycle(p, q)
  PROVE  Inv'
<1>0. /\ FileTypes /\ QueueTypes /\ ops \in 0..MaxOps
  BY DEF Inv, TypeOK, FileTypes, QueueTypes
<1>1. CASE Cycle
  <2>1. /\ Out' = << >> /\ ignored' = {} /\ synced' = disk
        /\ UNCHANGED <<user, scanner, held, background, pending, sending, state>>
    BY <1>1 DEF Cycle
  <2>2. Out' \in Seq(ScanEvent) /\ synced' \in [Files -> Stats] /\ ignored' \subseteq Files
    BY <1>0, <2>1 DEF FileTypes
  <2>3. TypeOK'
    BY <2>1, <2>2 DEF Inv, TypeOK, user, held, background
  <2> QED
    BY <2>1, <2>3, HeldSame DEF Inv
<1>2. ASSUME NEW p \in Files, NEW q \in Files, RemoteRenameCycle(p, q)
      PROVE  Inv'
  <2>1. /\ ops < MaxOps /\ ops' = ops + 1 /\ ignored' = {p, q} /\ disk[p] # None
        /\ disk' = Moved(p, q) /\ been' = BeenMoved(p, q) /\ synced' = disk'
        /\ Reports(Happened(p, "rename") \o Happened(q, "create"))
        /\ UNCHANGED <<dir, watched, scanner, held, background, channel, state>>
    BY <1>2 DEF RemoteRenameCycle
  <2>2. "rename" \in Ops /\ "create" \in Ops
    BY DEF Ops
  <2>3. QueueTypes'
    BY <1>0, <2>1, <2>2, QueueKept
  <2>4. disk' \in [Files -> Stats] /\ been' \in [Inodes -> SUBSET Files] /\ ops' \in 0..MaxOps
    BY <1>0, <2>1, MoveTypes, FileStats
  <2>5. TypeOK'
    BY <2>1, <2>3, <2>4 DEF Inv, TypeOK, QueueTypes, held, background, channel
  <2> QED
    BY <2>1, <2>5, HeldSame DEF Inv
<1> QED
  BY <1>1, <1>2

(* What is held is let go of all at once.                                  *)
LEMMA ShutdownStep ==
  ASSUME Inv, Shutdown
  PROVE  Inv'
<1>0. /\ FileTypes /\ QueueTypes /\ PendingTypes /\ LateTypes
      /\ Out \in Seq(ScanEvent) /\ walk \subseteq Inside \cup {Dir} /\ rescan \subseteq Files
  BY DEF Inv, TypeOK, FileTypes, QueueTypes, PendingTypes, LateTypes
<1>1. CASE Stop \/ CloseOut
  <2>1. /\ state' \in States
        /\ UNCHANGED <<user, scanner, held, background, channel, cycle>>
    BY <1>1 DEF Stop, CloseOut, States
  <2>2. TypeOK'
    BY <2>1 DEF Inv, TypeOK, user, held, background, channel, cycle
  <2> QED
    BY <2>1, <2>2, HeldSame DEF Inv
<1>2. CASE CloseAggregator
  <2>1. /\ state' = "flushing" /\ UNCHANGED late
        /\ pendingRenames' = [i \in Inodes |-> None]
        /\ pendingRenamePaths' = [p \in Files |-> None]
        /\ pending' = [p \in DOMAIN pending |->
                         IF \E i \in Inodes : pendingRenames[i] = p
                         THEN [type |-> "remove", old |-> None] ELSE pending[p]]
        /\ UNCHANGED <<user, scanner, background, sending, Out, cycle>>
    BY <1>0, <1>2 DEF CloseAggregator
  <2>2. [type |-> "remove", old |-> None] \in Event
    BY DEF Event
  <2>3. PendingTypes'
    BY <1>0, <2>1, <2>2 DEF PendingTypes
  <2>4. HeldTypes' /\ LateTypes' /\ Paired'
    BY <1>0, <2>1 DEF HeldTypes, HeldInStep, LateTypes, Inv, Paired
  <2> QED
    BY <1>0, <2>1, <2>3, <2>4, WatcherChanges DEF user, background, FileTypes, QueueTypes, States, Inv, TypeOK
<1>3. ASSUME NEW p \in Files \cup {Dir}, Flush(p)
      PROVE  Inv'
  <2>1. /\ pending[p] # None
        /\ pending' = [pending EXCEPT ![p] = None]
        /\ Out' = Append(Out, [path |-> p, event |-> pending[p]])
        /\ UNCHANGED <<user, scanner, held, background, sending, cycle, state>>
    BY <1>3 DEF Flush
  <2>2. [path |-> p, event |-> pending[p]] \in ScanEvent
    BY <1>0, <2>1 DEF PendingTypes, ScanEvent
  <2>3. Out' \in Seq(ScanEvent) /\ PendingTypes'
    BY <1>0, <2>1, <2>2 DEF PendingTypes
  <2>4. TypeOK'
    BY <2>1, <2>3 DEF Inv, TypeOK, PendingTypes, user, held, background, cycle
  <2> QED
    BY <2>1, <2>4, HeldSame DEF Inv
<1> QED
  BY <1>1, <1>2, <1>3 DEF Shutdown

(* A step that changes nothing.                                            *)
LEMMA Stuttering ==
  ASSUME Inv, UNCHANGED vars
  PROVE  Inv'
<1>1. TypeOK'
  BY DEF Inv, TypeOK, vars, user, held, background, channel, cycle
<1> QED
  BY <1>1, HeldSame DEF Inv, vars, held

(* The files that are there at the start have inodes of their own.         *)
LEMMA WatcherInit == Init => Inv
<1> SUFFICES ASSUME Init PROVE Inv
  OBVIOUS
<1>1. FirstInode \in [Files -> Inodes]
  BY InodesAssumption DEF InodesAssumption, FirstInode
<1>2. PICK E \in SUBSET (Files \ Inside) :
        disk = [p \in Files |-> IF p \in E THEN [ino |-> FirstInode[p], time |-> 0] ELSE None]
  BY DEF Init
<1>3. MaxOps \in Nat /\ 0 \in 0..MaxOps
  BY BoundsAssumption DEF BoundsAssumption
<1>4. disk \in [Files -> Stats]
  BY <1>1, <1>2, <1>3 DEF Stats, Stat
<1>5. scanner \in [Files -> Stats] /\ synced \in [Files -> Stats]
  BY <1>4 DEF Init, Stats
<1>6. queue \in Seq([path : Files \cup {Dir}, op : Ops]) /\ Out \in Seq(ScanEvent)
  BY DEF Init
<1>7. /\ pendingRenames \in [Inodes -> Files \cup {None}]
      /\ pendingRenamePaths \in [Files -> Inodes \cup {None}]
      /\ pending \in [Files \cup {Dir} -> Event \cup {None}]
      /\ HeldInStep
  BY DEF Init, HeldInStep
<1>8. been \in [Inodes -> SUBSET Files]
  BY DEF Init, On
<1>9. TypeOK
  BY <1>3, <1>4, <1>5, <1>6, <1>7, <1>8 DEF Init, TypeOK, States
<1> QED
  BY <1>7, <1>9 DEF Init, Inv, Paired

(* The types and, if no callback is late, the pairing, at all times.       *)
LEMMA WatcherInvariant == Spec => []Inv
<1>1. Inv /\ [Next]_vars => Inv'
  BY UserStep, HandleStep, TimersStep, BackgroundStep, CycleStep, ShutdownStep, Stuttering DEF Next
<1> QED
  BY <1>1, WatcherInit, PTL DEF Spec

(* No path is left in pendingRenamePaths, where handle would skip its      *)
(* events for good, without a timer that takes it out: for any files and   *)
(* inodes, and whatever happens, unless a stopped timer's callback is late *)
(* (handleFileCreate, deferDeletion and the callback of a window).         *)
THEOREM HeldTheorem ==
  ASSUME "lateTimer" \notin Races
  PROVE  Spec => []HeldInv
<1>1. Inv => HeldInv
  BY DEF Inv, Paired, InTime, HeldInv
<1> QED
  BY <1>1, WatcherInvariant, PTL

(* Every variable has its type, late callbacks or not.                     *)
THEOREM TypesTheorem == Spec => []TypeOK
<1>1. Inv => TypeOK
  BY DEF Inv
<1> QED
  BY <1>1, WatcherInvariant, PTL

-----------------------------------------------------------------------------
(* What is reported may be believed.  A file state tells of an inode that  *)
(* has been at the path; so does a removal that is held, and it is of a    *)
(* path that is not excluded; and an event is of such a path, and if it is *)
(* a rename the same inode has been at both of its paths.  Where an inode  *)
(* has been is not forgotten, so all of this stays true when files move on *)
(* while their events wait.                                                *)

Seen(b, p, stat) == stat # None => p \in b[stat.ino]
Credible(b, p, event) ==
  event # None =>
    /\ p \notin Excluded /\ event.old \notin Excluded
    /\ event.type = "rename" => \E i \in Inodes : {p, event.old} \subseteq b[i]
Told(b, e) == e.event # None /\ Credible(b, e.path, e.event)

StatsTrue == \A p \in Files : Seen(been, p, disk[p]) /\ Seen(been, p, scanner[p])
HeldTrue == /\ \A i \in Inodes : pendingRenames[i] # None => pendingRenames[i] \in been[i] \ Excluded
            /\ \A t \in late : t.path \notin Excluded
ListedTrue == rescan \cap Excluded = {}
PendingTrue == \A p \in Files \cup {Dir} : Credible(been, p, pending[p])
SentTrue == /\ \A e \in sending : Told(been, e)
            /\ \A k \in 1..Len(Out) : Told(been, Out[k])

TruthInv == StatsTrue /\ HeldTrue /\ ListedTrue /\ PendingTrue /\ SentTrue

(* Where inodes have been is not forgotten.                                *)
Grows == \A i \in Inodes : been[i] \subseteq been'[i]

(* What is true stays true when inodes have been in more places.           *)
LEMMA TrueForGood ==
  ASSUME Inv, TruthInv, Grows
  PROVE  /\ \A p \in Files : Seen(been', p, disk[p]) /\ Seen(been', p, scanner[p])
         /\ \A i \in Inodes : pendingRenames[i] # None => pendingRenames[i] \in been'[i] \ Excluded
         /\ \A p \in Files \cup {Dir} : Credible(been', p, pending[p])
         /\ \A e \in sending : Told(been', e)
         /\ \A k \in 1..Len(Out) : Told(been', Out[k])
<1>1. \A p \in Files : /\ disk[p] # None => disk[p].ino \in Inodes
                       /\ scanner[p] # None => scanner[p].ino \in Inodes
  BY DEF Inv, TypeOK, Stats, Stat
<1>2. \A p \in Files : Seen(been', p, disk[p]) /\ Seen(been', p, scanner[p])
  BY <1>1 DEF TruthInv, StatsTrue, Grows, Seen
<1>3. \A i \in Inodes : pendingRenames[i] # None => pendingRenames[i] \in been'[i] \ Excluded
  BY DEF TruthInv, HeldTrue, Grows
<1>4. \A p, event : Credible(been, p, event) => Credible(been', p, event)
  <2>1. SUFFICES ASSUME NEW p, NEW event, Credible(been, p, event), event # None,
                        event.type = "rename"
                 PROVE  \E i \in Inodes : {p, event.old} \subseteq been'[i]
    BY DEF Credible
  <2>2. PICK i \in Inodes : {p, event.old} \subseteq been[i]
    BY <2>1 DEF Credible
  <2>3. {p, event.old} \subseteq been'[i]
    BY <2>2 DEF Grows
  <2> QED
    BY <2>3
<1> QED
  BY <1>2, <1>3, <1>4 DEF TruthInv, PendingTrue, SentTrue, Told

(* Whoever moves files, the watcher's knowledge stays true.                *)
LEMMA DiskChanges ==
  ASSUME Inv, TruthInv, Grows, \A p \in Files : Seen(been', p, disk'[p]),
         UNCHANGED <<scanner, held, rescan, channel>>
  PROVE  TruthInv'
<1>1. UNCHANGED <<pendingRenames, late, pending, sending, Out>>
  BY DEF held, channel
<1>2. StatsTrue'
  BY TrueForGood DEF StatsTrue
<1>3. HeldTrue'
  BY <1>1, TrueForGood DEF HeldTrue, TruthInv
<1>4. ListedTrue'
  BY DEF ListedTrue, TruthInv
<1>5. PendingTrue'
  BY <1>1, TrueForGood DEF PendingTrue
<1>6. SentTrue'
  BY <1>1, TrueForGood DEF SentTrue
<1> QED
  BY <1>2, <1>3, <1>4, <1>5, <1>6 DEF TruthInv

(* A moved file has been where it is now.                                  *)
LEMMA MoveTrue ==
  ASSUME Inv, TruthInv, NEW p \in Files, NEW q \in Files, disk[p] # None, p # q,
         disk' = Moved(p, q), been' = BeenMoved(p, q)
  PROVE  Grows /\ \A r \in Files : Seen(been', r, disk'[r])
<1>1. /\ disk \in [Files -> Stats] /\ been \in [Inodes -> SUBSET Files]
      /\ \A r \in Files : disk[r] # None => disk[r].ino \in Inodes
  BY DEF Inv, TypeOK, Stats, Stat
<1>2. PICK i \in Inodes : i = disk[p].ino
  BY <1>1
<1>3. been' = [been EXCEPT ![i] = been[i] \cup {q}]
  BY <1>2 DEF BeenMoved
<1>4. Grows
  BY <1>1, <1>3 DEF Grows
<1>5. ASSUME NEW r \in Files, disk'[r] # None
      PROVE  r \in been'[disk'[r].ino]
  <2>1. CASE r = p
    BY <1>1, <1>5, <2>1 DEF Moved
  <2>2. CASE r = q
    <3>1. disk'[r] = disk[p]
      BY <1>1, <2>2 DEF Moved
    <3> QED
      BY <1>1, <1>2, <1>3, <2>2, <3>1
  <2>3. CASE r # p /\ r # q
    <3>1. disk'[r] = disk[r]
      BY <1>1, <2>3 DEF Moved
    <3>2. r \in been[disk[r].ino] /\ disk[r].ino \in Inodes
      BY <1>1, <1>5, <3>1 DEF TruthInv, StatsTrue, Seen
    <3> QED
      BY <1>4, <3>1, <3>2 DEF Grows
  <2> QED
    BY <2>1, <2>2, <2>3
<1> QED
  BY <1>4, <1>5 DEF Seen

(* The user's steps: a new file takes an inode that has been nowhere.      *)
LEMMA UserTrue ==
  ASSUME Inv, TruthInv, UserNext
  PROVE  TruthInv'
<1>0. /\ disk \in [Files -> Stats] /\ been \in [Inodes -> SUBSET Files]
      /\ \A p \in Files : disk[p] # None => disk[p].ino \in Inodes
      /\ \A p \in Files : disk[p] # None => p \in been[disk[p].ino]
  BY DEF Inv, TypeOK, Stats, Stat, TruthInv, StatsTrue, Seen
<1>1. ASSUME NEW events, UserDoes(events)
      PROVE  UNCHANGED <<scanner, held, rescan, channel>>
  BY <1>1 DEF UserDoes, background
<1>2. Inside \subseteq Files
  BY NoneApart
<1>3. \A i \in Inodes : File(i).ino = i
  BY DEF File
<1>4. ASSUME NEW p \in Files, UserCreate(p)
      PROVE  TruthInv'
  <2>1. UNCHANGED <<scanner, held, rescan, channel>> /\ Fresh # {}
    BY <1>1, <1>4 DEF UserCreate
  <2>2. PICK i \in Fresh : disk' = [disk EXCEPT ![p] = File(i)] /\ been' = [been EXCEPT ![i] = {p}]
    BY <1>4, <2>1 DEF UserCreate
  <2>3. i \in Inodes /\ been[i] = {}
    BY <2>2 DEF Fresh
  <2>4. Grows
    BY <1>0, <2>2, <2>3 DEF Grows
  <2>5. \A r \in Files : Seen(been', r, disk'[r])
    BY <1>0, <1>3, <2>2, <2>3, <2>4 DEF Seen, Grows
  <2> QED
    BY <2>1, <2>4, <2>5, DiskChanges
<1>5. ASSUME NEW p \in Files, UserWrite(p)
      PROVE  TruthInv'
  <2>1. /\ UNCHANGED <<scanner, held, rescan, channel, been>> /\ disk[p] # None
        /\ disk' = [disk EXCEPT ![p] = [disk[p] EXCEPT !.time = ops + 1]]
    BY <1>1, <1>5 DEF UserWrite
  <2>2. disk[p] \in Stat
    BY <1>0, <2>1 DEF Stats
  <2>3. [disk[p] EXCEPT !.time = ops + 1].ino = disk[p].ino
    BY <2>2 DEF Stat
  <2>4. Grows /\ \A r \in Files : Seen(been', r, disk'[r])
    BY <1>0, <2>1, <2>3 DEF Seen, Grows
  <2> QED
    BY <2>1, <2>4, DiskChanges
<1>6. ASSUME NEW p \in Files, UserRemove(p)
      PROVE  TruthInv'
  <2>1. /\ UNCHANGED <<scanner, held, rescan, channel, been>>
        /\ disk' = [disk EXCEPT ![p] = None]
    BY <1>1, <1>6 DEF UserRemove
  <2>2. Grows /\ \A r \in Files : Seen(been', r, disk'[r])
    BY <1>0, <2>1 DEF Seen, Grows
  <2> QED
    BY <2>1, <2>2, DiskChanges
<1>7. ASSUME NEW p \in Files, NEW q \in Files, UserMove(p, q)
      PROVE  TruthInv'
  <2>1. /\ UNCHANGED <<scanner, held, rescan, channel>> /\ disk[p] # None /\ p # q
        /\ disk' = Moved(p, q) /\ been' = BeenMoved(p, q)
    BY <1>1, <1>7 DEF UserMove, MayLeave
  <2> QED
    BY <2>1, MoveTrue, DiskChanges
<1>8. CASE MoveDirIn
  <2>1. UNCHANGED <<scanner, held, rescan, channel>>
    BY <1>1, <1>8 DEF MoveDirIn
  <2>2. PICK f \in [Inside -> Fresh] :
          /\ disk' = [p \in Files |-> IF p \in Inside THEN File(f[p]) ELSE disk[p]]
          /\ been' = [i \in Inodes |-> been[i] \cup {p \in Inside : f[p] = i}]
    BY <1>8 DEF MoveDirIn
  <2>3. Grows
    BY <2>2 DEF Grows
  <2>4. \A p \in Inside : f[p] \in Inodes
    BY <2>2 DEF Fresh
  <2>5. \A r \in Files : Seen(been', r, disk'[r])
    <3>1. ASSUME NEW r \in Inside
          PROVE  Seen(been', r, disk'[r])
      <4>1. disk'[r].ino = f[r]
        BY <1>2, <1>3, <2>2, <2>4
      <4> QED
        BY <2>2, <2>4, <4>1 DEF Seen
    <3>2. ASSUME NEW r \in Files \ Inside
          PROVE  Seen(been', r, disk'[r])
      BY <1>0, <2>2, <2>3 DEF Seen, Grows
    <3> QED
      BY <3>1, <3>2
  <2> QED
    BY <2>1, <2>3, <2>5, DiskChanges
<1>9. CASE MoveDirOut
  <2>1. /\ UNCHANGED <<scanner, held, rescan, channel, been>>
        /\ disk' = [p \in Files |-> IF p \in Inside THEN None ELSE disk[p]]
    BY <1>1, <1>9 DEF MoveDirOut
  <2>2. Grows /\ \A r \in Files : Seen(been', r, disk'[r])
    BY <1>0, <2>1 DEF Seen, Grows
  <2> QED
    BY <2>1, <2>2, DiskChanges
<1>10. ASSUME NEW p \in Inside, NEW op \in {"create", "write", "remove"}, ElsewhereChange(p, op)
       PROVE  TruthInv'
  <2>1. UNCHANGED <<disk, been, scanner, held, rescan, channel>>
    BY <1>1, <1>10 DEF ElsewhereChange
  <2>2. Grows /\ \A r \in Files : Seen(been', r, disk'[r])
    BY <1>0, <2>1 DEF Seen, Grows
  <2> QED
    BY <2>1, <2>2, DiskChanges
<1> QED
  BY <1>4, <1>5, <1>6, <1>7, <1>8, <1>9, <1>10 DEF UserNext

(* What the watcher itself has to keep when the disk does not change.      *)
LEMMA WatcherKeepsTrue ==
  ASSUME Inv, TruthInv, UNCHANGED <<disk, been, sending, Out>>,
         \A p \in Files : scanner'[p] \in {scanner[p], disk[p], None},
         HeldTrue', ListedTrue', PendingTrue'
  PROVE  TruthInv'
<1>1. StatsTrue'
  BY DEF TruthInv, StatsTrue, Seen
<1>2. SentTrue'
  BY DEF TruthInv, SentTrue
<1> QED
  BY <1>1, <1>2 DEF TruthInv

(* An event pushed for a path that is not excluded.                        *)
LEMMA PushTrue ==
  ASSUME Inv, TruthInv, UNCHANGED been, NEW p \in Files \cup {Dir}, p \notin Excluded
  PROVE  /\ \A type \in {"create", "write", "remove"} : Push(p, type) => PendingTrue'
         /\ \A old \in Files, i \in Inodes :
              PushRename(p, old) /\ old \notin Excluded /\ {p, old} \subseteq been[i] => PendingTrue'
<1>1. pending \in [Files \cup {Dir} -> Event \cup {None}]
  BY DEF Inv, TypeOK
<1>2. None \notin Excluded
  BY NoneApart
<1>3. ASSUME NEW type \in {"create", "write", "remove"}, Push(p, type)
      PROVE  PendingTrue'
  <2>1. pending' = [pending EXCEPT ![p] = [type |-> type, old |-> None]] /\ type # "rename"
    BY <1>3 DEF Push, Pushed
  <2>2. Credible(been, p, [type |-> type, old |-> None])
    BY <1>2, <2>1 DEF Credible
  <2> QED
    BY <1>1, <2>1, <2>2 DEF TruthInv, PendingTrue
<1>4. ASSUME NEW old \in Files, NEW i \in Inodes, PushRename(p, old), old \notin Excluded,
             {p, old} \subseteq been[i]
      PROVE  PendingTrue'
  <2>1. pending' = [pending EXCEPT ![p] = [type |-> "rename", old |-> old]]
    BY <1>4 DEF PushRename, PushedRename
  <2>2. Credible(been, p, [type |-> "rename", old |-> old])
    BY <1>4 DEF Credible
  <2> QED
    BY <1>1, <2>1, <2>2 DEF TruthInv, PendingTrue
<1> QED
  BY <1>3, <1>4

(* HasChanged and Update.                                                  *)
LEMMA PushIfChangedTrue ==
  ASSUME Inv, TruthInv, UNCHANGED been, NEW p \in Files, p \notin Excluded, PushIfChanged(p)
  PROVE  PendingTrue'
<1>1. CASE Changed(p) = None
  BY <1>1 DEF PushIfChanged, TruthInv, PendingTrue
<1>2. CASE Changed(p) # None
  <2>1. Changed(p) \in {"create", "write", "remove"} /\ Push(p, Changed(p))
    BY <1>2 DEF Changed, PushIfChanged
  <2> QED
    BY <2>1, PushTrue
<1> QED
  BY <1>1, <1>2

(* Whatever the scanner remembers of a path, the disk has said.            *)
LEMMA RememberTrue ==
  ASSUME Inv, NEW p \in Files, Remember(p) \/ UNCHANGED scanner
  PROVE  \A q \in Files : scanner'[q] \in {scanner[q], disk[q], None}
<1>1. scanner \in [Files -> Stats]
  BY DEF Inv, TypeOK
<1> QED
  BY <1>1 DEF Remember

(* A removal taken back: its callback, if it is late, is of that path.     *)
LEMMA TakenBackTrue ==
  ASSUME Inv, TruthInv, UNCHANGED been, NEW i \in Inodes, pendingRenames[i] # None, StopTimer(i),
         \A j \in Inodes : j # i => pendingRenames'[j] = pendingRenames[j],
         pendingRenames'[i] # None => pendingRenames'[i] \in been[i] \ Excluded
  PROVE  HeldTrue'
<1>1. pendingRenames[i] \notin Excluded
  BY DEF TruthInv, HeldTrue
<1>2. \A t \in late' : t \in late \/ t = [path |-> pendingRenames[i], ino |-> i]
  BY DEF StopTimer
<1>3. \A t \in late' : t.path \notin Excluded
  BY <1>1, <1>2 DEF TruthInv, HeldTrue
<1> QED
  BY <1>3 DEF TruthInv, HeldTrue

(* Nothing held changes.                                                   *)
LEMMA HeldSameTrue ==
  ASSUME TruthInv, UNCHANGED <<been, held>>
  PROVE  HeldTrue'
  BY DEF TruthInv, HeldTrue, held

(* handle: what the disk says by then is where the file has been.          *)
LEMMA HandleTrue ==
  ASSUME Inv, TruthInv, Handle
  PROVE  TruthInv'
<1>0. /\ disk \in [Files -> Stats] /\ scanner \in [Files -> Stats]
      /\ pendingRenames \in [Inodes -> Files \cup {None}]
      /\ pendingRenamePaths \in [Files -> Inodes \cup {None}]
      /\ \A p \in Files : /\ disk[p] # None => disk[p].ino \in Inodes /\ p \in been[disk[p].ino]
                          /\ scanner[p] # None => scanner[p].ino \in Inodes /\ p \in been[scanner[p].ino]
  BY DEF Inv, TypeOK, Stats, Stat, TruthInv, StatsTrue, Seen
<1>1. /\ UNCHANGED <<disk, been, sending, Out>>
      /\ ListedTrue' /\ Ev.path \in Files \cup {Dir}
  BY HandlesTypes DEF Handle, HandleDropped, HandleDirectory, HandleRename, HandleCreate,
                      HandleRemove, HandleWrite, TruthInv, ListedTrue
<1>2. CASE HandleDropped
  <2>1. UNCHANGED <<scanner, held, pending>>
    BY <1>2 DEF HandleDropped
  <2>2. HeldTrue' /\ PendingTrue'
    BY <1>1, <2>1, HeldSameTrue DEF TruthInv, PendingTrue
  <2> QED
    BY <1>1, <2>1, <2>2, WatcherKeepsTrue
<1>3. CASE HandleDirectory
  <2>1. /\ UNCHANGED <<scanner, held>>
        /\ Push(Dir, "remove") \/ Push(Dir, "create") \/ UNCHANGED pending
    BY <1>3 DEF HandleDirectory
  <2>2. Dir \notin Excluded
    BY NoneApart
  <2>3. HeldTrue' /\ PendingTrue'
    BY <1>1, <2>1, <2>2, HeldSameTrue, PushTrue DEF TruthInv, PendingTrue
  <2> QED
    BY <1>1, <2>1, <2>3, WatcherKeepsTrue
<1>4. CASE HandleRename
  <2> DEFINE p == Ev.path
             i == disk[p].ino
             old == pendingRenames[i]
  <2>1. /\ p \in Files /\ p \notin Excluded /\ IsRename(p) /\ StopTimer(i) /\ Remember(p)
        /\ PushRename(p, old) /\ pendingRenames' = [pendingRenames EXCEPT ![i] = None]
    BY <1>4 DEF HandleRename, Dropped
  <2>2. i \in Inodes /\ old # None /\ p \in been[i]
    BY <1>0, <2>1 DEF IsRename
  <2>3. old \in Files /\ old \in been[i] \ Excluded
    BY <1>0, <2>2 DEF TruthInv, HeldTrue
  <2> HIDE DEF p, i
  <2>4. HeldTrue'
    BY <1>0, <1>1, <2>1, <2>2, TakenBackTrue
  <2>5. PendingTrue'
    BY <1>1, <2>1, <2>2, <2>3, PushTrue
  <2> QED
    BY <1>1, <2>1, <2>4, <2>5, RememberTrue, WatcherKeepsTrue
<1>5. CASE HandleCreate
  <2> DEFINE p == Ev.path
             i == pendingRenamePaths[p]
  <2>1. /\ p \in Files /\ p \notin Excluded /\ Push(p, "create")
        /\ Remember(p) \/ UNCHANGED scanner
        /\ \/ /\ IsRecreated(p) /\ StopTimer(i)
              /\ pendingRenames' = [pendingRenames EXCEPT ![i] = None]
           \/ UNCHANGED held
    BY <1>5 DEF HandleCreate, Dropped
  <2> HIDE DEF p
  <2>2. PendingTrue'
    BY <1>1, <2>1, PushTrue
  <2>3. HeldTrue'
    <3>1. CASE UNCHANGED held
      BY <1>1, <3>1, HeldSameTrue
    <3>2. CASE ~ UNCHANGED held
      <4>1. i \in Inodes /\ pendingRenames[i] # None
        BY <1>0, <2>1, <3>2 DEF IsRecreated
      <4> HIDE DEF i
      <4> QED
        BY <1>0, <1>1, <2>1, <3>2, <4>1, TakenBackTrue
    <3> QED
      BY <3>1, <3>2
  <2> QED
    BY <1>1, <2>1, <2>2, <2>3, RememberTrue, WatcherKeepsTrue
<1>6. CASE HandleRemove
  <2> DEFINE p == Ev.path
             i == scanner[p].ino
             other == pendingRenames[i]
  <2>1. /\ p \in Files /\ p \notin Excluded /\ scanner' = [scanner EXCEPT ![p] = None]
        /\ IF scanner[p] = None
           THEN Push(p, "remove") /\ UNCHANGED held
           ELSE /\ IF other = None THEN UNCHANGED late ELSE StopTimer(i)
                /\ pendingRenames' = [pendingRenames EXCEPT ![i] = p]
                /\ UNCHANGED pending
    BY <1>6 DEF HandleRemove, Dropped
  <2> HIDE DEF p
  <2>2. \A q \in Files : scanner'[q] \in {scanner[q], disk[q], None}
    BY <1>0, <2>1
  <2>3. PendingTrue'
    BY <1>1, <2>1, PushTrue DEF TruthInv, PendingTrue
  <2>4. HeldTrue'
    <3>1. CASE scanner[p] = None
      BY <1>1, <2>1, <3>1, HeldSameTrue
    <3>2. CASE scanner[p] # None
      <4>1. i \in Inodes /\ p \in been[i]
        BY <1>0, <2>1, <3>2
      <4>2. pendingRenames' = [pendingRenames EXCEPT ![i] = p]
        BY <2>1, <3>2
      <4>3. IF other = None THEN UNCHANGED late ELSE StopTimer(i)
        BY <2>1, <3>2
      <4> HIDE DEF i
      <4>4. CASE other = None
        BY <1>0, <1>1, <2>1, <4>1, <4>2, <4>3, <4>4 DEF TruthInv, HeldTrue
      <4>5. CASE other # None
        BY <1>0, <1>1, <2>1, <4>1, <4>2, <4>3, <4>5, TakenBackTrue
      <4> QED
        BY <4>4, <4>5
    <3> QED
      BY <3>1, <3>2
  <2> QED
    BY <1>1, <2>2, <2>3, <2>4, WatcherKeepsTrue
<1>7. CASE HandleWrite
  <2>1. /\ Ev.path \in Files /\ Ev.path \notin Excluded /\ UNCHANGED held
        /\ PushIfChanged(Ev.path) /\ Remember(Ev.path)
    BY <1>7 DEF HandleWrite, Dropped
  <2>2. HeldTrue' /\ PendingTrue'
    BY <1>1, <2>1, HeldSameTrue, PushIfChangedTrue
  <2> QED
    BY <1>1, <2>1, <2>2, RememberTrue, WatcherKeepsTrue
<1> QED
  BY <1>2, <1>3, <1>4, <1>5, <1>6, <1>7 DEF Handle

(* Timers send what is true, and report removals of paths not excluded.    *)
LEMMA TimersTrue ==
  ASSUME Inv, TruthInv, Timers
  PROVE  TruthInv'
<1>0. /\ pending \in [Files \cup {Dir} -> Event \cup {None}]
      /\ pendingRenames \in [Inodes -> Files \cup {None}]
      /\ late \subseteq [path : Files, ino : Inodes] /\ Out \in Seq(ScanEvent)
      /\ sending \subseteq ScanEvent
  BY DEF Inv, TypeOK
<1>1. CASE WindowEnds
  <2>1. PICK t \in Running \cup late :
          /\ late' = IF t \in Running THEN late ELSE late \ {t}
          /\ Callback(t.path, t.ino)
    BY <1>1 DEF WindowEnds
  <2>2. UNCHANGED <<disk, been, sending, Out, scanner, rescan>>
    BY <1>1 DEF WindowEnds, user, background
  <2>3. t.path \in Files /\ t.ino \in Inodes /\ t.path \notin Excluded
    <3>1. CASE t \in late
      BY <1>0, <3>1 DEF TruthInv, HeldTrue
    <3>2. CASE t \in Running
      <4>1. PICK i \in Inodes : pendingRenames[i] # None /\ t = Timer(i)
        BY <3>2 DEF Running
      <4> QED
        BY <1>0, <4>1 DEF Timer, TruthInv, HeldTrue
    <3> QED
      BY <2>1, <3>1, <3>2
  <2>4. PendingTrue'
    BY <2>1, <2>2, <2>3, PushTrue DEF Callback, TruthInv, PendingTrue
  <2>5. HeldTrue'
    <3>1. \A i \in Inodes : pendingRenames'[i] \in {pendingRenames[i], None}
      BY <1>0, <2>1, <2>3 DEF Callback
    <3>2. late' \subseteq late
      BY <2>1
    <3> QED
      BY <2>2, <3>1, <3>2 DEF TruthInv, HeldTrue
  <2>6. ListedTrue'
    BY <2>2 DEF TruthInv, ListedTrue
  <2> QED
    BY <2>2, <2>4, <2>5, <2>6, WatcherKeepsTrue
<1>2. ASSUME NEW p \in Files \cup {Dir}, Emit(p)
      PROVE  TruthInv'
  <2>1. /\ sending' = sending \cup {[path |-> p, event |-> pending[p]]} /\ pending[p] # None
        /\ pending' = [pending EXCEPT ![p] = None]
        /\ UNCHANGED <<disk, been, scanner, pendingRenames, late, rescan, Out>>
    BY <1>2 DEF Emit, user, held, background
  <2>2. Told(been, [path |-> p, event |-> pending[p]])
    BY <2>1 DEF TruthInv, PendingTrue, Told
  <2>3. SentTrue'
    BY <2>1, <2>2 DEF TruthInv, SentTrue
  <2>4. PendingTrue'
    BY <1>0, <2>1 DEF TruthInv, PendingTrue, Credible
  <2> QED
    BY <2>1, <2>3, <2>4 DEF TruthInv, StatsTrue, HeldTrue, ListedTrue
<1>3. ASSUME NEW e \in sending, Send(e)
      PROVE  TruthInv'
  <2>1. /\ \/ UNCHANGED <<sending, Out>>
           \/ sending' = sending \ {e} /\ Out' = Append(Out, e)
        /\ UNCHANGED <<disk, been, scanner, pendingRenames, late, rescan, pending>>
    BY <1>3 DEF Send, user, held, background
  <2>2. Told(been, e)
    BY DEF TruthInv, SentTrue
  <2>3. \A k \in 1..Len(Out') : Out'[k] = e \/ (k \in 1..Len(Out) /\ Out'[k] = Out[k])
    BY <1>0, <2>1
  <2>4. SentTrue'
    BY <2>1, <2>2, <2>3 DEF TruthInv, SentTrue
  <2> QED
    BY <2>1, <2>4 DEF TruthInv, StatsTrue, HeldTrue, ListedTrue, PendingTrue
<1> QED
  BY <1>1, <1>2, <1>3 DEF Timers

(* The jobs visit paths that are not excluded.                             *)
LEMMA BackgroundTrue ==
  ASSUME Inv, TruthInv, Background \/ StartRescan
  PROVE  TruthInv'
<1>0. /\ walk \subseteq Inside \cup {Dir} /\ Inside \cap Excluded = {}
      /\ scanner \in [Files -> Stats] /\ rescan \subseteq Files
  BY FilesAssumption DEF FilesAssumption, Inv, TypeOK
<1>1. CASE AddDir
  <2>1. /\ UNCHANGED <<disk, been, sending, Out, rescan, held, pending>>
        /\ scanner' = [p \in Files |-> IF p \in Inside /\ disk[p] # None THEN disk[p] ELSE scanner[p]]
    BY <1>1 DEF AddDir, channel
  <2>2. \A p \in Files : scanner'[p] \in {scanner[p], disk[p], None}
    BY <2>1
  <2>3. HeldTrue' /\ ListedTrue' /\ PendingTrue'
    BY <2>1, HeldSameTrue DEF TruthInv, ListedTrue, PendingTrue
  <2> QED
    BY <2>1, <2>2, <2>3, WatcherKeepsTrue
<1>2. ASSUME NEW p \in Files, WalkFile(p)
      PROVE  TruthInv'
  <2>1. /\ UNCHANGED <<disk, been, sending, Out, rescan, held>> /\ Push(p, "create")
        /\ Remember(p) \/ UNCHANGED scanner
        /\ p \notin Excluded
    BY <1>0, <1>2 DEF WalkFile, user
  <2>2. HeldTrue' /\ ListedTrue' /\ PendingTrue'
    BY <2>1, HeldSameTrue, PushTrue DEF TruthInv, ListedTrue
  <2> QED
    BY <2>1, <2>2, RememberTrue, WatcherKeepsTrue
<1>3. CASE StartRescan
  <2>1. /\ UNCHANGED <<disk, been, sending, Out, scanner, held, pending>>
        /\ rescan' = On(disk) \ Excluded
    BY <1>3 DEF StartRescan, channel
  <2>2. HeldTrue' /\ ListedTrue' /\ PendingTrue'
    BY <2>1, HeldSameTrue DEF TruthInv, ListedTrue, PendingTrue
  <2> QED
    BY <2>1, <2>2, WatcherKeepsTrue
<1>4. ASSUME NEW p \in Files, RescanFile(p)
      PROVE  TruthInv'
  <2>1. /\ UNCHANGED <<disk, been, sending, Out, held>> /\ rescan' = rescan \ {p} /\ p \notin Excluded
        /\ \/ PushIfChanged(p) /\ Remember(p)
           \/ UNCHANGED <<pending, scanner>>
    BY <1>4 DEF RescanFile, user, TruthInv, ListedTrue
  <2>2. HeldTrue' /\ ListedTrue' /\ PendingTrue'
    BY <2>1, HeldSameTrue, PushIfChangedTrue DEF TruthInv, ListedTrue, PendingTrue
  <2> QED
    BY <2>1, <2>2, RememberTrue, WatcherKeepsTrue
<1> QED
  BY <1>1, <1>2, <1>3, <1>4 DEF Background

(* A cycle takes what was sent; one that moves a file moves it as a user   *)
(* does.                                                                   *)
LEMMA CycleTrue ==
  ASSUME Inv, TruthInv, Cycle \/ \E p, q \in Files : RemoteRenameCycle(p, q)
  PROVE  TruthInv'
<1>1. CASE Cycle
  <2>1. /\ Out' = << >>
        /\ UNCHANGED <<disk, been, scanner, pendingRenames, late, rescan, pending, sending>>
    BY <1>1 DEF Cycle, user, held, background
  <2>2. SentTrue'
    BY <2>1 DEF TruthInv, SentTrue
  <2> QED
    BY <2>1, <2>2 DEF TruthInv, StatsTrue, HeldTrue, ListedTrue, PendingTrue
<1>2. ASSUME NEW p \in Files, NEW q \in Files, RemoteRenameCycle(p, q)
      PROVE  TruthInv'
  <2>1. /\ disk[p] # None /\ p # q /\ disk' = Moved(p, q) /\ been' = BeenMoved(p, q)
        /\ UNCHANGED <<scanner, held, rescan, channel>>
    BY <1>2 DEF RemoteRenameCycle, background
  <2> QED
    BY <2>1, MoveTrue, DiskChanges
<1> QED
  BY <1>1, <1>2

(* At the end the removals that are held are reported, and what is pending *)
(* is sent.                                                                *)
LEMMA ShutdownTrue ==
  ASSUME Inv, TruthInv, Shutdown
  PROVE  TruthInv'
<1>0. /\ pending \in [Files \cup {Dir} -> Event \cup {None}] /\ Out \in Seq(ScanEvent)
      /\ None \notin Excluded
  BY NoneApart DEF Inv, TypeOK
<1>1. CASE Stop \/ CloseOut
  BY <1>1 DEF Stop, CloseOut, user, held, background, channel, TruthInv, StatsTrue, HeldTrue,
              ListedTrue, PendingTrue, SentTrue
<1>2. CASE CloseAggregator
  <2>1. /\ UNCHANGED <<disk, been, scanner, late, rescan, sending, Out>>
        /\ pendingRenames' = [i \in Inodes |-> None]
        /\ pending' = [p \in DOMAIN pending |->
                         IF \E i \in Inodes : pendingRenames[i] = p
                         THEN [type |-> "remove", old |-> None] ELSE pending[p]]
    BY <1>2 DEF CloseAggregator, user, background
  <2>2. ASSUME NEW p \in Files \cup {Dir}
        PROVE  Credible(been, p, pending'[p])
    <3>1. CASE \E i \in Inodes : pendingRenames[i] = p
      <4>1. pending'[p] = [type |-> "remove", old |-> None]
        BY <1>0, <2>1, <3>1
      <4>2. p \notin Excluded
        BY <3>1, NoneApart DEF TruthInv, HeldTrue
      <4> QED
        BY <1>0, <4>1, <4>2 DEF Credible
    <3>2. CASE ~ \E i \in Inodes : pendingRenames[i] = p
      <4>1. pending'[p] = pending[p]
        BY <1>0, <2>1, <3>2
      <4> QED
        BY <4>1 DEF TruthInv, PendingTrue
    <3> QED
      BY <3>1, <3>2
  <2>3. PendingTrue' /\ HeldTrue'
    BY <2>1, <2>2 DEF PendingTrue, TruthInv, HeldTrue
  <2> QED
    BY <2>1, <2>3 DEF TruthInv, StatsTrue, ListedTrue, SentTrue
<1>3. ASSUME NEW p \in Files \cup {Dir}, Flush(p)
      PROVE  TruthInv'
  <2>1. /\ pending' = [pending EXCEPT ![p] = None]
        /\ Out' = Append(Out, [path |-> p, event |-> pending[p]])
        /\ UNCHANGED <<disk, been, scanner, pendingRenames, late, rescan, sending>>
    BY <1>3 DEF Flush, user, held, background
  <2>2. PICK e : e = [path |-> p, event |-> pending[p]]
    OBVIOUS
  <2>3. Told(been, e)
    BY <1>3, <2>2 DEF Flush, TruthInv, PendingTrue, Told
  <2>4. [path |-> p, event |-> pending[p]] \in ScanEvent
    BY <1>0, <1>3 DEF Flush, ScanEvent
  <2>5. \A k \in 1..Len(Out') : Out'[k] = e \/ (k \in 1..Len(Out) /\ Out'[k] = Out[k])
    BY <1>0, <2>1, <2>2, <2>4
  <2>6. SentTrue'
    BY <2>1, <2>3, <2>5 DEF TruthInv, SentTrue
  <2>7. PendingTrue'
    BY <1>0, <2>1 DEF TruthInv, PendingTrue, Credible
  <2> QED
    BY <2>1, <2>6, <2>7 DEF TruthInv, StatsTrue, HeldTrue, ListedTrue
<1> QED
  BY <1>1, <1>2, <1>3 DEF Shutdown

(* At the start nothing is held or reported, and files are where they are. *)
LEMMA TruthInit == Init => TruthInv
<1> SUFFICES ASSUME Init PROVE TruthInv
  OBVIOUS
<1>1. disk \in [Files -> Stats]
  BY WatcherInit DEF Inv, TypeOK
<1>2. \A p \in Files : disk[p] # None => disk[p].ino \in Inodes
  BY <1>1 DEF Stats, Stat
<1>3. been = [i \in Inodes |-> {p \in On(disk) : disk[p].ino = i}]
  BY DEF Init
<1>4. \A p \in Files : Seen(been, p, disk[p])
  BY <1>2, <1>3 DEF Seen, On
<1>5. StatsTrue
  BY <1>4 DEF Init, StatsTrue, Seen
<1>6. HeldTrue /\ ListedTrue /\ PendingTrue /\ SentTrue
  BY DEF Init, HeldTrue, ListedTrue, PendingTrue, SentTrue, Credible
<1> QED
  BY <1>5, <1>6 DEF TruthInv

(* An event that is credible breaks neither promise.                       *)
LEMMA CredibleReports == Inv /\ TruthInv => ReportsTrue
<1> SUFFICES ASSUME Inv, TruthInv, NEW e \in Reported
             PROVE  /\ e.event.type = "rename" => \E i \in Inodes : {e.path, e.event.old} \subseteq been[i]
                    /\ {e.path, e.event.old} \cap Excluded = {}
  BY DEF ReportsTrue, RenamesAreTrue, ExcludedUnseen
<1>0. /\ pending \in [Files \cup {Dir} -> Event \cup {None}]
      /\ sending \subseteq ScanEvent /\ Out \in Seq(ScanEvent)
  BY DEF Inv, TypeOK
<1>1. Told(been, e)
  <2>1. CASE e \in sending \/ \E k \in 1..Len(Out) : e = Out[k]
    BY <2>1 DEF TruthInv, SentTrue
  <2>2. ASSUME NEW p \in Files \cup {Dir}, pending[p] # None, e = [path |-> p, event |-> pending[p]]
        PROVE  Told(been, e)
    BY <2>2 DEF TruthInv, PendingTrue, Told
  <2>3. \/ e \in sending \/ \E k \in 1..Len(Out) : e = Out[k]
        \/ \E p \in Files \cup {Dir} : pending[p] # None /\ e = [path |-> p, event |-> pending[p]]
    BY <1>0 DEF Reported
  <2> QED
    BY <2>1, <2>2, <2>3
<1> QED
  BY <1>1 DEF Credible, Told

(* What is reported may be believed, for any files and inodes and whatever *)
(* happens, callbacks of stopped timers included: a rename is one, and     *)
(* nothing excluded is reported, as its source neither (handle, deferred   *)
(* deletions, fullRescan and the jobs of new directories).                 *)
THEOREM ReportsTheorem == Spec => []ReportsTrue
<1>1. Inv /\ TruthInv /\ [Next]_vars => TruthInv'
  <2>1. Inv /\ TruthInv /\ UNCHANGED vars => TruthInv'
    BY DEF vars, user, held, background, channel, TruthInv, StatsTrue, HeldTrue, ListedTrue,
           PendingTrue, SentTrue
  <2> QED
    BY <2>1, UserTrue, HandleTrue, TimersTrue, BackgroundTrue, CycleTrue, ShutdownTrue DEF Next
<1> QED
  BY <1>1, TruthInit, WatcherInvariant, CredibleReports, PTL DEF Spec

=============================================================================
