-------------------------- MODULE ContinuousProofs --------------------------
(***************************************************************************)
(* Theorems about Continuous, for any paths, calls, faults and bounds.     *)
(*                                                                         *)
(* That cycles do not overlap rests on cs.syncInProgress being set exactly *)
(* while a call runs (Claimed); that a change is forgotten only by a lapse *)
(* rests on where a change waits until it is saved (NewsInv).              *)
(***************************************************************************)
EXTENDS Continuous, FiniteSetTheorems, TLAPS

(* A finite set has a cardinality, so the notifications of a cycle's       *)
(* uploads are a sequence.                                                 *)
LEMMA NotesAreNotifications ==
  ASSUME NEW paths \in SUBSET Paths, NEW version \in Nat, NEW notes \in Notes(paths, version)
  PROVE  notes \in Seq(Notifications)
<1>1. IsFiniteSet(paths)
  BY PathsAssumption, FS_Subset DEF PathsAssumption
<1>2. Cardinality(paths) \in Nat
  BY <1>1, FS_CardinalityType
<1>3. [path : paths, version : {version}] \subseteq Notifications
  BY DEF Notifications
<1>4. notes \in [1 .. Cardinality(paths) -> [path : paths, version : {version}]]
  BY DEF Notes
<1> QED
  BY <1>2, <1>3, <1>4

(* What a connection is sent keeps the unread notifications well typed.    *)
LEMMA NotifyTyped ==
  ASSUME stream \in Seq(Notifications), NEW notes \in Seq(Notifications), Notify(notes)
  PROVE  stream' \in Seq(Notifications)
  BY DEF Notify

(* What Init and Stop set is well typed.                                   *)
LEMMA NothingTyped ==
  /\ NoVersions \in Versions
  /\ <<>> \in Seq(Notifications)
  /\ [c \in Calls |-> "none"] \in [Calls -> Running \cup {"none", "skipping"}]
<1>1. NoVersions \in Versions
  BY DEF NoVersions, Versions
<1>2. [c \in Calls |-> "none"] \in [Calls -> Running \cup {"none", "skipping"}]
  OBVIOUS
<1> QED
  BY <1>1, <1>2

(* The initial state is well typed.                                        *)
LEMMA InitTyped == Init => TypeOK
<1> SUFFICES ASSUME Init PROVE TypeOK
  OBVIOUS
<1>1. latest \in Versions /\ csRemote \in Versions /\ dbRemote \in Versions
  BY NothingTyped DEF Init
<1>2. snapshot \in Versions /\ updated \in Versions
  BY NothingTyped DEF Init
<1>3. stream \in Seq(Notifications)
  BY NothingTyped DEF Init
<1>4. call \in [Calls -> Running \cup {"none", "skipping"}]
  BY NothingTyped DEF Init
<1> QED
  BY <1>1, <1>2, <1>3, <1>4 DEF Init, TypeOK, Mains

(* A listing gives every path a version.                                   *)
LEMMA ListedTyped ==
  ASSUME TypeOK, NEW version \in Nat
  PROVE  Listed(version) \in Versions
  BY DEF TypeOK, Listed, Versions

(* The environment keeps the state well typed.                             *)
LEMMA EnvironmentTyped == TypeOK /\ Environment => TypeOK'
<1> SUFFICES ASSUME TypeOK, Environment PROVE TypeOK'
  OBVIOUS
<1> USE DEF TypeOK, Versions, Mains, server, loop, flags, cs, work, db, history, Change, Loss
<1>1. ASSUME NEW p \in Paths, DevicePush(p) PROVE TypeOK'
  <2> DEFINE note == <<[path |-> p, version |-> seq']>>
  <2>1. seq' \in Nat /\ note \in Seq(Notifications) /\ Notify(note)
    BY <1>1 DEF DevicePush, Notifications
  <2>2. stream' \in Seq(Notifications)
    BY <2>1, NotifyTyped
  <2> QED
    BY <1>1, <2>1, <2>2 DEF DevicePush
<1>2. ASSUME NEW p \in Paths, UserEdit(p) PROVE TypeOK'
  BY <1>2 DEF UserEdit
<1>3. CASE LoseConnection
  BY <1>3 DEF LoseConnection
<1>4. CASE GoSilent
  BY <1>4 DEF GoSilent
<1>5. CASE ConnectFails
  BY <1>5 DEF ConnectFails
<1>6. CASE Stop
  <2>1. changes' \in Nat /\ losses' \in Nat
    BY <1>6 DEF Stop
  <2>2. stream' \in Seq(Notifications) /\ csRemote' \in [Paths -> Nat]
    BY <1>6, NothingTyped DEF Stop
  <2>3. call' \in [Calls -> Running \cup {"none", "skipping"}]
    BY <1>6, NothingTyped DEF Stop
  <2> QED
    BY <1>6, <2>1, <2>2, <2>3 DEF Stop
<1>7. ASSUME NEW c \in Calls, CycleFails(c) PROVE TypeOK'
  BY <1>7 DEF CycleFails, Goto, Running, InCycle
<1> QED
  BY <1>1, <1>2, <1>3, <1>4, <1>5, <1>6, <1>7 DEF Environment

(* So do the read pump, the heartbeat and the main loop ...                *)
LEMMA LoopTyped == TypeOK /\ (PumpRead \/ Heartbeat \/ Loop) => TypeOK'
<1> SUFFICES ASSUME TypeOK, PumpRead \/ Heartbeat \/ Loop PROVE TypeOK'
  OBVIOUS
<1>l. ASSUME NEW version \in Nat PROVE Listed(version) \in Versions
  BY ListedTyped
<1> USE DEF TypeOK, Mains, server, loop, flags, cs, work, db, history, bounds
<1>1. CASE PumpRead
  <2>1. Head(stream) \in Notifications /\ Tail(stream) \in Seq(Notifications)
    BY <1>1 DEF PumpRead
  <2>2. csRemote' \in Versions
    BY <1>1, <2>1 DEF PumpRead, Notifications, Versions
  <2> QED
    BY <1>1, <2>1, <2>2 DEF PumpRead
<1>2. CASE Heartbeat
  BY <1>2 DEF Heartbeat
<1>3. CASE OnTrigger
  BY <1>3 DEF OnTrigger
<1>4. CASE OnEvent
  BY <1>4 DEF OnEvent
<1>5. CASE OnPumpDone
  BY <1>5 DEF OnPumpDone, NoVersions, Versions
<1>6. CASE Connect
  BY <1>6 DEF Connect, NoVersions, Versions
<1>7. CASE Connected
  BY <1>7, <1>l DEF Connected, Unlisted
<1>8. CASE Start
  BY <1>8, <1>l DEF Start, Unlisted
<1> QED
  BY <1>1, <1>2, <1>3, <1>4, <1>5, <1>6, <1>7, <1>8 DEF Loop

(* ... and the calls of doSync.                                            *)
LEMMA CallsTyped == \A c \in Calls : TypeOK /\ (Fire(c) \/ Step(c)) => TypeOK'
<1> SUFFICES ASSUME NEW c \in Calls, TypeOK, Fire(c) \/ Step(c) PROVE TypeOK'
  OBVIOUS
<1> USE DEF TypeOK, server, loop, flags, cs, work, db, history, bounds
<1>g. ASSUME NEW step \in Running \cup {"none", "skipping"}, Goto(c, step)
      PROVE  call' \in [Calls -> Running \cup {"none", "skipping"}]
  BY <1>g DEF Goto
<1>1. CASE Fire(c)
  BY <1>1, <1>g DEF Fire, Running
<1>2. CASE Skip(c)
  BY <1>2, <1>g DEF Skip
<1>3. CASE LockBusy(c)
  BY <1>3, <1>g DEF LockBusy, Running
<1>4. CASE Take(c)
  BY <1>4, <1>g DEF Take, Running, InCycle
<1>4a. CASE Lock(c)
  BY <1>4a, <1>g DEF Lock, Running, InCycle
<1>5. CASE Dial(c)
  BY <1>5, <1>g DEF Dial, Running, InCycle
<1>6. CASE Cycle(c)
  <2>0. PICK uploads \in SUBSET dirty :
          /\ seq' = IF uploads = {} THEN seq ELSE seq + 1
          /\ latest' = [p \in Paths |-> IF p \in uploads THEN seq' ELSE latest[p]]
          /\ \E notes \in Notes(uploads, seq') : Notify(notes)
          /\ updated' = [p \in Paths |-> IF p \in uploads THEN seq' ELSE CurrentRemote[p]]
    BY <1>6 DEF Cycle
  <2>1. seq' \in Nat /\ uploads \subseteq Paths
    BY <2>0
  <2>2. CurrentRemote \in Versions
    BY DEF CurrentRemote, Versions
  <2>3. latest' \in Versions /\ updated' \in Versions
    BY <2>0, <2>1, <2>2 DEF Versions
  <2>4. stream' \in Seq(Notifications)
    <3>1. PICK notes \in Notes(uploads, seq') : Notify(notes)
      BY <2>0
    <3>2. notes \in Seq(Notifications)
      BY <2>1, NotesAreNotifications
    <3> QED
      BY <3>1, <3>2, NotifyTyped
  <2>5. call' \in [Calls -> Running \cup {"none", "skipping"}]
    BY <1>6, <1>g DEF Cycle, Running, InCycle
  <2> QED
    BY <1>6, <2>1, <2>3, <2>4, <2>5 DEF Cycle
<1>7. CASE Publish(c)
  <2>1. csRemote' \in Versions
    BY <1>7 DEF Publish, Versions
  <2> QED
    BY <1>7, <2>1, <1>g DEF Publish, Running
<1>8. CASE Unlock(c)
  BY <1>8, <1>g DEF Unlock, Running
<1>9. CASE Retrigger(c)
  BY <1>9, <1>g DEF Retrigger, Running
<1>10. CASE Clear(c)
  BY <1>10, <1>g DEF Clear
<1> QED
  BY <1>1, <1>2, <1>3, <1>4, <1>4a, <1>5, <1>6, <1>7, <1>8, <1>9, <1>10 DEF Step

(* Every reachable state of continuous mode is well typed.                 *)
THEOREM TypeCorrect == Spec => []TypeOK
<1>1. TypeOK /\ UNCHANGED vars => TypeOK'
  BY DEF TypeOK, vars
<1>2. TypeOK /\ [Next]_vars => TypeOK'
  BY <1>1, EnvironmentTyped, LoopTyped, CallsTyped DEF Next
<1> QED
  BY InitTyped, <1>2, PTL DEF Spec

-----------------------------------------------------------------------------
(* A call that runs has claimed syncInProgress, and no other has.          *)
Claimed == \A c \in Calls : call[c] \in Running => inProgress

Exclusive == TypeOK /\ Claimed /\ OneCycleAtATime

(* Apart from Fire, Clear and Stop, a step leaves the flag alone and does  *)
(* not make a call run that did not.                                       *)
LEMMA FlagAlone ==
  ASSUME Exclusive, [Next]_vars,
         \A c \in Calls : ~Fire(c) /\ ~Clear(c),
         ~Stop
  PROVE  inProgress' = inProgress /\ \A c \in Calls : call'[c] \in Running => call[c] \in Running
<1> USE DEF Exclusive, TypeOK, loop, flags
<1>e. ASSUME NEW p \in Paths, DevicePush(p) \/ UserEdit(p) PROVE UNCHANGED <<inProgress, call>>
  BY <1>e DEF DevicePush, UserEdit
<1>o. CASE LoseConnection \/ GoSilent \/ ConnectFails \/ PumpRead \/ Heartbeat \/ Loop
  BY <1>o DEF LoseConnection, GoSilent, ConnectFails, PumpRead, Heartbeat, Loop, OnTrigger,
     OnEvent, OnPumpDone, Connect, Connected, Start
<1>s. ASSUME NEW c \in Calls, Skip(c)
      PROVE  inProgress' = inProgress /\ \A d \in Calls : call'[d] \in Running => call[d] \in Running
  BY <1>s DEF Skip, Goto, Running, InCycle
<1>c. ASSUME NEW c \in Calls,
             CycleFails(c) \/ LockBusy(c) \/ Lock(c) \/ Take(c) \/ Dial(c) \/ Cycle(c) \/ Publish(c)
               \/ Unlock(c) \/ Retrigger(c)
      PROVE  inProgress' = inProgress /\ \A d \in Calls : call'[d] \in Running => call[d] \in Running
  <2>1. call[c] \in Running /\ inProgress' = inProgress /\ \E step : Goto(c, step)
    BY <1>c DEF CycleFails, LockBusy, Lock, Take, Dial, Cycle, Publish, Unlock, Retrigger,
       Running, InCycle
  <2> QED
    BY <2>1 DEF Goto
<1>u. CASE UNCHANGED vars
  BY <1>u DEF vars
<1> QED
  BY <1>e, <1>o, <1>s, <1>c, <1>u DEF Next, Environment, Step

(* A step keeps the claim, and lets no second call run.                    *)
LEMMA ExclusiveKept == Exclusive /\ [Next]_vars => Claimed' /\ OneCycleAtATime'
<1> SUFFICES ASSUME Exclusive, [Next]_vars PROVE Claimed' /\ OneCycleAtATime'
  OBVIOUS
<1> USE DEF Exclusive, TypeOK, Claimed, OneCycleAtATime
<1>1. ASSUME NEW c \in Calls, Fire(c) PROVE Claimed' /\ OneCycleAtATime'
  <2>1. inProgress' = TRUE /\ \A d \in Calls \ {c} : call'[d] = call[d]
    BY <1>1 DEF Fire, Goto
  <2>2. CASE inProgress
    <3>1. call'[c] = "skipping"
      BY <1>1, <2>2 DEF Fire, Goto
    <3> QED
      BY <2>1, <3>1 DEF Running, InCycle
  <2>3. CASE ~inProgress
    <3>1. \A d \in Calls : call[d] \notin Running
      BY <2>3
    <3> QED
      BY <2>1, <3>1
  <2> QED
    BY <2>2, <2>3
<1>2. ASSUME NEW c \in Calls, Clear(c) PROVE Claimed' /\ OneCycleAtATime'
  <2>1. call[c] \in Running
    BY <1>2 DEF Clear, Running
  <2>2. \A d \in Calls \ {c} : call[d] \notin Running
    BY <2>1
  <2>3. call' = [call EXCEPT ![c] = "none"]
    BY <1>2 DEF Clear, Goto
  <2>4. \A d \in Calls : call'[d] \notin Running
    BY <2>2, <2>3 DEF Running, InCycle
  <2> QED
    BY <2>4
<1>3. CASE Stop
  <2>1. \A d \in Calls : call'[d] \notin Running
    BY <1>3 DEF Stop, Running, InCycle
  <2> QED
    BY <2>1
<1>4. CASE (\A c \in Calls : ~Fire(c) /\ ~Clear(c)) /\ ~Stop
  BY <1>4, FlagAlone
<1> QED
  BY <1>1, <1>2, <1>3, <1>4

(* Calls of doSync never run cycles side by side, whatever happens and     *)
(* however many of them the timer starts.                                  *)
THEOREM CyclesTheorem == Spec => []OneCycleAtATime
<1>1. Init => Claimed /\ OneCycleAtATime
  BY DEF Init, Claimed, OneCycleAtATime, Running, InCycle
<1>2. TypeOK /\ Claimed /\ OneCycleAtATime /\ [Next]_vars => Claimed' /\ OneCycleAtATime'
  BY ExclusiveKept DEF Exclusive
<1>3. Spec => [](Claimed /\ OneCycleAtATime)
  BY <1>1, <1>2, TypeCorrect, PTL DEF Spec
<1> QED
  BY <1>3, PTL
-----------------------------------------------------------------------------
(* No change is forgotten but by a lapse.  A change that the database does *)
(* not have yet is somewhere on its way: in a notification that is not     *)
(* read, or in cs.remote with something that will make a cycle run, or in  *)
(* the copy of it that a call is going to use.                             *)

(* Notification k of s is the last one of path p.                          *)
LastFor(s, k, p) == s[k].path = p /\ \A m \in k + 1 .. Len(s) : s[m].path # p
In(s, p) == \E k \in 1 .. Len(s) : s[k].path = p

(* Whoever reads all of s knows version new of p, having known known.      *)
Tells(s, known, new, p) ==
  /\ ~In(s, p) => known = new
  /\ \A k \in 1 .. Len(s) : LastFor(s, k, p) => s[k].version = new

(* Whoever reads on knows the newest version of a path, unless its news    *)
(* was lost: cs.remote has it, or what the database has or will have.      *)
View(p) == IF csRemote[p] # 0 THEN csRemote[p] ELSE Saved[p]
Known(p) == IF p \in missed THEN latest[p] ELSE View(p)
Told ==
  /\ main = "up" => \A p \in Paths : Tells(stream, Known(p), latest[p], p)
  /\ main # "up" => stream = <<>>

(* Nobody knows a version that is not made yet.                            *)
Bounded ==
  /\ \A p \in Paths :
       /\ latest[p] <= seq
       /\ csRemote[p] <= latest[p] /\ dbRemote[p] <= latest[p]
       /\ snapshot[p] <= latest[p] /\ updated[p] <= latest[p]
  /\ \A k \in 1 .. Len(stream) : stream[k].version <= latest[stream[k].path]

(* What a cycle will publish is what it has saved.                         *)
SavedUpdated == (\E c \in Calls : call[c] = "cycled") => updated = dbRemote

(* Another call of doSync is coming, or one has yet to look or to save.    *)
Coming == trigger \/ event \/ timer \/ pending \/ \E c \in Calls : call[c] = "skipping"
ToRun == \E c \in Calls : call[c] \in {"begun", "locked", "taken", "dialled"}

(* What has entered cs.remote since a cycle took its copy has another one  *)
(* coming.                                                                 *)
InHand ==
  main = "up" /\ CycleToSave =>
    \A p \in Paths : csRemote[p] \notin {0, snapshot[p]} => Coming

(* What is known and not saved is going to be, unless a cycle failed.      *)
Remembered ==
  ~failed =>
    /\ main = "up" => \A p \in Paths : csRemote[p] \notin {0, dbRemote[p]} =>
         Coming \/ ToRun \/ (snapshot[p] # 0 /\ \E c \in Calls : call[c] = "cycled")
    /\ main # "stopped" /\ dirty # {} => Coming \/ ToRun

NewsInv == Told /\ Bounded /\ SavedUpdated /\ InHand /\ Remembered

(* Reading a notification.                                                 *)
LEMMA TellsTail ==
  ASSUME NEW s \in Seq(Notifications), s # <<>>, NEW p, NEW known, NEW new,
         Tells(s, known, new, p)
  PROVE  /\ Tells(Tail(s), IF Head(s).path = p THEN Head(s).version ELSE known, new, p)
         /\ In(s, p) <=> Head(s).path = p \/ In(Tail(s), p)
<1>1. /\ Len(Tail(s)) = Len(s) - 1 /\ Len(s) \in Nat /\ Len(s) >= 1
      /\ \A k \in 1 .. Len(Tail(s)) : Tail(s)[k] = s[k + 1]
      /\ Head(s) = s[1]
  OBVIOUS
<1>2. \A k \in 1 .. Len(Tail(s)) : k + 1 \in 1 .. Len(s)
  BY <1>1
<1>3. \A k \in 1 .. Len(s) : k = 1 \/ (k - 1 \in 1 .. Len(Tail(s)) /\ Tail(s)[k - 1] = s[k])
  BY <1>1
<1>4. In(s, p) <=> Head(s).path = p \/ In(Tail(s), p)
  BY <1>1, <1>2, <1>3 DEF In
<1>5. ASSUME NEW k \in 1 .. Len(Tail(s)), LastFor(Tail(s), k, p)
      PROVE  Tail(s)[k].version = new
  <2>1. \A m \in k + 1 + 1 .. Len(s) : m - 1 \in k + 1 .. Len(Tail(s)) /\ Tail(s)[m - 1] = s[m]
    BY <1>1
  <2>2. LastFor(s, k + 1, p)
    BY <1>1, <1>5, <2>1 DEF LastFor
  <2> QED
    BY <1>1, <1>2, <2>2 DEF Tells
<1>6. ASSUME ~In(Tail(s), p)
      PROVE  (IF Head(s).path = p THEN Head(s).version ELSE known) = new
  <2>1. CASE Head(s).path = p
    <3>1. \A m \in 1 + 1 .. Len(s) : m - 1 \in 1 .. Len(Tail(s)) /\ Tail(s)[m - 1] = s[m]
      BY <1>1
    <3>2. LastFor(s, 1, p)
      BY <1>1, <1>6, <2>1, <3>1 DEF LastFor, In
    <3> QED
      BY <1>1, <2>1, <3>2 DEF Tells
  <2>2. CASE Head(s).path # p
    BY <1>4, <1>6, <2>2 DEF Tells
  <2> QED
    BY <2>1, <2>2
<1> QED
  BY <1>4, <1>5, <1>6 DEF Tells

(* More notifications, all of the same version: they tell of the paths     *)
(* they name, and say nothing of the others.                               *)
LEMMA TellsMore ==
  ASSUME NEW s \in Seq(Notifications), NEW notes \in Seq(Notifications), NEW p, NEW known, NEW new,
         NEW n, \A k \in 1 .. Len(notes) : notes[k].version = n
  PROVE  /\ In(s \o notes, p) <=> In(s, p) \/ In(notes, p)
         /\ In(notes, p) => Tells(s \o notes, known, n, p)
         /\ ~In(notes, p) /\ Tells(s, known, new, p) => Tells(s \o notes, known, new, p)
<1> DEFINE t == s \o notes
<1>1. /\ Len(t) = Len(s) + Len(notes) /\ Len(s) \in Nat /\ Len(notes) \in Nat
      /\ \A k \in 1 .. Len(s) : k \in 1 .. Len(t) /\ t[k] = s[k]
      /\ \A k \in 1 .. Len(notes) : Len(s) + k \in 1 .. Len(t) /\ t[Len(s) + k] = notes[k]
      /\ \A k \in 1 .. Len(t) : \/ k \in 1 .. Len(s)
                                \/ k - Len(s) \in 1 .. Len(notes) /\ t[k] = notes[k - Len(s)]
  OBVIOUS
<1> HIDE DEF t
<1>2. In(t, p) <=> In(s, p) \/ In(notes, p)
  <2>1. In(t, p) => In(s, p) \/ In(notes, p)
    BY <1>1 DEF In
  <2>2. In(s, p) => In(t, p)
    BY <1>1 DEF In
  <2>3. In(notes, p) => In(t, p)
    BY <1>1 DEF In
  <2> QED
    BY <2>1, <2>2, <2>3
<1>3. ASSUME In(notes, p)
      PROVE  Tells(t, known, n, p)
  <2>1. PICK j \in 1 .. Len(notes) : notes[j].path = p
    BY <1>3 DEF In
  <2>2. ASSUME NEW k \in 1 .. Len(t), LastFor(t, k, p)
        PROVE  t[k].version = n
    <3>1. CASE k \in 1 .. Len(s)
      <4>1. Len(s) + j \in k + 1 .. Len(t) /\ t[Len(s) + j].path = p
        BY <1>1, <2>1, <3>1
      <4> QED
        BY <2>2, <4>1 DEF LastFor
    <3>2. CASE k \notin 1 .. Len(s)
      BY <1>1, <3>2
    <3> QED
      BY <3>1, <3>2
  <2> QED
    BY <1>2, <1>3, <2>2 DEF Tells
<1>4. ASSUME ~In(notes, p), Tells(s, known, new, p)
      PROVE  Tells(t, known, new, p)
  <2>1. ASSUME NEW k \in 1 .. Len(t), LastFor(t, k, p)
        PROVE  t[k].version = new
    <3>1. k \in 1 .. Len(s) /\ t[k] = s[k]
      BY <1>1, <1>4, <2>1 DEF In, LastFor
    <3>2. \A m \in k + 1 .. Len(s) : m \in k + 1 .. Len(t) /\ t[m] = s[m]
      BY <1>1, <3>1
    <3>3. LastFor(s, k, p)
      BY <2>1, <3>1, <3>2 DEF LastFor
    <3> QED
      BY <1>4, <3>1, <3>3 DEF Tells
  <2> QED
    BY <1>2, <1>4, <2>1 DEF Tells
<1> QED
  BY <1>2, <1>3, <1>4 DEF t

(* The notifications of a cycle are of the paths it uploaded.              *)
LEMMA NotesTell ==
  ASSUME NEW A \in SUBSET Paths, NEW n \in Nat, NEW notes \in Notes(A, n)
  PROVE  /\ notes \in Seq(Notifications)
         /\ \A k \in 1 .. Len(notes) : notes[k].version = n
         /\ \A p \in Paths : In(notes, p) <=> p \in A
<1>1. notes \in Seq(Notifications)
  BY NotesAreNotifications
<1>2. /\ notes \in [1 .. Cardinality(A) -> [path : A, version : {n}]]
      /\ {notes[i].path : i \in DOMAIN notes} = A
  BY DEF Notes
<1>3. DOMAIN notes = 1 .. Len(notes)
  BY <1>1
<1>4. \A k \in 1 .. Len(notes) : notes[k].version = n
  BY <1>2, <1>3
<1>5. \A p \in Paths : In(notes, p) <=> p \in A
  BY <1>2, <1>3 DEF In
<1> QED
  BY <1>1, <1>4, <1>5

(* A change on the server, by a device or by an upload: who is connected   *)
(* is told, and who reads all of it knows.                                 *)
LEMMA Announced ==
  ASSUME Exclusive, NewsInv, NEW A \in SUBSET Paths, NEW n \in Nat, seq' = n, seq <= n,
         NEW notes \in Seq(Notifications), Notify(notes),
         \A k \in 1 .. Len(notes) : notes[k].version = n,
         \A p \in Paths : In(notes, p) <=> p \in A,
         latest' = [p \in Paths |-> IF p \in A THEN n ELSE latest[p]],
         UNCHANGED <<main, csRemote, missed>>,
         \A p \in Paths \ A : Saved'[p] = Saved[p]
  PROVE  /\ Told'
         /\ \A p \in Paths : latest[p] <= latest'[p] /\ latest'[p] <= n
         /\ \A k \in 1 .. Len(stream') : stream'[k].version <= latest'[stream'[k].path]
<1>0. /\ stream \in Seq(Notifications) /\ latest \in Versions
      /\ \A k \in 1 .. Len(stream) : stream[k] \in Notifications
      /\ \A k \in 1 .. Len(notes) : notes[k] \in Notifications
  BY DEF Exclusive, TypeOK
<1>1. \A p \in Paths : latest[p] <= latest'[p] /\ latest'[p] <= n /\ latest'[p] \in Nat
  BY <1>0 DEF NewsInv, Bounded, Versions, Exclusive, TypeOK
<1>2. \A k \in 1 .. Len(stream) : stream[k].version <= latest'[stream[k].path]
  BY <1>0, <1>1 DEF NewsInv, Bounded, Notifications, Versions
<1>3. \A k \in 1 .. Len(notes) : notes[k].version <= latest'[notes[k].path]
  <2> SUFFICES ASSUME NEW k \in 1 .. Len(notes)
               PROVE  notes[k].version <= latest'[notes[k].path]
    OBVIOUS
  <2>1. notes[k].path \in Paths /\ In(notes, notes[k].path)
    BY <1>0 DEF In, Notifications
  <2> QED
    BY <1>0, <2>1
<1>4. CASE main = "up"
  <2>1. stream' = stream \o notes
    BY <1>4 DEF Notify
  <2>2. ASSUME NEW p \in Paths PROVE Tells(stream', Known(p)', latest'[p], p)
    <3>1. CASE p \in A
      BY <1>0, <2>1, <3>1, TellsMore
    <3>2. CASE p \notin A
      <4>1. Known(p)' = Known(p) /\ latest'[p] = latest[p]
        BY <3>2 DEF Known, View
      <4>2. Tells(stream, Known(p), latest[p], p) /\ ~In(notes, p)
        BY <1>4, <3>2 DEF NewsInv, Told
      <4>3. Tells(stream \o notes, Known(p), latest[p], p)
        BY <1>0, <4>2, TellsMore
      <4> QED
        BY <2>1, <4>1, <4>3
    <3> QED
      BY <3>1, <3>2
  <2>3. Told'
    BY <1>4, <2>2 DEF Told
  <2>4. \A k \in 1 .. Len(stream') : \/ k \in 1 .. Len(stream) /\ stream'[k] = stream[k]
                                     \/ /\ k - Len(stream) \in 1 .. Len(notes)
                                        /\ stream'[k] = notes[k - Len(stream)]
    BY <1>0, <2>1
  <2> QED
    BY <1>1, <1>2, <1>3, <2>3, <2>4
<1>5. CASE main # "up"
  <2>1. stream' = stream
    BY <1>5 DEF Notify
  <2> QED
    BY <1>1, <1>2, <1>5, <2>1 DEF NewsInv, Told
<1> QED
  BY <1>4, <1>5

(* What is saved or will be does not depend on anything but the copies and *)
(* on whether a call has its copy and has not saved.                       *)
LEMMA SavedSame ==
  ASSUME CycleToSave' = CycleToSave, UNCHANGED <<snapshot, dbRemote>>
  PROVE  Saved' = Saved
<1>1. CurrentRemote' = CurrentRemote
  BY DEF CurrentRemote
<1> QED
  BY <1>1 DEF Saved

(* A step that leaves alone what the client knows and has.                 *)
LEMMA KnownSame ==
  ASSUME NewsInv, UNCHANGED <<latest, seq, stream, csRemote, snapshot, updated, dbRemote, missed>>,
         CycleToSave' = CycleToSave, main' = main
  PROVE  Told' /\ Bounded'
<1>1. \A p : Known(p)' = Known(p)
  BY SavedSame DEF Known, View
<1> QED
  BY <1>1 DEF NewsInv, Told, Bounded

(* Steps that leave the calls and what they look at alone keep calls       *)
(* coming.                                                                 *)
LEMMA SameCalls ==
  ASSUME UNCHANGED <<call, pending>>
  PROVE  /\ CycleToSave' = CycleToSave /\ (ToRun' <=> ToRun)
         /\ Coming /\ (trigger \/ event \/ timer => trigger' \/ event' \/ timer') => Coming'
  BY DEF Coming, ToRun, CycleToSave

(* The user, the other devices and the connection.                         *)
LEMMA EnvironmentNews ==
  ASSUME Exclusive, NewsInv, Environment
  PROVE  NewsInv'
<1>0. /\ latest \in Versions /\ seq \in Nat /\ dirty \subseteq Paths
  BY DEF Exclusive, TypeOK
<1>1. ASSUME NEW p \in Paths, DevicePush(p)
      PROVE  NewsInv'
  <2> DEFINE notes == <<[path |-> p, version |-> seq + 1]>>
  <2>1. /\ Notify(notes) /\ latest' = [q \in Paths |-> IF q \in {p} THEN seq + 1 ELSE latest[q]]
        /\ seq' = seq + 1
        /\ UNCHANGED <<main, csRemote, snapshot, updated, dbRemote, call, inProgress, pending>>
        /\ UNCHANGED <<trigger, event, timer, dirty, missed, failed>>
    BY <1>0, <1>1 DEF DevicePush, cs, loop, flags, work, db, history, Versions
  <2>2. /\ notes \in Seq(Notifications)
        /\ \A k \in 1 .. Len(notes) : notes[k].version = seq + 1
        /\ \A q \in Paths : In(notes, q) <=> q \in {p}
    BY <1>0 DEF Notifications, In
  <2> HIDE DEF notes
  <2>3. CycleToSave' = CycleToSave /\ (ToRun' <=> ToRun) /\ (Coming => Coming')
    BY <2>1, SameCalls
  <2>4. Saved' = Saved
    BY <2>1, <2>3, SavedSame
  <2>5. /\ Told'
        /\ \A q \in Paths : latest[q] <= latest'[q] /\ latest'[q] <= seq'
        /\ \A k \in 1 .. Len(stream') : stream'[k].version <= latest'[stream'[k].path]
    <3>1. seq + 1 \in Nat /\ seq <= seq + 1 /\ {p} \in SUBSET Paths
      BY <1>0
    <3> QED
      BY <2>1, <2>2, <2>4, <3>1, Announced
  <2>6. Bounded'
    BY <1>0, <2>1, <2>5 DEF NewsInv, Bounded, Exclusive, TypeOK, Versions
  <2>7. SavedUpdated' /\ InHand' /\ Remembered'
    BY <2>1, <2>3 DEF NewsInv, SavedUpdated, InHand, Remembered
  <2> QED
    BY <2>5, <2>6, <2>7 DEF NewsInv
<1>2. ASSUME NEW p \in Paths, UserEdit(p)
      PROVE  NewsInv'
  <2>1. /\ UNCHANGED <<latest, seq, main, stream, csRemote, snapshot, updated, dbRemote, missed>>
        /\ UNCHANGED <<call, pending, trigger, timer, failed>> /\ event' = (event \/ main # "stopped")
    BY <1>2 DEF UserEdit, server, cs, work, db, flags, history
  <2>2. CycleToSave' = CycleToSave /\ (ToRun' <=> ToRun) /\ (Coming => Coming')
    BY <2>1, SameCalls
  <2>3. Told' /\ Bounded'
    BY <2>1, <2>2, KnownSame
  <2>4. main # "stopped" => Coming'
    BY <2>1 DEF Coming
  <2>5. SavedUpdated' /\ InHand' /\ Remembered'
    BY <2>1, <2>2, <2>4 DEF NewsInv, SavedUpdated, InHand, Remembered
  <2> QED
    BY <2>3, <2>5 DEF NewsInv
<1>3. CASE LoseConnection \/ GoSilent \/ ConnectFails
  <2>1. /\ UNCHANGED <<latest, seq, csRemote, snapshot, updated, dbRemote, missed>>
        /\ UNCHANGED <<call, pending, trigger, timer, event, failed, dirty>>
        /\ main # "stopped" /\ main' \notin {"up", "stopped"}
        /\ stream' = <<>>
    BY <1>3 DEF NewsInv, Told, LoseConnection, GoSilent, ConnectFails, server, cs, work, db, flags, loop, history
  <2>2. CycleToSave' = CycleToSave /\ (ToRun' <=> ToRun) /\ (Coming => Coming')
    BY <2>1, SameCalls
  <2>3. Bounded'
    BY <2>1 DEF NewsInv, Bounded
  <2>4. SavedUpdated' /\ Told' /\ InHand' /\ Remembered'
    BY <2>1, <2>2 DEF NewsInv, SavedUpdated, Told, InHand, Remembered
  <2> QED
    BY <2>3, <2>4 DEF NewsInv
<1>4. CASE Stop
  <2>1. /\ UNCHANGED <<latest, seq, snapshot, updated, dbRemote>>
        /\ main' = "stopped" /\ stream' = <<>> /\ csRemote' = NoVersions
        /\ call' = [c \in Calls |-> "none"]
    BY <1>4 DEF Stop, server, work, db
  <2>2. Bounded'
    BY <1>0, <2>1 DEF NewsInv, Bounded, NoVersions, Versions
  <2>3. SavedUpdated' /\ Told' /\ InHand' /\ Remembered'
    BY <2>1 DEF SavedUpdated, Told, InHand, Remembered
  <2> QED
    BY <2>2, <2>3 DEF NewsInv
<1>5. ASSUME NEW c \in Calls, CycleFails(c)
      PROVE  NewsInv'
  <2>1. /\ call[c] \in {"locked", "taken", "dialled"} /\ Goto(c, "unlocking") /\ failed'
        /\ UNCHANGED <<latest, seq, main, stream, csRemote, snapshot, updated, dbRemote>>
        /\ missed' = missed \cup {p \in Paths : csRemote[p] = 0 /\ Saved[p] # dbRemote[p]}
    BY <1>5 DEF CycleFails, server, cs, work, db
  <2>2. \A d \in Calls : call'[d] # "skipping" => call'[d] \notin {"taken", "dialled", "cycled"}
    BY <2>1 DEF Exclusive, OneCycleAtATime, Goto, TypeOK, Running, InCycle
  <2>3. ~CycleToSave' /\ Saved' = dbRemote
    BY <2>1, <2>2 DEF CycleToSave, Saved
  <2>4. ASSUME NEW p \in Paths PROVE Known(p)' \in {Known(p), latest[p]}
    BY <2>1, <2>3 DEF Known, View
  <2>5. ASSUME NEW p \in Paths, main = "up" PROVE Tells(stream, Known(p)', latest[p], p)
    BY <2>4, <2>5 DEF NewsInv, Told, Tells
  <2>6. Told' /\ Bounded'
    BY <2>1, <2>5 DEF NewsInv, Told, Bounded
  <2>7. SavedUpdated' /\ InHand' /\ Remembered'
    BY <2>1, <2>2, <2>3 DEF SavedUpdated, InHand, Remembered
  <2> QED
    BY <2>6, <2>7 DEF NewsInv
<1> QED
  BY <1>1, <1>2, <1>3, <1>4, <1>5 DEF Environment

(* A handshake tells the newest version of what it lists; what it does not *)
(* list the client has, or it is missed.                                   *)
LEMMA ListedTells ==
  ASSUME Exclusive, NewsInv, NEW version, csRemote' = Listed(version),
         missed' = Unlisted(version), stream' = <<>>, UNCHANGED latest, Saved' = Saved
  PROVE  Told' /\ \A p \in Paths : csRemote'[p] <= latest[p]
<1>0. latest \in Versions /\ \A p : ~In(<<>>, p)
  BY DEF Exclusive, TypeOK, In
<1>1. ASSUME NEW p \in Paths PROVE Known(p)' = latest[p] /\ csRemote'[p] <= latest[p]
  <2>1. Saved[p] = latest[p] \/ p \in Unlisted(version) \/ IsListed(p, version)
    BY DEF Unlisted
  <2>2. IsListed(p, version) => csRemote'[p] = latest[p]
    BY DEF Listed
  <2>3. ~IsListed(p, version) => csRemote'[p] = 0
    BY DEF Listed
  <2>4. latest[p] = 0 => Saved[p] = 0
    BY <1>0 DEF Saved, CurrentRemote, NewsInv, Bounded, Exclusive, TypeOK, Versions
  <2> QED
    BY <1>0, <2>1, <2>2, <2>3, <2>4 DEF Known, View, Versions
<1>2. \A p \in Paths : Tells(<<>>, latest[p], latest[p], p)
  BY <1>0 DEF Tells
<1> QED
  BY <1>1, <1>2 DEF Told

(* The read pump, the heartbeat and the main loop.                         *)
LEMMA LoopNews ==
  ASSUME Exclusive, NewsInv, PumpRead \/ Heartbeat \/ Loop
  PROVE  NewsInv'
<1>0. /\ stream \in Seq(Notifications) /\ csRemote \in Versions /\ latest \in Versions
  BY DEF Exclusive, TypeOK
<1>4. CASE PumpRead
  <2>1. /\ main = "up" /\ stream # <<>> /\ stream' = Tail(stream) /\ trigger' = TRUE
        /\ csRemote' = [csRemote EXCEPT ![Head(stream).path] = Head(stream).version]
        /\ missed' = missed \ {Head(stream).path}
        /\ UNCHANGED <<latest, seq, main, snapshot, updated, dbRemote, call, pending>>
    BY <1>4 DEF PumpRead, server, work, db, flags
  <2>2. CycleToSave' = CycleToSave /\ Coming'
    BY <2>1, SameCalls DEF Coming
  <2>3. Saved' = Saved
    BY <2>1, <2>2, SavedSame
  <2>4. /\ Len(stream) \in Nat /\ Len(stream) >= 1 /\ Head(stream) = stream[1]
        /\ Head(stream) \in Notifications /\ Len(Tail(stream)) = Len(stream) - 1
        /\ \A k \in 1 .. Len(Tail(stream)) :
             k + 1 \in 1 .. Len(stream) /\ Tail(stream)[k] = stream[k + 1]
    BY <1>0, <2>1
  <2>5. \A p \in Paths : csRemote'[p] = IF Head(stream).path = p THEN Head(stream).version
                                        ELSE csRemote[p]
    BY <1>0, <2>1 DEF Versions
  <2>6. Head(stream).version <= latest[Head(stream).path]
    BY <2>4 DEF NewsInv, Bounded
  <2>7. ASSUME NEW p \in Paths PROVE Tells(stream', Known(p)', latest[p], p)
    <3>1. Tells(Tail(stream), IF Head(stream).path = p THEN Head(stream).version ELSE Known(p),
                latest[p], p)
      BY <1>0, <2>1, TellsTail DEF NewsInv, Told
    <3>2. CASE Head(stream).path # p
      BY <2>1, <2>3, <2>5, <3>1, <3>2 DEF Known, View
    <3>3. CASE Head(stream).path = p
      <4>1. Known(p)' = IF Head(stream).version # 0 THEN Head(stream).version ELSE Saved[p]
        BY <2>1, <2>3, <2>5, <3>3 DEF Known, View
      <4>2. latest[p] = 0 => Saved[p] = 0
        BY <1>0 DEF Saved, CurrentRemote, NewsInv, Bounded, Exclusive, TypeOK, Versions
      <4>3. ~In(Tail(stream), p) => Head(stream).version = latest[p]
        BY <3>1, <3>3 DEF Tells
      <4> QED
        BY <2>1, <3>1, <3>3, <4>1, <4>2, <4>3 DEF Tells
    <3> QED
      BY <3>2, <3>3
  <2>8. Told'
    BY <2>1, <2>7 DEF Told
  <2>9. Bounded'
    BY <2>1, <2>4, <2>5, <2>6 DEF NewsInv, Bounded
  <2>10. SavedUpdated' /\ InHand' /\ Remembered'
    BY <2>1, <2>2 DEF NewsInv, SavedUpdated, InHand, Remembered
  <2> QED
    BY <2>8, <2>9, <2>10 DEF NewsInv
<1>5. CASE Heartbeat \/ OnPumpDone \/ Connect
  <2>1. /\ main # "stopped" /\ main' \notin {"up", "stopped"}
        /\ csRemote' = NoVersions \/ csRemote' = csRemote
        /\ UNCHANGED <<latest, seq, stream, snapshot, updated, dbRemote>>
        /\ UNCHANGED <<call, pending, trigger, timer, event, dirty, failed>> /\ stream = <<>>
    BY <1>5 DEF NewsInv, Told, Heartbeat, OnPumpDone, Connect, server, cs, work, db, flags, loop, history
  <2>2. CycleToSave' = CycleToSave /\ (ToRun' <=> ToRun) /\ (Coming => Coming')
    BY <2>1, SameCalls
  <2>3. Bounded'
    BY <1>0, <2>1 DEF NewsInv, Bounded, NoVersions, Versions
  <2>4. SavedUpdated' /\ Told' /\ InHand' /\ Remembered'
    BY <2>1, <2>2 DEF NewsInv, SavedUpdated, Told, InHand, Remembered
  <2> QED
    BY <2>3, <2>4 DEF NewsInv
<1>6. CASE OnTrigger \/ OnEvent
  <2>1. /\ timer' = TRUE
        /\ UNCHANGED <<latest, seq, main, stream, csRemote, snapshot, updated, dbRemote, missed>>
        /\ UNCHANGED <<call, pending>>
    BY <1>6 DEF OnTrigger, OnEvent, server, cs, work, db, flags, history
  <2>2. CycleToSave' = CycleToSave /\ Coming'
    BY <2>1, SameCalls DEF Coming
  <2>3. Told' /\ Bounded'
    BY <2>1, <2>2, KnownSame
  <2>4. SavedUpdated' /\ InHand' /\ Remembered'
    BY <2>1, <2>2 DEF NewsInv, SavedUpdated, InHand, Remembered
  <2> QED
    BY <2>3, <2>4 DEF NewsInv
<1>7. CASE Connected \/ Start
  <2>1. PICK version : csRemote' = Listed(version) /\ missed' = Unlisted(version)
    BY <1>7 DEF Connected, Start
  <2>2. /\ trigger' \/ timer'
        /\ UNCHANGED <<latest, seq, snapshot, updated, dbRemote, call, pending>>
        /\ stream' = <<>> \/ stream' = stream
    BY <1>7 DEF Connected, Start, server, work, db, flags
  <2>3. CycleToSave' = CycleToSave /\ Coming'
    BY <2>2, SameCalls DEF Coming
  <2>4. Saved' = Saved
    BY <2>2, <2>3, SavedSame
  <2>5. stream' = <<>>
    BY <1>7, <2>2 DEF Connected, Start, NewsInv, Told
  <2>6. Told' /\ \A p \in Paths : csRemote'[p] <= latest[p]
    BY <2>1, <2>2, <2>4, <2>5, ListedTells
  <2>7. Bounded'
    BY <2>2, <2>5, <2>6 DEF NewsInv, Bounded
  <2>8. SavedUpdated' /\ InHand' /\ Remembered'
    BY <2>2, <2>3 DEF NewsInv, SavedUpdated, InHand, Remembered
  <2> QED
    BY <2>6, <2>7, <2>8 DEF NewsInv
<1> QED
  BY <1>4, <1>5, <1>6, <1>7 DEF Loop

(* The calls of doSync.                                                    *)
LEMMA CallsNews ==
  ASSUME Exclusive, NewsInv, NEW c \in Calls, Fire(c) \/ Step(c)
  PROVE  NewsInv'
<1>0. /\ latest \in Versions /\ seq \in Nat /\ dirty \subseteq Paths
      /\ csRemote \in Versions /\ snapshot \in Versions /\ updated \in Versions
      /\ dbRemote \in Versions
      /\ call \in [Calls -> Running \cup {"none", "skipping"}]
  BY DEF Exclusive, TypeOK
<1>g. ASSUME NEW step, Goto(c, step)
      PROVE  call'[c] = step /\ \A d \in Calls : d # c => call'[d] = call[d]
  BY <1>0, <1>g DEF Goto
<1>o. call[c] \in Running => \A d \in Calls : d # c => call[d] \notin Running
  BY DEF Exclusive, OneCycleAtATime
<1>1. CASE Fire(c)
  <2>1. /\ call[c] = "none" /\ UNCHANGED pending
        /\ call'[c] = (IF inProgress THEN "skipping" ELSE "begun")
        /\ \A d \in Calls : d # c => call'[d] = call[d]
    BY <1>1, <1>g DEF Fire
  <2>2. UNCHANGED <<latest, seq, main, stream, csRemote, snapshot, updated, dbRemote, missed, dirty>>
    BY <1>1 DEF Fire, server, cs, work, db
  <2>3. CycleToSave' = CycleToSave /\ \A d \in Calls : call'[d] = "cycled" <=> call[d] = "cycled"
    BY <2>1 DEF CycleToSave
  <2>4. CycleToSave => inProgress
    BY DEF CycleToSave, Exclusive, Claimed, Running, InCycle
  <2>5. IF inProgress THEN Coming' ELSE ToRun'
    BY <2>1 DEF Coming, ToRun
  <2>6. Told' /\ Bounded'
    BY <2>2, <2>3, KnownSame
  <2>7. SavedUpdated' /\ InHand' /\ Remembered'
    BY <2>2, <2>3, <2>4, <2>5 DEF NewsInv, SavedUpdated, InHand, Remembered
  <2> QED
    BY <2>6, <2>7 DEF NewsInv
<1>2. CASE Skip(c) \/ Unlock(c) \/ Retrigger(c) \/ Clear(c)
  <2>1. /\ call[c] \in {"skipping", "unlocking", "ending", "clearing"}
        /\ call'[c] \in {"none", "ending", "clearing"}
        /\ \A d \in Calls : d # c => call'[d] = call[d]
    BY <1>2, <1>g DEF Skip, Unlock, Retrigger, Clear
  <2>1a. call[c] = "skipping" => pending'
    BY <1>2 DEF Skip, Unlock, Retrigger, Clear
  <2>1b. trigger \/ event \/ timer \/ pending => trigger' \/ event' \/ timer' \/ pending'
    BY <1>2 DEF Skip, Unlock, Retrigger, Clear, loop, flags
  <2>2. UNCHANGED <<latest, seq, main, stream, csRemote, snapshot, updated, dbRemote, missed,
                    dirty, failed>>
    BY <1>2 DEF Skip, Unlock, Retrigger, Clear, server, cs, work, db, history
  <2>3. /\ CycleToSave' = CycleToSave /\ (ToRun' <=> ToRun)
        /\ \A d \in Calls : call'[d] = "cycled" <=> call[d] = "cycled"
    BY <2>1 DEF CycleToSave, ToRun
  <2>4. Coming => Coming'
    BY <2>1, <2>1a, <2>1b DEF Coming
  <2>5. Told' /\ Bounded'
    BY <2>2, <2>3, KnownSame
  <2>6. SavedUpdated' /\ InHand' /\ Remembered'
    BY <2>2, <2>3, <2>4 DEF NewsInv, SavedUpdated, InHand, Remembered
  <2> QED
    BY <2>5, <2>6 DEF NewsInv
<1>3. CASE LockBusy(c) \/ Lock(c) \/ Dial(c)
  <2>1. /\ \/ call[c] = "begun" /\ call'[c] = "ending" /\ failed'
           \/ call[c] = "begun" /\ call'[c] = "locked" /\ UNCHANGED failed
           \/ call[c] = "taken" /\ call'[c] = "dialled" /\ UNCHANGED failed
        /\ \A d \in Calls : d # c => call'[d] = call[d]
        /\ UNCHANGED <<trigger, event, timer, pending, missed, dirty>>
    BY <1>3, <1>g DEF LockBusy, Lock, Dial, loop, flags, history
  <2>2. UNCHANGED <<latest, seq, main, stream, csRemote, snapshot, updated, dbRemote>>
    BY <1>3 DEF LockBusy, Lock, Dial, server, cs, work, db
  <2>3. /\ CycleToSave' = CycleToSave
        /\ \A d \in Calls : call'[d] = "cycled" <=> call[d] = "cycled"
    BY <2>1 DEF CycleToSave
  <2>4. Coming => Coming'
    BY <2>1 DEF Coming
  <2>5. failed' \/ (~failed /\ ToRun')
    BY <2>1 DEF ToRun
  <2>6. Told' /\ Bounded'
    BY <2>1, <2>2, <2>3, KnownSame
  <2>7. SavedUpdated' /\ InHand'
    BY <2>1, <2>2, <2>3, <2>4 DEF NewsInv, SavedUpdated, InHand
  <2>8. Remembered'
    BY <2>5 DEF Remembered
  <2> QED
    BY <2>6, <2>7, <2>8 DEF NewsInv
<1>4. CASE Take(c)
  <2>1. /\ call[c] = "locked" /\ call'[c] = "taken" /\ snapshot' = csRemote
        /\ \A d \in Calls : d # c => call'[d] = call[d] /\ call[d] \notin Running
        /\ UNCHANGED <<latest, seq, main, stream, csRemote, updated, dbRemote, missed>>
    BY <1>4, <1>g, <1>o DEF Take, server, cs, db, history, Running
  <2>2. ~CycleToSave /\ CycleToSave' /\ ToRun' /\ \A d \in Calls : call'[d] # "cycled"
    BY <2>1 DEF CycleToSave, ToRun, Running, InCycle
  <2>3. \A p \in Paths : View(p)' = View(p)
    BY <2>1, <2>2 DEF View, Saved, CurrentRemote
  <2>4. \A p \in Paths : Known(p)' = Known(p)
    BY <2>1, <2>3 DEF Known
  <2>5. Told'
    BY <2>1, <2>4 DEF NewsInv, Told
  <2>6. Bounded'
    BY <2>1 DEF NewsInv, Bounded
  <2>7. SavedUpdated' /\ InHand' /\ Remembered'
    BY <2>1, <2>2 DEF SavedUpdated, InHand, Remembered
  <2> QED
    BY <2>5, <2>6, <2>7 DEF NewsInv
<1>6. CASE Cycle(c)
  <2>1. /\ call[c] = "dialled" /\ call'[c] = "cycled"
        /\ dirty' = {} /\ dbRemote' = updated'
        /\ \A d \in Calls : d # c => call'[d] = call[d] /\ call[d] \notin Running
        /\ UNCHANGED <<main, csRemote, snapshot, trigger, event, timer, pending, missed, failed>>
    BY <1>6, <1>g, <1>o DEF Cycle, cs, loop, flags, history, Running, InCycle
  <2>2. PICK A \in SUBSET dirty :
          /\ seq' = IF A = {} THEN seq ELSE seq + 1
          /\ latest' = [p \in Paths |-> IF p \in A THEN seq' ELSE latest[p]]
          /\ \E notes \in Notes(A, seq') : Notify(notes)
          /\ updated' = [p \in Paths |-> IF p \in A THEN seq' ELSE CurrentRemote[p]]
    BY <1>6 DEF Cycle
  <2>3. PICK notes \in Notes(A, seq') : Notify(notes)
    BY <2>2
  <2>4. seq' \in Nat /\ A \in SUBSET Paths /\ seq <= seq'
    BY <1>0, <2>2
  <2>5. /\ CycleToSave /\ ~CycleToSave' /\ Saved = CurrentRemote /\ Saved' = updated'
    BY <2>1 DEF CycleToSave, Saved, Running, InCycle
  <2>6. /\ Told'
        /\ \A p \in Paths : latest[p] <= latest'[p] /\ latest'[p] <= seq'
        /\ \A k \in 1 .. Len(stream') : stream'[k].version <= latest'[stream'[k].path]
    <3>1. /\ notes \in Seq(Notifications)
          /\ \A k \in 1 .. Len(notes) : notes[k].version = seq'
          /\ \A p \in Paths : In(notes, p) <=> p \in A
      BY <2>4, NotesTell
    <3>2. \A p \in Paths \ A : Saved'[p] = Saved[p]
      BY <2>2, <2>5
    <3> QED
      BY <2>1, <2>2, <2>3, <2>4, <3>1, <3>2, Announced
  <2>7. \A p \in Paths : CurrentRemote[p] <= latest[p]
    BY DEF CurrentRemote, NewsInv, Bounded
  <2>8. \A p \in Paths : updated'[p] <= latest'[p]
    BY <1>0, <2>2, <2>4, <2>7 DEF Versions
  <2>9. Bounded'
    <3>1. ASSUME NEW p \in Paths
          PROVE  csRemote'[p] <= latest'[p] /\ snapshot'[p] <= latest'[p]
      <4>1. csRemote[p] <= latest[p] /\ snapshot[p] <= latest[p] /\ latest[p] <= latest'[p]
        BY <2>6 DEF NewsInv, Bounded
      <4>2. /\ csRemote[p] \in Nat /\ snapshot[p] \in Nat /\ latest[p] \in Nat
            /\ latest'[p] \in Nat
        BY <1>0, <2>2, <2>4 DEF Versions
      <4> QED
        BY <2>1, <4>1, <4>2
    <3> QED
      BY <2>1, <2>6, <2>8, <3>1 DEF Bounded
  <2>10. Coming => Coming'
    BY <2>1 DEF Coming
  <2>11. SavedUpdated' /\ InHand'
    BY <2>1, <2>5 DEF SavedUpdated, InHand
  <2>12. Remembered'
    <3>1. main = "up" => \A p \in Paths : csRemote[p] \notin {0, snapshot[p]} => Coming
      BY <2>5 DEF NewsInv, InHand
    <3> QED
      BY <2>1, <2>10, <3>1 DEF Remembered
  <2> QED
    BY <2>6, <2>9, <2>11, <2>12 DEF NewsInv
<1>7. CASE Publish(c)
  <2>1. /\ call[c] = "cycled" /\ call'[c] = "unlocking"
        /\ csRemote' = [p \in Paths |-> IF snapshot[p] # 0 THEN updated[p] ELSE csRemote[p]]
        /\ missed' = missed \cup {p \in Paths : snapshot[p] # 0 /\ updated[p] < csRemote[p]}
        /\ \A d \in Calls : d # c => call'[d] = call[d] /\ call[d] \notin Running
        /\ UNCHANGED <<latest, seq, main, stream, snapshot, updated, dbRemote, dirty, failed>>
        /\ UNCHANGED <<trigger, event, timer, pending>>
    BY <1>7, <1>g, <1>o DEF Publish, server, work, db, loop, flags, Running, InCycle
  <2>2. /\ ~CycleToSave /\ ~CycleToSave' /\ \A d \in Calls : call'[d] # "cycled"
        /\ ~ToRun /\ updated = dbRemote /\ Saved = dbRemote /\ Saved' = dbRemote
    BY <2>1 DEF CycleToSave, ToRun, Saved, NewsInv, SavedUpdated, Running, InCycle
  <2>3. Coming => Coming'
    BY <2>1 DEF Coming
  <2>4. ASSUME NEW p \in Paths, main = "up"
        PROVE  Tells(stream, Known(p)', latest[p], p)
    <3>1. Tells(stream, Known(p), latest[p], p)
      BY <2>4 DEF NewsInv, Told
    <3>2. In(stream, p) \/ Known(p) = latest[p]
      BY <3>1 DEF Tells
    <3>3. updated[p] <= latest[p] /\ csRemote[p] <= latest[p]
      BY DEF NewsInv, Bounded
    <3>4. Known(p) = latest[p] => Known(p)' = latest[p]
      BY <1>0, <2>1, <2>2, <3>3 DEF Known, View, Versions
    <3> QED
      BY <3>1, <3>2, <3>4 DEF Tells
  <2>5. Told'
    BY <2>1, <2>4 DEF NewsInv, Told
  <2>6. Bounded'
    BY <2>1 DEF NewsInv, Bounded
  <2>7. SavedUpdated' /\ InHand'
    BY <2>2 DEF SavedUpdated, InHand
  <2>8. Remembered'
    BY <2>1, <2>2, <2>3 DEF NewsInv, Remembered
  <2> QED
    BY <2>5, <2>6, <2>7, <2>8 DEF NewsInv
<1> QED
  BY <1>1, <1>2, <1>3, <1>4, <1>6, <1>7 DEF Step

(* At the start nobody knows of anything, and a cycle is going to run.     *)
LEMMA NewsInit == Init => NewsInv
<1> SUFFICES ASSUME Init PROVE NewsInv
  OBVIOUS
<1>1. \A p \in Paths : Known(p) = 0 /\ latest[p] = 0
  BY DEF Init, Known, View, Saved, CycleToSave, NoVersions
<1>2. Told
  BY <1>1 DEF Init, Told, Tells, In, LastFor
<1>3. Bounded
  BY DEF Init, Bounded, NoVersions
<1>4. SavedUpdated /\ InHand /\ Remembered
  BY DEF Init, SavedUpdated, InHand, CycleToSave, Remembered, NoVersions, Coming
<1> QED
  BY <1>2, <1>3, <1>4 DEF NewsInv

(* Whatever breaks, fails or is stopped, and whatever the listing of a     *)
(* handshake leaves out, no notification and no local change is consumed   *)
(* without its effect (doSync, startReadPump and the main loop), but by    *)
(* the lapses that ForgottenOnlyByLapse names: for any paths and calls.    *)
THEOREM LapseTheorem == Spec => []ForgottenOnlyByLapse
<1>1. Init => Claimed /\ OneCycleAtATime
  BY DEF Init, Claimed, OneCycleAtATime, Running, InCycle
<1>2. TypeOK /\ Claimed /\ OneCycleAtATime /\ [Next]_vars => Claimed' /\ OneCycleAtATime'
  BY ExclusiveKept DEF Exclusive
<1>3. Spec => []Exclusive
  BY <1>1, <1>2, TypeCorrect, PTL DEF Spec, Exclusive
<1>4. Exclusive /\ NewsInv /\ [Next]_vars => NewsInv'
  <2>1. NewsInv /\ UNCHANGED vars => NewsInv'
    <3> SUFFICES ASSUME NewsInv, UNCHANGED vars PROVE NewsInv'
      OBVIOUS
    <3>1. UNCHANGED <<call, pending>> /\ (Coming => Coming')
      BY DEF vars, Coming
    <3>2. CycleToSave' = CycleToSave /\ (ToRun' <=> ToRun)
      BY <3>1, SameCalls
    <3>3. Told' /\ Bounded'
      BY <3>2, KnownSame DEF vars
    <3>4. SavedUpdated' /\ InHand' /\ Remembered'
      BY <3>1, <3>2 DEF NewsInv, SavedUpdated, InHand, Remembered, vars
    <3> QED
      BY <3>3, <3>4 DEF NewsInv
  <2> QED
    BY <2>1, EnvironmentNews, LoopNews, CallsNews DEF Next
<1>5. NewsInv /\ Exclusive => ForgottenOnlyByLapse
  <2> SUFFICES ASSUME NewsInv, Exclusive, AtRest, ~failed, ~pending
               PROVE  dirty = {} /\ \A p \in Paths \ missed : dbRemote[p] = latest[p]
    BY DEF ForgottenOnlyByLapse, HasAllButLapses
  <2>1. /\ main = "up" /\ \A p : ~In(stream, p)
        /\ ~Coming /\ ~ToRun /\ ~CycleToSave /\ \A c \in Calls : call[c] # "cycled"
    BY DEF AtRest, Coming, ToRun, CycleToSave, In
  <2>2. dirty = {} /\ \A p \in Paths : csRemote[p] \in {0, dbRemote[p]}
    BY <2>1 DEF NewsInv, Remembered
  <2>3. ASSUME NEW p \in Paths \ missed PROVE dbRemote[p] = latest[p]
    <3>1. View(p) = latest[p]
      BY <2>1 DEF NewsInv, Told, Tells, Known
    <3>2. View(p) = dbRemote[p]
      BY <2>1, <2>2 DEF View, Saved
    <3> QED
      BY <3>1, <3>2
  <2> QED
    BY <2>2, <2>3
<1> QED
  BY <1>3, <1>4, <1>5, NewsInit, PTL DEF Spec
=============================================================================
