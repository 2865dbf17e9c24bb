------------------------------ MODULE SyncLock ------------------------------
(***************************************************************************)
(* The vault lock of internal/sync/lock.go.  Every sync cycle, of `ob      *)
(* sync` and of `ob sync --continuous`, brackets its work with             *)
(* acquireLock and the release function it returns.  The lock is the       *)
(* existence of one file per vault, created with O_EXCL; a file older than *)
(* staleLockAge is taken for the remains of a dead process and is taken    *)
(* over by removing it and creating it again.                              *)
(*                                                                         *)
(* Each system call of acquireLock is an action, because other processes   *)
(* run between two of them.  The file is removed BY NAME in both places    *)
(* that remove it: the call does not see whose file it removes.            *)
(*                                                                         *)
(* Left out: a failing MkdirAll or OpenFile (they return before any        *)
(* state changes) and the text written into the file, which nothing reads. *)
(***************************************************************************)
EXTENDS Naturals

CONSTANTS
  Procs,            \* the processes that sync this vault
  NoFile,           \* the value of lockFile when there is no lock file
  Ageing,           \* whose lock may outlive staleLockAge (24 hours)
  MaxCrashes        \* bound of the model on crashes

(***************************************************************************)
(* "orphaned": only the file of a process that no longer runs a cycle gets *)
(* older than 24 hours; "any": a cycle may itself run for longer.          *)
(***************************************************************************)
AgeingAssumption == Ageing \in {"orphaned", "any"}
NoFileAssumption == NoFile \notin [by : Procs, age : {"fresh", "stale"}]
CrashAssumption == MaxCrashes \in Nat

ASSUME AgeingAssumption
ASSUME NoFileAssumption
ASSUME CrashAssumption

VARIABLES
  lockFile,   \* the file <vault id>.lock, with the process that created it
  pc,         \* where each process is in acquireLock
  robbed,     \* history: holders whose file another process has removed
  crashes     \* number of crashes so far

vars == <<lockFile, pc, robbed, crashes>>

LockFiles == [by : Procs, age : {"fresh", "stale"}]

Steps == {"idle", "stat", "remove", "recreate", "held"}

TypeOK ==
  /\ lockFile \in LockFiles \cup {NoFile}
  /\ pc \in [Procs -> Steps]
  /\ robbed \subseteq Procs
  /\ crashes \in Nat

Init ==
  /\ lockFile = NoFile
  /\ pc = [p \in Procs |-> "idle"]
  /\ robbed = {}
  /\ crashes = 0

\* Mutant: the new file has no time.
FreshUndated(p) == [by |-> p]

Fresh(p) == [by |-> p, age |-> "fresh"]

Goto(p, s) == pc' = [pc EXCEPT ![p] = s]

Holders == {p \in Procs : pc[p] = "held"}

(* The holder who loses his file if p removes the one that is there.       *)
Victims(p) == {q \in Holders : q # p /\ lockFile # NoFile /\ lockFile.by = q}

-----------------------------------------------------------------------------
(* The first openExclusive: it creates the file, or finds one and goes on  *)
(* to look at its age.                                                     *)
Create(p) ==
  /\ pc[p] = "idle"
  /\ IF lockFile = NoFile
       THEN lockFile' = Fresh(p) /\ Goto(p, "held")
       ELSE UNCHANGED lockFile /\ Goto(p, "stat")
  /\ UNCHANGED <<robbed, crashes>>

\* Mutant: a stale lock is never recognised.
StatNeverStale(p) ==
  /\ pc[p] = "stat"
  /\ Goto(p, "idle")
  /\ UNCHANGED <<lockFile, robbed, crashes>>

\* Mutant: who cannot have the lock cleans up as if he had it.
StatCleaningUp(p) ==
  /\ pc[p] = "stat"
  /\ LET stale == lockFile # NoFile /\ lockFile.age = "stale"
     IN  /\ Goto(p, IF stale THEN "remove" ELSE "idle")
         /\ lockFile' = IF stale THEN lockFile ELSE NoFile
         /\ robbed' = IF stale THEN robbed ELSE robbed \cup Victims(p)
  /\ UNCHANGED crashes

(* os.Stat: only a file older than staleLockAge is taken over; a file that *)
(* is gone by now counts as "sync in progress" too.                        *)
Stat(p) ==
  /\ pc[p] = "stat"
  /\ Goto(p, IF lockFile # NoFile /\ lockFile.age = "stale" THEN "remove" ELSE "idle")
  /\ UNCHANGED <<lockFile, robbed, crashes>>

(* os.Remove of whatever file has the name now; it fails if none has.      *)
RemoveStale(p) ==
  /\ pc[p] = "remove"
  /\ lockFile' = NoFile
  /\ Goto(p, IF lockFile = NoFile THEN "idle" ELSE "recreate")
  /\ robbed' = robbed \cup Victims(p)
  /\ UNCHANGED crashes

\* Mutant: the second open does not insist on creating the file.
RecreateShared(p) ==
  /\ pc[p] = "recreate"
  /\ lockFile' = IF lockFile = NoFile THEN Fresh(p) ELSE lockFile
  /\ Goto(p, "held")
  /\ UNCHANGED <<robbed, crashes>>

(* The second openExclusive: it fails if another process was faster.       *)
Recreate(p) ==
  /\ pc[p] = "recreate"
  /\ IF lockFile = NoFile
       THEN lockFile' = Fresh(p) /\ Goto(p, "held")
       ELSE UNCHANGED lockFile /\ Goto(p, "idle")
  /\ UNCHANGED <<robbed, crashes>>

(* The function acquireLock returns: it removes the file by name and       *)
(* ignores the outcome.                                                    *)
Release(p) ==
  /\ pc[p] = "held"
  /\ lockFile' = NoFile
  /\ Goto(p, "idle")
  /\ robbed' = (robbed \ {p}) \cup Victims(p)
  /\ UNCHANGED crashes

-----------------------------------------------------------------------------
(* The environment.                                                        *)

(* The process dies anywhere; its file stays.                              *)
Crash(p) ==
  /\ crashes < MaxCrashes
  /\ pc[p] # "idle"
  /\ Goto(p, "idle")
  /\ crashes' = crashes + 1
  /\ robbed' = robbed \ {p}
  /\ UNCHANGED lockFile

(* 24 hours pass since the file was created.  Its time is never refreshed. *)
Age ==
  /\ lockFile # NoFile
  /\ lockFile.age = "fresh"
  /\ \/ Ageing = "any"
     \/ Ageing = "orphaned" /\ pc[lockFile.by] # "held"
  /\ lockFile' = [lockFile EXCEPT !.age = "stale"]
  /\ UNCHANGED <<pc, robbed, crashes>>

Attempt(p) == Create(p) \/ Stat(p) \/ RemoveStale(p) \/ Recreate(p) \/ Release(p)

Next == Age \/ \E p \in Procs : Attempt(p) \/ Crash(p)

Spec == Init /\ [][Next]_vars

(* A process steps on until its cycle is over and the next cycle tries     *)
(* again; time passes.  Nothing makes a process crash.                     *)
FairSpec == Spec /\ WF_vars(Age) /\ \A p \in Procs : WF_vars(Attempt(p))

-----------------------------------------------------------------------------
(* Two cycles never run at once on a vault: of two calls of acquireLock    *)
(* whose release has not been called, the second one has failed.           *)
MutualExclusion == \A p, q \in Holders : p = q

(* However takeovers overlap, however long cycles run and whoever crashes, *)
(* a second process gets in only after the file of the first was removed   *)
(* under it.                                                               *)
ExclusiveUnlessRobbed == \A p, q \in Holders \ robbed : p = q

(* And that is the doing of a takeover (lock.go:30), of a file judged      *)
(* stale, or of the release by a process that was itself robbed, which     *)
(* removes by name (lock.go:45): who has his own file takes nobody else's. *)
RobbedByTakeover ==
  [][robbed' \ robbed # {} =>
       \E p \in Procs : \/ pc[p] = "remove" /\ pc'[p] = "recreate"
                        \/ pc[p] = "held" /\ pc'[p] = "idle" /\ p \in robbed]_vars

(* What a crashed process leaves behind does not keep the vault locked for *)
(* ever: the file is removed, by a takeover, in the end.                   *)
Orphaned == lockFile # NoFile /\ pc[lockFile.by] # "held"
OrphanRecovered == Orphaned ~> ~Orphaned
=============================================================================
