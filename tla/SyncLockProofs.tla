--------------------------- MODULE SyncLockProofs ---------------------------
(***************************************************************************)
(* For any number of processes, crashes and takeovers, and however long    *)
(* cycles run: who holds the vault lock has his own file, or another       *)
(* process has removed it by name.  What MutualExclusion lacks to be an    *)
(* invariant is that removal, so the invariant has to tell whose file it   *)
(* is that is there (HolderOwnsFile); the other processes in acquireLock   *)
(* may be anywhere.                                                        *)
(***************************************************************************)
EXTENDS SyncLock, TLAPS

HolderOwnsFile ==
  \A p \in Holders \ robbed : lockFile # NoFile /\ lockFile.by = p

RobbedHold == robbed \subseteq Holders

LockInv == TypeOK /\ HolderOwnsFile /\ RobbedHold

(* A file just created is a lock file, of its creator, and not stale.      *)
LEMMA FreshFile ==
  ASSUME NEW p \in Procs
  PROVE  /\ Fresh(p) \in LockFiles
         /\ Fresh(p) # NoFile
         /\ Fresh(p).by = p
         /\ Fresh(p).age = "fresh"
<1>1. Fresh(p) \in LockFiles
  <2>1. [by |-> p, age |-> "fresh"] \in [by : Procs, age : {"fresh", "stale"}]
    OBVIOUS
  <2> QED
    BY <2>1 DEF Fresh, LockFiles
<1> QED
  BY <1>1, NoFileAssumption DEF Fresh, LockFiles, NoFileAssumption

(* Every reachable state is well typed. *)
THEOREM TypeCorrect == Spec => []TypeOK
<1>1. Init => TypeOK
  BY DEF Init, TypeOK, Steps
<1>2. TypeOK /\ [Next]_vars => TypeOK'
  <2> SUFFICES ASSUME TypeOK, [Next]_vars PROVE TypeOK'
    OBVIOUS
  <2> USE CrashAssumption DEF TypeOK, Steps, Goto
  <2>1. CASE Age
    BY <2>1 DEF Age, LockFiles
  <2>2. ASSUME NEW p \in Procs, Attempt(p) PROVE TypeOK'
    <3>1. CASE Create(p)
      BY <3>1, FreshFile DEF Create
    <3>2. CASE Stat(p)
      BY <3>2 DEF Stat
    <3>3. CASE RemoveStale(p)
      BY <3>3 DEF RemoveStale, Victims, Holders
    <3>4. CASE Recreate(p)
      BY <3>4, FreshFile DEF Recreate
    <3>5. CASE Release(p)
      BY <3>5 DEF Release, Victims, Holders
    <3> QED
      BY <2>2, <3>1, <3>2, <3>3, <3>4, <3>5 DEF Attempt
  <2>3. ASSUME NEW p \in Procs, Crash(p) PROVE TypeOK'
    BY <2>3 DEF Crash
  <2>4. CASE UNCHANGED vars
    BY <2>4 DEF vars
  <2> QED
    BY <2>1, <2>2, <2>3, <2>4 DEF Next
<1> QED
  BY <1>1, <1>2, PTL DEF Spec

(* LockInv is kept by every step. *)
LEMMA LockInvStep ==
  ASSUME LockInv, [Next]_vars, TypeOK'
  PROVE  LockInv'
<1> USE NoFileAssumption DEF LockInv, TypeOK, Steps, LockFiles, HolderOwnsFile,
        RobbedHold, Holders, Goto
<1>1. CASE UNCHANGED vars
  BY <1>1 DEF vars
<1>2. CASE Age
  <2>1. lockFile \in LockFiles /\ lockFile' = [lockFile EXCEPT !.age = "stale"]
    BY <1>2 DEF Age
  <2>2. lockFile' \in LockFiles /\ lockFile'.by = lockFile.by
    BY <2>1
  <2>3. lockFile' # NoFile
    BY <2>2 DEF NoFileAssumption
  <2> QED
    BY <1>2, <2>2, <2>3 DEF Age
<1>3. ASSUME NEW p \in Procs, Create(p) PROVE LockInv'
  BY <1>3, FreshFile DEF Create
<1>4. ASSUME NEW p \in Procs, Stat(p) PROVE LockInv'
  BY <1>4 DEF Stat
<1>5. ASSUME NEW p \in Procs, RemoveStale(p) PROVE LockInv'
  BY <1>5 DEF RemoveStale, Victims
<1>6. ASSUME NEW p \in Procs, Recreate(p) PROVE LockInv'
  BY <1>6, FreshFile DEF Recreate
<1>7. ASSUME NEW p \in Procs, Release(p) PROVE LockInv'
  BY <1>7 DEF Release, Victims
<1>8. ASSUME NEW p \in Procs, Crash(p) PROVE LockInv'
  BY <1>8 DEF Crash
<1> QED
  BY <1>1, <1>2, <1>3, <1>4, <1>5, <1>6, <1>7, <1>8 DEF Next, Attempt

(* Who holds the lock has his own file, or was robbed of it.               *)
THEOREM LockTheorem == Spec => []LockInv
<1>1. Init => LockInv
  BY DEF Init, LockInv, TypeOK, Steps, HolderOwnsFile, RobbedHold, Holders
<1>2. LockInv /\ TypeOK' /\ [Next]_vars => LockInv'
  BY LockInvStep
<1> QED
  BY <1>1, <1>2, TypeCorrect, PTL DEF Spec

(* Two cycles hold the vault lock at once only if the file of one of them  *)
(* was removed while it held it, whatever takeovers, crashes and durations *)
(* there are.                                                              *)
THEOREM ExclusionTheorem == Spec => []ExclusiveUnlessRobbed
<1>1. LockInv => ExclusiveUnlessRobbed
  BY DEF LockInv, HolderOwnsFile, ExclusiveUnlessRobbed, Holders
<1> QED
  BY <1>1, LockTheorem, PTL

(* A holder loses his file only to a takeover of a file judged stale, or   *)
(* to the release of a process that has lost its own before: the first one *)
(* to lose it loses it to a takeover.                                      *)
THEOREM RobberyTheorem == Spec => RobbedByTakeover
<1>1. LockInv /\ [Next]_vars =>
        [robbed' \ robbed # {} =>
           \E p \in Procs : \/ pc[p] = "remove" /\ pc'[p] = "recreate"
                            \/ pc[p] = "held" /\ pc'[p] = "idle" /\ p \in robbed]_vars
  <2> SUFFICES ASSUME LockInv, Next, robbed' \ robbed # {}
               PROVE  \E p \in Procs : \/ pc[p] = "remove" /\ pc'[p] = "recreate"
                                       \/ pc[p] = "held" /\ pc'[p] = "idle" /\ p \in robbed
    OBVIOUS
  <2> USE DEF LockInv, TypeOK, Steps, Goto
  <2>1. CASE Age
    BY <2>1 DEF Age
  <2>2. ASSUME NEW p \in Procs, RemoveStale(p)
        PROVE  pc[p] = "remove" /\ pc'[p] = "recreate"
    BY <2>2 DEF RemoveStale, Victims
  <2>3. ASSUME NEW p \in Procs, Release(p)
        PROVE  pc[p] = "held" /\ pc'[p] = "idle" /\ p \in robbed
    BY <2>3 DEF Release, Victims, HolderOwnsFile, Holders
  <2>4. ASSUME NEW p \in Procs, Create(p) \/ Stat(p) \/ Recreate(p) \/ Crash(p)
        PROVE  FALSE
    BY <2>4 DEF Create, Stat, Recreate, Crash
  <2> QED
    BY <2>1, <2>2, <2>3, <2>4 DEF Next, Attempt
<1> QED
  BY <1>1, LockTheorem, PTL DEF Spec, RobbedByTakeover
=============================================================================
