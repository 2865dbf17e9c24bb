--------------------------- MODULE TransfersProofs ---------------------------
(***************************************************************************)
(* For any number of workers, jobs and connections, any breaker, and       *)
(* whatever is refused, breaks, fails or is cancelled: the worker pool     *)
(* keeps the safety part of what the sync cycle relies on (Downloads), and *)
(* a half-open breaker lets no more dials through than it was made for.    *)
(***************************************************************************)
EXTENDS Transfers, FiniteSetTheorems, TLAPS

-----------------------------------------------------------------------------
(* The pool.                                                               *)

Places == {"off", "dialing", "waiting", "ready", "pulling", "exited"}
Positions == [at : Places, attempt : Nat, generation : Nat, job : 0..NumJobs]

(* A breaker, but for the sign of the number of its requests.              *)
Shapes == [state : {"closed", "open", "half-open"}, generation : Nat,
           failures : Nat, requests : Int]

PoolTypes ==
  /\ phase \in {"plan", "pool", "nil", "error"}
  /\ cancelled \in BOOLEAN /\ closed \in BOOLEAN
  /\ fed \in 0..NumJobs /\ jobsCh \in Seq(Jobs) /\ done \subseteq Jobs /\ errMsgs \in Nat
  /\ worker \in [Workers -> Positions]
  /\ breaker \in Shapes

(* How many jobs have been taken out of the channel.                       *)
Taken == fed - Len(jobsCh)

(* Workers work between StartPool and Return, those that were started.     *)
WorkersInPhase ==
  /\ phase = "plan" => /\ \A w \in Workers : worker[w] = Off
                       /\ done = {} /\ errMsgs = 0 /\ fed = 0 /\ ~closed
  /\ phase = "pool" => \A w \in Workers : IF w \in Pool THEN worker[w].at # "off"
                                                       ELSE worker[w] = Off
  /\ phase \in {"nil", "error"} => \A w \in Workers : worker[w].at \in {"off", "exited"}

(* The channel holds the jobs after the taken ones; a taken job is done or *)
(* in the hands of one worker, unless a worker has given up.               *)
Pulls(w, j) == worker[w].at = "pulling" /\ worker[w].job = j

JobsAccounted ==
  /\ Len(jobsCh) <= fed
  /\ \A k \in 1..Len(jobsCh) : jobsCh[k] = Taken + k
  /\ done \subseteq 1..Taken
  /\ \A w \in Workers : worker[w].at = "pulling" => worker[w].job \in (1..Taken) \ done
  /\ \A j \in Jobs : \A v, w \in Workers : Pulls(v, j) /\ Pulls(w, j) => v = w
  /\ errMsgs = 0 => \A j \in 1..Taken : j \in done \/ \E w \in Workers : Pulls(w, j)

(* A worker that has left without an error has seen the end of the jobs.   *)
EndSeen ==
  /\ closed => fed = NumJobs \/ cancelled
  /\ errMsgs = 0 => \A w \in Workers : worker[w].at = "exited" => jobsCh = <<>> /\ closed

PoolInv == PoolTypes /\ WorkersInPhase /\ JobsAccounted /\ EndSeen

(* The pool has workers.                                                   *)
LEMMA PoolOfWorkers == Pool \in SUBSET Workers /\ Pool # {}
<1> DEFINE Size == IF Cardinality(Workers) < NumJobs THEN Cardinality(Workers) ELSE NumJobs
<1>1. IsFiniteSet(Workers) /\ Workers # {} /\ NumJobs \in Nat \ {0}
  BY PoolAssumption DEF PoolAssumption
<1>2. /\ Cardinality(Workers) \in Nat \ {0}
      /\ ExistsBijection(1..Cardinality(Workers), Workers)
  BY <1>1, FS_CardinalityType, FS_EmptySet
<1>3. PICK f \in Bijection(1..Cardinality(Workers), Workers) : TRUE
  BY <1>2 DEF ExistsBijection
<1> DEFINE S == {f[i] : i \in 1..Size}
<1>4. Size \in Nat \ {0} /\ Size <= Cardinality(Workers)
  BY <1>1, <1>2
<1> HIDE DEF Size
<1>5. S \in SUBSET Workers
  BY <1>2, <1>3, <1>4 DEF Bijection, Injection
<1>6. ExistsBijection(1..Size, S)
  <2>1. [i \in 1..Size |-> f[i]] \in Bijection(1..Size, S)
    BY <1>2, <1>3, <1>4 DEF Bijection, Injection, Surjection, IsInjective
  <2> QED
    BY <2>1 DEF ExistsBijection
<1>7. Cardinality(S) = Size
  BY <1>4, <1>6, FS_CountingElements
<1>8. Pool \in SUBSET Workers /\ Cardinality(Pool) = Size
  BY <1>5, <1>7 DEF Pool, Size
<1> QED
  BY <1>4, <1>8, FS_EmptySet

-----------------------------------------------------------------------------
(* What every step of the pool leaves alone.                               *)

(* The protocol on the connections does not touch the pool.                *)
LEMMA ConnectionsApart ==
  ASSUME \/ PlanCalls \/ Others
         \/ \E c \in Conns : OnConn(c) \/ Breaks(c)
  PROVE  UNCHANGED <<pool, gate, phase, cancelled>>
<1>1. CASE PlanCalls
  BY <1>1 DEF PlanCalls
<1>2. CASE Others
  BY <1>2 DEF Others, context
<1>3. CASE \E c \in Conns : OnConn(c) \/ Breaks(c)
  BY <1>3 DEF OnConn, Breaks, context
<1> QED
  BY <1>1, <1>2, <1>3

(* A breaker stays one.                                                    *)
LEMMA BreakerShape ==
  ASSUME NEW b \in Shapes, NEW g \in Nat
  PROVE  /\ {Admitted(b), TimedOut(b), Succeeds(b, g), Failed(b, g), Cancelled(b, g)} \subseteq Shapes
         /\ ClosedBreaker(g) \in Shapes
<1>1. b.requests + 1 \in Int /\ b.requests - 1 \in Int /\ b.generation + 1 \in Nat
      /\ b.failures + 1 \in Nat /\ g + 1 \in Nat
  BY DEF Shapes
<1>2. Admitted(b) \in Shapes
  BY <1>1 DEF Shapes, Admitted
<1>3. TimedOut(b) \in Shapes
  BY <1>1 DEF Shapes, TimedOut, HalfOpenBreaker
<1>4. Succeeds(b, g) \in Shapes
  BY <1>1 DEF Shapes, Succeeds, ClosedBreaker
<1>5. Failed(b, g) \in Shapes
  BY <1>1 DEF Shapes, Failed, OpenBreaker
<1>6. Cancelled(b, g) \in Shapes
  BY <1>1 DEF Shapes, Cancelled
<1>7. ClosedBreaker(g) \in Shapes
  BY DEF Shapes, ClosedBreaker
<1> QED
  BY <1>2, <1>3, <1>4, <1>5, <1>6, <1>7

(* A worker that goes somewhere is the only one.                           *)
LEMMA OneGoes ==
  ASSUME PoolTypes, NEW w \in Workers, NEW to \in Positions, Goes(w, to)
  PROVE  /\ worker' \in [Workers -> Positions]
         /\ worker'[w] = to
         /\ \A v \in Workers \ {w} : worker'[v] = worker[v]
  BY DEF PoolTypes, Goes

(* The positions a worker moves to.                                        *)
LEMMA NextPositions ==
  ASSUME NEW k \in Positions
  PROVE  /\ [k EXCEPT !.at = "exited"] \in Positions
         /\ [k EXCEPT !.at = "ready"] \in Positions
         /\ [k EXCEPT !.at = "dialing", !.attempt = @ + 1] \in Positions
         /\ \A g \in Nat : [k EXCEPT !.at = "waiting", !.generation = g] \in Positions
         /\ \A j \in Jobs : [k EXCEPT !.at = "pulling", !.job = j] \in Positions
<1>1. k.attempt + 1 \in Nat
  BY DEF Positions
<1>2. Jobs \subseteq 0..NumJobs
  BY PoolAssumption DEF Jobs, PoolAssumption
<1> QED
  BY <1>1, <1>2 DEF Positions, Places

(* Nothing has been taken, and nobody works.                               *)
LEMMA PoolInit == Init => PoolInv
<1> SUFFICES ASSUME Init PROVE PoolInv
  OBVIOUS
<1>0. /\ phase = "plan" /\ cancelled = FALSE /\ jobsCh = <<>> /\ fed = 0 /\ closed = FALSE
      /\ worker = [w \in Workers |-> Off] /\ done = {} /\ errMsgs = 0
      /\ breaker = ClosedBreaker(0)
  BY DEF Init
<1> USE <1>0
<1>1. Off \in Positions /\ Off.at = "off"
  BY PoolAssumption DEF Off, At, Positions, Places, PoolAssumption
<1>2. PoolTypes
  <2>1. breaker \in Shapes
    BY DEF Shapes, ClosedBreaker
  <2>2. fed \in 0..NumJobs
    BY PoolAssumption DEF PoolAssumption
  <2>3. jobsCh \in Seq(Jobs)
    OBVIOUS
  <2>4. worker \in [Workers -> Positions]
    BY <1>1
  <2>5. /\ phase \in {"plan", "pool", "nil", "error"} /\ cancelled \in BOOLEAN
        /\ closed \in BOOLEAN /\ done \subseteq Jobs /\ errMsgs \in Nat
    OBVIOUS
  <2> QED
    BY <2>1, <2>2, <2>3, <2>4, <2>5, Zenon DEF PoolTypes
<1>3. WorkersInPhase
  BY DEF WorkersInPhase
<1>4. JobsAccounted
  BY <1>1 DEF JobsAccounted, Taken, Pulls
<1>5. EndSeen
  BY <1>1 DEF EndSeen
<1> QED
  BY <1>2, <1>3, <1>4, <1>5 DEF PoolInv

-----------------------------------------------------------------------------
(* Every step keeps the pool's invariant.                                  *)

(* Workers are at work only in the pool's phase.                           *)
LEMMA AtWork ==
  ASSUME PoolInv, NEW w \in Workers, worker[w].at \notin {"off", "exited"}
  PROVE  phase = "pool"
  BY DEF PoolInv, PoolTypes, WorkersInPhase, Off, At

(* A worker at work stays one of the pool's.                               *)
LEMMA PhaseKept ==
  ASSUME PoolInv, phase = "pool", UNCHANGED phase, NEW w \in Workers,
         worker[w].at # "off", worker'[w].at # "off",
         \A v \in Workers \ {w} : worker'[v] = worker[v]
  PROVE  WorkersInPhase'
<1>1. w \in Pool
  BY DEF PoolInv, WorkersInPhase, Off, At
<1> QED
  BY <1>1, PoolOfWorkers DEF PoolInv, WorkersInPhase

(* The channel loses its first job.                                        *)
LEMMA OneTaken ==
  ASSUME PoolInv, jobsCh # <<>>, jobsCh' = Tail(jobsCh), UNCHANGED fed
  PROVE  /\ jobsCh' \in Seq(Jobs) /\ Len(jobsCh') <= fed'
         /\ Head(jobsCh) = Taken + 1 /\ Head(jobsCh) \in Jobs
         /\ Taken \in Nat /\ Taken' = Taken + 1
         /\ \A k \in 1..Len(jobsCh') : jobsCh'[k] = Taken' + k
<1>1. jobsCh \in Seq(Jobs) /\ fed \in Nat /\ Len(jobsCh) \in Nat /\ Len(jobsCh) <= fed
      /\ \A k \in 1..Len(jobsCh) : jobsCh[k] = Taken + k
  BY PoolAssumption DEF PoolInv, PoolTypes, JobsAccounted, PoolAssumption
<1>2. Len(jobsCh) > 0
  BY <1>1
<1>3. /\ jobsCh' \in Seq(Jobs) /\ Len(jobsCh') = Len(jobsCh) - 1
      /\ \A k \in 1..Len(jobsCh') : jobsCh'[k] = jobsCh[k + 1]
  BY <1>1, <1>2
<1>4. Head(jobsCh) = jobsCh[1] /\ jobsCh[1] \in Jobs
  BY <1>1, <1>2
<1>5. Taken \in Nat /\ Taken' = Taken + 1
  BY <1>1, <1>3 DEF Taken
<1> QED
  BY <1>1, <1>2, <1>3, <1>4, <1>5

(* A worker that neither had a job nor takes one moves on.                 *)
LEMMA MovesOn ==
  ASSUME PoolInv, NEW w \in Workers, NEW to \in Positions, Goes(w, to),
         worker[w].at \notin {"off", "exited", "pulling"}, to.at \notin {"off", "pulling"},
         errMsgs' \in {errMsgs, errMsgs + 1},
         errMsgs' = 0 /\ to.at = "exited" => jobsCh = <<>> /\ closed,
         breaker' \in Shapes,
         UNCHANGED <<phase, cancelled, jobsCh, fed, closed, done>>
  PROVE  PoolInv'
<1>1. /\ phase = "pool" /\ errMsgs \in Nat
      /\ worker' \in [Workers -> Positions] /\ worker'[w] = to
      /\ \A v \in Workers \ {w} : worker'[v] = worker[v]
  BY AtWork, OneGoes DEF PoolInv, PoolTypes
<1>2. errMsgs' \in Nat /\ (errMsgs' = 0 => errMsgs = 0)
  BY <1>1
<1>3. PoolTypes'
  BY <1>1, <1>2 DEF PoolInv, PoolTypes
<1>4. WorkersInPhase'
  BY <1>1, PhaseKept
<1>5. \A v \in Workers : \A j : Pulls(v, j)' <=> Pulls(v, j)
  BY <1>1 DEF Pulls
<1>6. \A v \in Workers : worker'[v].at = "pulling" => worker[v].at = "pulling" /\ worker'[v] = worker[v]
  BY <1>1
<1>7. JobsAccounted'
  BY <1>2, <1>5, <1>6 DEF PoolInv, JobsAccounted, Taken
<1>8. EndSeen'
  BY <1>1, <1>2 DEF PoolInv, EndSeen
<1> QED
  BY <1>3, <1>4, <1>7, <1>8 DEF PoolInv

(* A worker gives up, with its job if it has one.                          *)
LEMMA GivingUp ==
  ASSUME PoolInv, NEW w \in Workers, GivesUp(w), worker[w].at \in {"ready", "pulling"},
         UNCHANGED <<phase, cancelled, fed, closed, done, breaker>>,
         \/ UNCHANGED jobsCh
         \/ jobsCh # <<>> /\ jobsCh' = Tail(jobsCh)
  PROVE  PoolInv'
<1> DEFINE to == [worker[w] EXCEPT !.at = "exited"]
<1>1. /\ phase = "pool" /\ worker[w] \in Positions /\ errMsgs \in Nat
      /\ to \in Positions /\ to.at = "exited" /\ Goes(w, to)
  <2>1. phase = "pool"
    BY AtWork
  <2>2. worker[w] \in Positions /\ errMsgs \in Nat
    BY DEF PoolInv, PoolTypes
  <2>3. to \in Positions /\ to.at = "exited"
    BY <2>2, NextPositions DEF Positions
  <2> QED
    BY <2>1, <2>2, <2>3 DEF GivesUp, Exits
<1>2. /\ worker' \in [Workers -> Positions] /\ worker'[w] = to
      /\ \A v \in Workers \ {w} : worker'[v] = worker[v]
  BY <1>1, OneGoes DEF PoolInv
<1> HIDE DEF to
<1>3. errMsgs' \in Nat /\ errMsgs' # 0
  BY <1>1 DEF GivesUp
<1>4. /\ jobsCh' \in Seq(Jobs) /\ Len(jobsCh') <= fed' /\ Taken \in Int /\ Taken' \in Int
      /\ Taken <= Taken'
      /\ \A k \in 1..Len(jobsCh') : jobsCh'[k] = Taken' + k
  <2>1. CASE UNCHANGED jobsCh
    BY <2>1, PoolAssumption DEF PoolInv, PoolTypes, JobsAccounted, Taken, PoolAssumption
  <2>2. CASE jobsCh # <<>> /\ jobsCh' = Tail(jobsCh)
    BY <2>2, OneTaken
  <2> QED
    BY <2>1, <2>2
<1>5. PoolTypes'
  BY <1>2, <1>3, <1>4 DEF PoolInv, PoolTypes
<1>6. WorkersInPhase'
  BY <1>1, <1>2, PhaseKept
<1>7. \A v \in Workers, j \in Jobs : Pulls(v, j)' => Pulls(v, j)
  BY <1>1, <1>2 DEF Pulls
<1>8. \A v \in Workers : worker'[v].at = "pulling" => worker[v].at = "pulling" /\ worker'[v] = worker[v]
  BY <1>1, <1>2
<1>9. 1..Taken \subseteq 1..Taken'
  BY <1>4
<1>10. JobsAccounted'
  BY <1>3, <1>4, <1>7, <1>8, <1>9 DEF PoolInv, JobsAccounted
<1>11. EndSeen'
  BY <1>3 DEF PoolInv, EndSeen
<1> QED
  BY <1>5, <1>6, <1>10, <1>11 DEF PoolInv

(* A worker takes a job.                                                   *)
LEMMA Taking ==
  ASSUME PoolInv, NEW w \in Workers, Take(w)
  PROVE  PoolInv'
<1> DEFINE j == Head(jobsCh)
           to == [worker[w] EXCEPT !.at = "pulling", !.job = j]
<1>1. /\ phase = "pool" /\ worker[w] \in Positions /\ worker[w].at = "ready"
      /\ jobsCh # <<>> /\ jobsCh' = Tail(jobsCh) /\ Goes(w, to)
      /\ UNCHANGED <<phase, cancelled, fed, closed, done, errMsgs, breaker>>
  BY AtWork DEF Take, context, gate, PoolInv, PoolTypes
<1>2. /\ jobsCh' \in Seq(Jobs) /\ Len(jobsCh') <= fed' /\ j = Taken + 1 /\ j \in Jobs
      /\ Taken \in Nat /\ Taken' = Taken + 1
      /\ \A k \in 1..Len(jobsCh') : jobsCh'[k] = Taken' + k
  BY <1>1, OneTaken
<1> HIDE DEF j
<1>3. to \in Positions /\ to.at = "pulling" /\ to.job = j
  BY <1>1, <1>2, NextPositions DEF Positions
<1>4. /\ worker' \in [Workers -> Positions] /\ worker'[w] = to
      /\ \A v \in Workers \ {w} : worker'[v] = worker[v]
  BY <1>1, <1>3, OneGoes DEF PoolInv
<1> HIDE DEF to
<1>5. PoolTypes'
  BY <1>1, <1>2, <1>4 DEF PoolInv, PoolTypes
<1>6. WorkersInPhase'
  BY <1>1, <1>3, <1>4, PhaseKept
<1>7. \A v \in Workers, i \in Jobs : Pulls(v, i)' <=> Pulls(v, i) \/ (v = w /\ i = j)
  BY <1>1, <1>3, <1>4 DEF Pulls
<1>8. done \subseteq 1..Taken /\ j \notin done /\ j \notin 1..Taken
      /\ \A v \in Workers : worker[v].at = "pulling" => worker[v].job \in (1..Taken) \ done
  BY <1>2 DEF PoolInv, JobsAccounted
<1>9. \A v \in Workers : worker'[v].at = "pulling" => worker'[v].job \in (1..Taken') \ done'
  BY <1>1, <1>2, <1>3, <1>4, <1>8
<1>10. \A v \in Workers : ~Pulls(v, j)
  BY <1>8 DEF Pulls
<1>11. \A i \in Jobs : \A u, v \in Workers : Pulls(u, i)' /\ Pulls(v, i)' => u = v
  BY <1>7, <1>10 DEF PoolInv, JobsAccounted
<1>12. errMsgs' = 0 => \A i \in 1..Taken' : i \in done' \/ \E v \in Workers : Pulls(v, i)'
  <2> SUFFICES ASSUME errMsgs' = 0, NEW i \in 1..Taken'
               PROVE  i \in done' \/ \E v \in Workers : Pulls(v, i)'
    OBVIOUS
  <2>1. CASE i = j
    BY <1>2, <1>7, <2>1
  <2>2. CASE i \in 1..Taken
    <3>1. i \in done \/ \E v \in Workers : Pulls(v, i)
      BY <1>1, <2>2 DEF PoolInv, JobsAccounted
    <3>2. \A v \in Workers : Pulls(v, i) => Pulls(v, i)'
      BY <1>1, <1>4 DEF Pulls
    <3> QED
      BY <1>1, <3>1, <3>2
  <2> QED
    BY <1>2, <2>1, <2>2
<1>13. JobsAccounted'
  <2>1. done' \subseteq 1..Taken'
    BY <1>1, <1>2, <1>8
  <2> QED
    BY <1>2, <1>9, <1>11, <1>12, <2>1 DEF JobsAccounted
<1>14. EndSeen'
  BY <1>1, <1>3, <1>4 DEF PoolInv, EndSeen
<1> QED
  BY <1>5, <1>6, <1>13, <1>14 DEF PoolInv

(* A downloaded file is written: its job is done.                          *)
LEMMA Storing ==
  ASSUME PoolInv, NEW w \in Workers, Store(w), UNCHANGED errMsgs
  PROVE  /\ PoolInv'
         /\ worker[w].job \in Jobs \ done /\ done' = done \cup {worker[w].job}
<1> DEFINE j == worker[w].job
           to == [worker[w] EXCEPT !.at = "ready"]
<1>1. /\ phase = "pool" /\ worker[w] \in Positions /\ worker[w].at = "pulling"
      /\ done' = done \cup {j} /\ Goes(w, to) /\ errMsgs \in Nat
      /\ UNCHANGED <<phase, cancelled, jobsCh, fed, closed, errMsgs, breaker>>
  <2>1. worker[w].at = "pulling"
    BY DEF Store, Pulled
  <2>2. phase = "pool" /\ errMsgs \in Nat /\ worker[w] \in Positions
    BY <2>1, AtWork DEF PoolInv, PoolTypes
  <2>3. ~GivesUp(w)
    BY <2>2 DEF GivesUp
  <2> QED
    BY <2>1, <2>2, <2>3 DEF Store, context, gate
<1>2. to \in Positions /\ to.at = "ready"
  BY <1>1, NextPositions DEF Positions
<1>3. /\ worker' \in [Workers -> Positions] /\ worker'[w] = to
      /\ \A v \in Workers \ {w} : worker'[v] = worker[v]
  BY <1>1, <1>2, OneGoes DEF PoolInv
<1> HIDE DEF to
<1>4. Taken \in Nat /\ Taken <= NumJobs /\ UNCHANGED Taken
  BY <1>1, PoolAssumption DEF PoolInv, PoolTypes, JobsAccounted, Taken, PoolAssumption
<1>5. j \in (1..Taken) \ done /\ j \in Jobs
  <2>1. j \in (1..Taken) \ done
    BY <1>1 DEF PoolInv, JobsAccounted
  <2> QED
    BY <1>4, <2>1, PoolAssumption DEF Jobs, PoolAssumption
<1>6. PoolTypes'
  BY <1>1, <1>3, <1>5 DEF PoolInv, PoolTypes
<1>7. WorkersInPhase'
  BY <1>1, <1>2, <1>3, PhaseKept
<1>8. \A v \in Workers, i \in Jobs : Pulls(v, i)' <=> Pulls(v, i) /\ v # w
  BY <1>1, <1>2, <1>3 DEF Pulls
<1>9. \A v \in Workers : Pulls(v, j) => v = w
  <2>1. Pulls(w, j)
    BY <1>1 DEF Pulls
  <2> QED
    BY <1>5, <2>1 DEF PoolInv, JobsAccounted
<1>10. \A v \in Workers : worker'[v].at = "pulling" =>
          /\ worker'[v] = worker[v] /\ v # w /\ worker[v].job # j
  <2> SUFFICES ASSUME NEW v \in Workers, worker'[v].at = "pulling"
               PROVE  worker'[v] = worker[v] /\ v # w /\ worker[v].job # j
    OBVIOUS
  <2>1. v # w /\ worker'[v] = worker[v]
    BY <1>2, <1>3
  <2> QED
    BY <1>9, <2>1 DEF Pulls
<1>11. \A v \in Workers : worker'[v].at = "pulling" => worker'[v].job \in (1..Taken') \ done'
  BY <1>1, <1>4, <1>10 DEF PoolInv, JobsAccounted
<1>12. errMsgs' = 0 => \A i \in 1..Taken' : i \in done' \/ \E v \in Workers : Pulls(v, i)'
  <2> SUFFICES ASSUME errMsgs' = 0, NEW i \in 1..Taken
               PROVE  i \in done' \/ \E v \in Workers : Pulls(v, i)'
    BY <1>4
  <2>1. i \in Jobs
    BY <1>4, PoolAssumption DEF Jobs, PoolAssumption
  <2>2. i \in done \/ \E v \in Workers : Pulls(v, i)
    BY <1>1 DEF PoolInv, JobsAccounted
  <2>3. CASE i = j
    BY <1>1, <2>3
  <2>4. CASE i # j
    <3>1. ~Pulls(w, i)
      BY <2>4 DEF Pulls
    <3> QED
      BY <1>1, <1>8, <2>1, <2>2, <3>1
  <2> QED
    BY <2>3, <2>4
<1>13. JobsAccounted'
  <2>1. /\ Len(jobsCh') <= fed' /\ (\A k \in 1..Len(jobsCh') : jobsCh'[k] = Taken' + k)
        /\ done' \subseteq 1..Taken'
    BY <1>1, <1>4, <1>5 DEF PoolInv, JobsAccounted
  <2>2. \A i \in Jobs : \A u, v \in Workers : Pulls(u, i)' /\ Pulls(v, i)' => u = v
    BY <1>8 DEF PoolInv, JobsAccounted
  <2> QED
    BY <1>11, <1>12, <2>1, <2>2 DEF JobsAccounted
<1>14. EndSeen'
  BY <1>1, <1>2, <1>3 DEF PoolInv, EndSeen
<1> QED
  BY <1>1, <1>5, <1>6, <1>7, <1>13, <1>14 DEF PoolInv

(* executeDownloadsParallel puts the next job into the channel.            *)
LEMMA Feeding ==
  ASSUME PoolInv, Feed
  PROVE  PoolInv'
<1>1. /\ phase = "pool" /\ fed' = fed + 1 /\ jobsCh' = Append(jobsCh, fed')
      /\ fed < NumJobs /\ ~closed /\ closed' = (fed' = NumJobs)
      /\ UNCHANGED <<phase, cancelled, worker, done, errMsgs, breaker>>
  BY DEF Feed, context, gate
<1>2. /\ fed \in Nat /\ NumJobs \in Nat /\ jobsCh \in Seq(Jobs) /\ Len(jobsCh) <= fed
      /\ \A k \in 1..Len(jobsCh) : jobsCh[k] = Taken + k
  BY PoolAssumption DEF PoolInv, PoolTypes, JobsAccounted, PoolAssumption
<1>3. fed' \in Jobs /\ fed' \in 0..NumJobs
  BY <1>1, <1>2 DEF Jobs
<1>4. /\ jobsCh' \in Seq(Jobs) /\ Len(jobsCh') = Len(jobsCh) + 1
      /\ \A k \in 1..Len(jobsCh) : jobsCh'[k] = jobsCh[k]
      /\ jobsCh'[Len(jobsCh) + 1] = fed'
  BY <1>1, <1>2, <1>3
<1>5. UNCHANGED Taken /\ Len(jobsCh') <= fed'
  BY <1>1, <1>2, <1>4 DEF Taken
<1>6. \A k \in 1..Len(jobsCh') : jobsCh'[k] = Taken' + k
  <2> SUFFICES ASSUME NEW k \in 1..Len(jobsCh') PROVE jobsCh'[k] = Taken + k
    BY <1>5
  <2>1. CASE k \in 1..Len(jobsCh)
    BY <1>2, <1>4, <2>1
  <2>2. CASE k = Len(jobsCh) + 1
    BY <1>1, <1>2, <1>4, <2>2 DEF Taken
  <2> QED
    BY <1>2, <1>4, <2>1, <2>2
<1>7. PoolTypes'
  BY <1>1, <1>3, <1>4 DEF PoolInv, PoolTypes
<1>8. WorkersInPhase'
  BY <1>1 DEF PoolInv, WorkersInPhase
<1>9. \A v \in Workers : \A i : Pulls(v, i)' <=> Pulls(v, i)
  BY <1>1 DEF Pulls
<1>10. JobsAccounted'
  BY <1>1, <1>5, <1>6, <1>9 DEF PoolInv, JobsAccounted
<1>11. EndSeen'
  <2>1. errMsgs = 0 => \A w \in Workers : worker[w].at # "exited"
    BY <1>1 DEF PoolInv, EndSeen
  <2> QED
    BY <1>1, <2>1 DEF PoolInv, EndSeen
<1> QED
  BY <1>7, <1>8, <1>10, <1>11 DEF PoolInv

(* The pool starts.                                                        *)
LEMMA Starting ==
  ASSUME PoolInv, StartPool
  PROVE  PoolInv' /\ Started'
<1> DEFINE start == At("dialing", 1, 0, 0)
<1>1. /\ phase = "plan" /\ phase' = "pool"
      /\ worker' = [w \in Workers |-> IF w \in Pool THEN start ELSE Off]
      /\ UNCHANGED <<cancelled, jobsCh, fed, closed, done, errMsgs, breaker>>
  BY DEF StartPool, gate
<1>2. /\ start \in Positions /\ start.at = "dialing"
      /\ Off \in Positions /\ Off.at = "off" /\ start # Off
  BY PoolAssumption DEF Off, At, Positions, Places, PoolAssumption
<1> HIDE DEF start
<1>3. /\ worker' \in [Workers -> Positions]
      /\ \A w \in Workers : worker'[w].at \in {"off", "dialing"} /\ worker[w] = Off
      /\ \A w \in Pool : worker'[w].at = "dialing"
  BY <1>1, <1>2, PoolOfWorkers DEF PoolInv, WorkersInPhase
<1>4. PoolTypes'
  BY <1>1, <1>3 DEF PoolInv, PoolTypes
<1>5. WorkersInPhase'
  BY <1>1, <1>3 DEF WorkersInPhase
<1>6. \A w \in Workers : \A i : ~Pulls(w, i) /\ ~Pulls(w, i)'
  BY <1>2, <1>3 DEF Pulls
<1>7. JobsAccounted'
  BY <1>1, <1>3, <1>6 DEF PoolInv, JobsAccounted, Taken
<1>8. EndSeen'
  BY <1>1, <1>3 DEF PoolInv, EndSeen
<1>9. Started'
  BY <1>1, <1>2, PoolOfWorkers DEF Started
<1> QED
  BY <1>4, <1>5, <1>7, <1>8, <1>9 DEF PoolInv

(* The phase ends, with the plan or with the pool.                         *)
LEMMA Returning ==
  ASSUME PoolInv, PlanFails \/ PlanDone \/ Return
  PROVE  PoolInv'
<1>1. /\ phase' \in {"nil", "error"} /\ phase \in {"plan", "pool"}
      /\ phase = "pool" => \A w \in Pool : worker[w].at = "exited"
      /\ UNCHANGED <<pool, cancelled, breaker>>
  BY DEF PlanFails, PlanDone, Return, Outcome, gate
<1>2. UNCHANGED <<jobsCh, fed, closed, worker, done, errMsgs>>
  BY <1>1 DEF pool
<1>3. PoolTypes' /\ JobsAccounted' /\ EndSeen'
  BY <1>1, <1>2 DEF PoolInv, PoolTypes, JobsAccounted, EndSeen, Taken, Pulls
<1>4. \A w \in Workers : worker[w].at \in {"off", "exited"}
  BY <1>1 DEF PoolInv, WorkersInPhase, Off, At
<1>5. WorkersInPhase'
  BY <1>1, <1>2, <1>4 DEF WorkersInPhase
<1> QED
  BY <1>3, <1>5 DEF PoolInv

(* A worker that has its job fails.                                        *)
LEMMA StoringFails ==
  ASSUME PoolInv, NEW w \in Workers, Store(w), ~UNCHANGED errMsgs
  PROVE  PoolInv' /\ errMsgs' = errMsgs + 1 /\ UNCHANGED done
<1>1. /\ GivesUp(w) /\ UNCHANGED done /\ worker[w].at = "pulling"
      /\ UNCHANGED <<phase, cancelled, jobsCh, fed, closed, breaker>>
  BY DEF Store, Pulled, context, gate
<1> QED
  BY <1>1, GivingUp DEF GivesUp

(* The steps of dialWorker.                                                *)
LEMMA Dialing ==
  ASSUME PoolInv, NEW w \in Workers, Dial(w) \/ DialSucceeds(w) \/ DialFails(w)
  PROVE  PoolInv' /\ UNCHANGED done /\ errMsgs' \in {errMsgs, errMsgs + 1}
<1> DEFINE k == worker[w]
<1>1. /\ k \in Positions /\ k.at \in {"dialing", "waiting"} /\ k.generation \in Nat
      /\ breaker \in Shapes /\ breaker.generation \in Nat /\ errMsgs \in Nat
  BY DEF PoolInv, PoolTypes, Positions, Shapes, Dial, DialSucceeds, DialFails
<1>2. /\ [k EXCEPT !.at = "exited"] \in Positions /\ [k EXCEPT !.at = "exited"].at = "exited"
      /\ [k EXCEPT !.at = "ready"] \in Positions /\ [k EXCEPT !.at = "ready"].at = "ready"
      /\ [k EXCEPT !.at = "dialing", !.attempt = @ + 1] \in Positions
      /\ [k EXCEPT !.at = "dialing", !.attempt = @ + 1].at = "dialing"
      /\ \A g \in Nat : /\ [k EXCEPT !.at = "waiting", !.generation = g] \in Positions
                        /\ [k EXCEPT !.at = "waiting", !.generation = g].at = "waiting"
  BY <1>1, NextPositions DEF Positions
<1>3. /\ UNCHANGED <<phase, cancelled, jobsCh, fed, closed, done>>
      /\ errMsgs' \in {errMsgs, errMsgs + 1} /\ breaker' \in Shapes
  BY <1>1, BreakerShape DEF Dial, DialSucceeds, DialFails, context, GivesUp
<1>4. PICK to \in Positions : /\ Goes(w, to) /\ to.at \notin {"off", "pulling"}
                              /\ to.at = "exited" => errMsgs' = errMsgs + 1
  <2>1. CASE Dial(w)
    BY <1>1, <1>2, <2>1 DEF Dial, GivesUp, Exits
  <2>2. CASE DialSucceeds(w)
    BY <1>1, <1>2, <2>2 DEF DialSucceeds
  <2>3. CASE DialFails(w)
    BY <1>1, <1>2, <2>3 DEF DialFails, GivesUp, Exits
  <2> QED
    BY <2>1, <2>2, <2>3
<1>5. errMsgs' = 0 => to.at # "exited"
  BY <1>1, <1>4
<1> QED
  BY <1>1, <1>3, <1>4, <1>5, MovesOn

(* A worker leaves.                                                        *)
LEMMA Exiting ==
  ASSUME PoolInv, NEW w \in Workers, Exit(w)
  PROVE  PoolInv' /\ UNCHANGED <<done, errMsgs>>
<1> DEFINE to == [worker[w] EXCEPT !.at = "exited"]
<1>1. /\ worker[w] \in Positions /\ worker[w].at = "ready" /\ jobsCh = <<>> /\ closed
      /\ Goes(w, to) /\ breaker \in Shapes
      /\ UNCHANGED <<phase, cancelled, jobsCh, fed, closed, done, errMsgs, breaker>>
  BY DEF PoolInv, PoolTypes, Exit, Exits, context, gate
<1>2. to \in Positions /\ to.at = "exited"
  BY <1>1, NextPositions DEF Positions
<1> HIDE DEF to
<1> QED
  BY <1>1, <1>2, MovesOn

(* A step of a worker: a job of its own is done, or a worker gives up, or  *)
(* neither.                                                                *)
LEMMA WorkerSteps ==
  ASSUME PoolInv, NEW w \in Workers, WorkerStep(w)
  PROVE  /\ PoolInv' /\ phase = "pool"
         /\ UNCHANGED <<phase, cancelled>>
         /\ \/ UNCHANGED done /\ errMsgs' \in {errMsgs, errMsgs + 1}
            \/ UNCHANGED errMsgs /\ \E j \in Jobs \ done : done' = done \cup {j}
<1>1. phase = "pool" /\ UNCHANGED <<phase, cancelled>>
  <2>1. worker[w].at \notin {"off", "exited"}
    BY DEF WorkerStep, Dial, DialSucceeds, DialFails, Take, TakeInVain, Exit, PullFails, Store,
           Pulled
  <2>2. UNCHANGED context
    BY DEF WorkerStep, Dial, DialSucceeds, DialFails, Take, TakeInVain, Exit, PullFails, Store
  <2> QED
    BY <2>1, <2>2, AtWork DEF context
<1>2. CASE Dial(w) \/ DialSucceeds(w) \/ DialFails(w)
  BY <1>1, <1>2, Dialing
<1>3. CASE Take(w)
  BY <1>1, <1>3, Taking DEF Take
<1>4. CASE TakeInVain(w)
  <2>1. /\ GivesUp(w) /\ worker[w].at = "ready" /\ jobsCh # <<>> /\ jobsCh' = Tail(jobsCh)
        /\ UNCHANGED <<phase, cancelled, fed, closed, done, breaker>>
    BY <1>4 DEF TakeInVain, context, gate
  <2> QED
    BY <1>1, <2>1, GivingUp DEF GivesUp
<1>5. CASE Exit(w)
  BY <1>1, <1>5, Exiting
<1>6. CASE PullFails(w)
  <2>1. /\ GivesUp(w) /\ worker[w].at = "pulling"
        /\ UNCHANGED <<phase, cancelled, jobsCh, fed, closed, done, breaker>>
    BY <1>6 DEF PullFails, Pulled, context, gate
  <2> QED
    BY <1>1, <2>1, GivingUp DEF GivesUp
<1>7. CASE Store(w)
  <2>1. CASE UNCHANGED errMsgs
    BY <1>1, <1>7, <2>1, Storing
  <2>2. CASE ~UNCHANGED errMsgs
    BY <1>1, <1>7, <2>2, StoringFails
  <2> QED
    BY <2>1, <2>2
<1> QED
  BY <1>2, <1>3, <1>4, <1>5, <1>6, <1>7 DEF WorkerStep

(* Steps that the pool's invariant does not speak of.                      *)
LEMMA StandingStill ==
  ASSUME PoolInv, UNCHANGED <<phase, jobsCh, fed, closed, worker, done, errMsgs>>,
         cancelled' \in BOOLEAN, cancelled => cancelled', closed' => fed' = NumJobs \/ cancelled',
         breaker' \in Shapes
  PROVE  PoolInv'
<1>1. PoolTypes' /\ WorkersInPhase'
  BY DEF PoolInv, PoolTypes, WorkersInPhase
<1>2. JobsAccounted'
  BY DEF PoolInv, JobsAccounted, Taken, Pulls
<1>3. EndSeen'
  BY DEF PoolInv, EndSeen
<1> QED
  BY <1>1, <1>2, <1>3 DEF PoolInv

(* PoolInv is an invariant.                                                *)
LEMMA PoolStep ==
  ASSUME PoolInv, [Next]_vars
  PROVE  PoolInv'
<1> USE DEF context, gate, pool
<1>0. /\ cancelled \in BOOLEAN /\ breaker \in Shapes
      /\ closed => fed = NumJobs \/ cancelled
  BY DEF PoolInv, PoolTypes, EndSeen
<1>1. CASE UNCHANGED vars
  BY <1>0, <1>1, StandingStill DEF vars
<1>2. CASE PlanCalls \/ Others \/ \E c \in Conns : OnConn(c) \/ Breaks(c)
  <2>1. UNCHANGED <<pool, gate, phase, cancelled>>
    BY <1>2, ConnectionsApart
  <2> QED
    BY <1>0, <2>1, StandingStill
<1>3. CASE PlanFails \/ PlanDone \/ Return
  BY <1>3, Returning
<1>4. CASE StartPool
  BY <1>4, Starting
<1>5. CASE Feed
  BY <1>5, Feeding
<1>6. CASE StopFeeding
  <2>1. /\ phase = "pool" /\ ~closed /\ cancelled /\ closed'
        /\ UNCHANGED <<phase, cancelled, jobsCh, fed, worker, done, errMsgs, breaker>>
    BY <1>6 DEF StopFeeding
  <2>2. PoolTypes' /\ WorkersInPhase' /\ JobsAccounted'
    BY <1>6, <2>1 DEF PoolInv, PoolTypes, WorkersInPhase, JobsAccounted, Taken, Pulls, StopFeeding
  <2>3. EndSeen'
    BY <2>1 DEF PoolInv, EndSeen
  <2> QED
    BY <2>2, <2>3 DEF PoolInv
<1>7. CASE Cancel
  BY <1>0, <1>7, StandingStill DEF Cancel
<1>8. CASE BreakerTimesOut
  <2>1. breaker' \in Shapes
    BY <1>0, <1>8, BreakerShape DEF BreakerTimesOut, Shapes
  <2> QED
    BY <1>0, <1>8, <2>1, StandingStill DEF BreakerTimesOut
<1>9. CASE \E w \in Workers : WorkerStep(w)
  BY <1>9, WorkerSteps
<1> QED
  BY <1>1, <1>2, <1>3, <1>4, <1>5, <1>6, <1>7, <1>8, <1>9 DEF Next, MainStep

(* Every job is accounted for: it waits in the channel, is in the hands of *)
(* one worker or done, unless a worker gave up (executeDownloadsParallel   *)
(* and downloadWorker).                                                    *)
THEOREM PoolTheorem == Spec => []PoolInv
<1>1. Init => PoolInv
  BY PoolInit
<1>2. PoolInv /\ [Next]_vars => PoolInv'
  BY PoolStep
<1> QED
  BY <1>1, <1>2, PTL DEF Spec

-----------------------------------------------------------------------------
(* The pool keeps its promise.                                             *)

(* The pool has been asked once the plan is over, and not before.          *)
LEMMA StartedInPool ==
  ASSUME PoolInv
  PROVE  /\ phase = "plan" => ~Started /\ errMsgs = 0
         /\ phase = "pool" => Started
<1>1. phase = "plan" => ~Started /\ errMsgs = 0
  BY DEF PoolInv, WorkersInPhase, Started
<1>2. ASSUME phase = "pool" PROVE Started
  <2>1. PICK w \in Pool : w \in Workers /\ worker[w].at # "off"
    BY <1>2, PoolOfWorkers DEF PoolInv, WorkersInPhase
  <2> QED
    BY <2>1 DEF Started, Off, At
<1> QED
  BY <1>1, <1>2

(* When all workers have left without an error everything fed was done.    *)
LEMMA AllIsDone ==
  ASSUME PoolInv, phase = "pool", errMsgs = 0, fed = NumJobs,
         \A w \in Pool : worker[w].at = "exited"
  PROVE  done = Jobs
<1>1. PICK w \in Pool : w \in Workers /\ worker[w].at = "exited"
  BY PoolOfWorkers
<1>2. jobsCh = <<>>
  BY <1>1 DEF PoolInv, EndSeen
<1>3. Taken = NumJobs
  BY <1>2, PoolAssumption DEF Taken, PoolAssumption
<1>4. \A v \in Workers, j \in Jobs : ~Pulls(v, j)
  BY DEF PoolInv, WorkersInPhase, Pulls, Off, At
<1> QED
  BY <1>3, <1>4 DEF PoolInv, PoolTypes, JobsAccounted, Jobs

(* The answer of the pool is one that it may give.                         *)
LEMMA AnswerIsTrue ==
  ASSUME PoolInv, Return
  PROVE  Promise!Answer
<1>1. /\ phase = "pool" /\ closed /\ phase' = Outcome
      /\ UNCHANGED <<cancelled, pool>>
      /\ \A w \in Pool : worker[w].at = "exited"
      /\ errMsgs \in Nat /\ fed \in 0..NumJobs /\ NumJobs \in Nat \ {0}
  BY PoolAssumption DEF Return, PoolInv, PoolTypes, PoolAssumption
<1>2. UNCHANGED <<jobsCh, fed, worker, done, errMsgs>>
  BY <1>1 DEF pool
<1>3. Started /\ Started'
  BY <1>1, <1>2, StartedInPool DEF Started
<1>4. /\ Said = "none" /\ Said' = Outcome
      /\ Outcome \in {"nil", "error"}
      /\ UNCHANGED Trouble
      /\ Trouble = IF cancelled THEN "cancelled" ELSE IF errMsgs > 0 THEN "worker" ELSE "none"
  BY <1>1, <1>2, <1>3 DEF Said, Trouble, Outcome
<1>5. CASE Outcome = "nil"
  <2>1. fed = NumJobs /\ (errMsgs = 0 \/ done # {})
    BY <1>1, <1>5 DEF Outcome
  <2>2. done = Jobs \/ (Trouble # "none" /\ done # {})
    BY <1>1, <1>4, <2>1, AllIsDone
  <2> QED
    BY <1>2, <1>4, <1>5, <2>2 DEF Promise!Answer
<1>6. CASE Outcome = "error"
  <2>1. CASE fed < NumJobs
    <3>1. cancelled
      BY <1>1, <2>1 DEF PoolInv, EndSeen
    <3> QED
      BY <1>2, <1>4, <1>6, <3>1 DEF Promise!Answer
  <2>2. CASE errMsgs > 0 /\ done = {}
    BY <1>2, <1>4, <1>6, <2>2 DEF Promise!Answer
  <2> QED
    BY <1>6, <2>1, <2>2 DEF Outcome
<1> QED
  BY <1>4, <1>5, <1>6

(* Every step is one of Downloads, or changes nothing there.               *)
LEMMA PromiseStep ==
  ASSUME PoolInv, [Next]_vars
  PROVE  [Promise!Next]_(Promise!downloadVars)
<1> USE DEF context, gate, pool, Promise!downloadVars
<1>0. PoolInv'
  BY PoolStep
<1> DEFINE Same == UNCHANGED <<done, Trouble, Said>>
<1>1. ASSUME UNCHANGED <<phase, worker, done, errMsgs, cancelled>> PROVE Same
  BY <1>1 DEF Trouble, Said, Started
<1>2. CASE UNCHANGED vars
  BY <1>1, <1>2 DEF vars
<1>3. CASE \/ PlanCalls \/ Others \/ BreakerTimesOut
           \/ \E c \in Conns : OnConn(c) \/ Breaks(c)
  <2>1. UNCHANGED <<pool, phase, cancelled>>
    BY <1>3, ConnectionsApart DEF BreakerTimesOut
  <2> QED
    BY <1>1, <2>1
<1>4. CASE Feed \/ StopFeeding
  BY <1>1, <1>4 DEF Feed, StopFeeding
<1>5. CASE PlanFails \/ PlanDone
  <2>1. /\ phase = "plan" /\ UNCHANGED <<worker, done>>
    BY <1>5 DEF PlanFails, PlanDone
  <2>2. ~Started /\ ~Started'
    BY <2>1, StartedInPool DEF Started
  <2> QED
    BY <2>1, <2>2 DEF Trouble, Said
<1>6. CASE StartPool
  <2>1. phase = "plan" /\ phase' = "pool" /\ UNCHANGED <<cancelled, errMsgs, done>>
    BY <1>6 DEF StartPool
  <2>2. ~Started /\ Started' /\ errMsgs = 0
    BY <2>1, <1>6, StartedInPool, Starting
  <2>3. Said = "unasked" /\ Said' = "none" /\ Trouble' \in {"none", "cancelled"}
    BY <2>1, <2>2 DEF Said, Trouble
  <2> QED
    BY <2>1, <2>3 DEF Promise!Next, Promise!Ask
<1>7. CASE Return
  BY <1>7, AnswerIsTrue DEF Promise!Next, Promise!Works
<1>8. CASE Cancel
  <2>1. /\ ~cancelled /\ cancelled' /\ phase \in {"plan", "pool"}
        /\ UNCHANGED <<phase, worker, done, errMsgs>>
    BY <1>8 DEF Cancel
  <2>2. UNCHANGED Started
    BY <2>1 DEF Started
  <2>3. CASE phase = "plan"
    BY <2>1, <2>2, <2>3, StartedInPool DEF Trouble, Said
  <2>4. CASE phase = "pool"
    <3>1. Started /\ Started'
      BY <2>2, <2>4, StartedInPool
    <3>2. /\ Said = "none" /\ Said' = "none"
          /\ Trouble # "cancelled" /\ Trouble' = "cancelled"
      BY <2>1, <2>4, <3>1 DEF Trouble, Said
    <3> QED
      BY <2>1, <3>2 DEF Promise!Next, Promise!Cancel
  <2> QED
    BY <2>1, <2>3, <2>4
<1>9. ASSUME NEW w \in Workers, WorkerStep(w) PROVE Promise!Next \/ Same
  <2>1. /\ phase = "pool" /\ phase' = "pool" /\ UNCHANGED cancelled
        /\ \/ UNCHANGED done /\ errMsgs' \in {errMsgs, errMsgs + 1}
           \/ UNCHANGED errMsgs /\ \E j \in Jobs \ done : done' = done \cup {j}
        /\ errMsgs \in Nat
    BY <1>9, WorkerSteps DEF PoolInv, PoolTypes
  <2>2. Started /\ Started'
    <3>1. PICK v \in Pool : v \in Workers /\ worker'[v].at # "off"
      BY <1>0, <2>1, PoolOfWorkers DEF PoolInv, WorkersInPhase
    <3> QED
      BY <2>1, <3>1, StartedInPool DEF Started, Off, At
  <2>3. Said = "none" /\ Said' = "none"
    BY <2>1, <2>2 DEF Said
  <2>4. CASE UNCHANGED errMsgs /\ \E j \in Jobs \ done : done' = done \cup {j}
    <3>1. UNCHANGED Trouble
      BY <2>1, <2>2, <2>4 DEF Trouble
    <3> QED
      BY <2>3, <2>4, <3>1 DEF Promise!Next, Promise!Works, Promise!Do
  <2>5. CASE UNCHANGED done /\ errMsgs' = errMsgs
    BY <2>1, <2>2, <2>3, <2>5 DEF Trouble
  <2>6. CASE UNCHANGED done /\ errMsgs' = errMsgs + 1
    <3>1. UNCHANGED Trouble \/ (Trouble = "none" /\ Trouble' = "worker")
      BY <2>1, <2>2, <2>6 DEF Trouble
    <3> QED
      BY <2>3, <2>6, <3>1 DEF Promise!Next, Promise!GiveUp
  <2> QED
    BY <2>1, <2>4, <2>5, <2>6
<1> QED
  BY <1>2, <1>3, <1>4, <1>5, <1>6, <1>7, <1>8, <1>9 DEF Next, MainStep

(* The worker pool implements Downloads (but for its liveness): a job is   *)
(* done at most once, an error means that nothing was done or the sync was *)
(* cancelled, and success that all was done or a worker gave up (what      *)
(* executeDownloadsParallel returns).                                      *)
THEOREM PoolImplementsDownloads ==
  Spec => Promise!Init /\ [][Promise!Next]_(Promise!downloadVars)
<1>1. Init => Promise!Init
  <2> SUFFICES ASSUME Init PROVE Promise!Init
    OBVIOUS
  <2>1. phase = "plan" /\ done = {}
    BY DEF Init
  <2>2. ~Started
    BY <2>1, PoolInit, StartedInPool
  <2> QED
    BY <2>1, <2>2 DEF Promise!Init, Trouble, Said
<1>2. PoolInv /\ [Next]_vars => [Promise!Next]_(Promise!downloadVars)
  BY PromiseStep
<1> QED
  BY <1>1, <1>2, PoolTheorem, PTL DEF Spec

-----------------------------------------------------------------------------
(* The breaker.                                                            *)

Waiting(g) == {w \in Workers : worker[w].at = "waiting" /\ worker[w].generation = g}

(* No dial is of a generation yet to come, and the breaker has counted     *)
(* those of its own.                                                       *)
BreakerInv ==
  /\ \A w \in Workers : worker[w].generation <= breaker.generation
  /\ breaker.state = "half-open" =>
       /\ Cardinality(Waiting(breaker.generation)) <= breaker.requests
       /\ breaker.requests <= MaxRequests

(* The dials that wait for their answer can be counted.                    *)
LEMMA WaitingFinite ==
  ASSUME NEW g
  PROVE  IsFiniteSet(Waiting(g)) /\ Cardinality(Waiting(g)) \in Nat
<1>1. IsFiniteSet(Workers) /\ Waiting(g) \in SUBSET Workers
  BY PoolAssumption DEF PoolAssumption, Waiting
<1>2. IsFiniteSet(Waiting(g))
  BY <1>1, FS_Subset
<1> QED
  BY <1>2, FS_CardinalityType

(* What the breaker and a worker are.                                      *)
LEMMA BreakerTypes ==
  ASSUME PoolInv, NEW w \in Workers
  PROVE  /\ worker[w] \in Positions /\ worker[w].generation \in Nat
         /\ breaker \in Shapes /\ breaker.generation \in Nat /\ breaker.requests \in Int
         /\ MaxRequests \in Nat \ {0}
  BY BreakerAssumption DEF PoolInv, PoolTypes, Positions, Shapes, BreakerAssumption

(* A worker that is not waiting goes somewhere else.                       *)
LEMMA NotWaiting ==
  ASSUME PoolInv, BreakerInv, UNCHANGED breaker,
         \A w \in Workers : \/ UNCHANGED worker[w]
                            \/ /\ worker[w].at # "waiting" /\ worker'[w].at # "waiting"
                               /\ worker'[w].generation \in {0, worker[w].generation}
  PROVE  BreakerInv'
<1>1. \A g : Waiting(g)' = Waiting(g)
  BY DEF Waiting
<1>2. \A w \in Workers : worker'[w].generation <= breaker.generation
  <2> SUFFICES ASSUME NEW w \in Workers PROVE worker'[w].generation <= breaker.generation
    OBVIOUS
  <2>1. breaker.generation \in Nat /\ worker[w].generation <= breaker.generation
    BY BreakerTypes DEF BreakerInv
  <2> QED
    BY <2>1
<1> QED
  BY <1>1, <1>2 DEF BreakerInv

(* dialWorker asks the breaker.                                            *)
LEMMA Admitting ==
  ASSUME PoolInv, BreakerInv, NEW w \in Workers, Dial(w), Admits(breaker)
  PROVE  BreakerInv'
<1>0. PICK g \in Nat : g = breaker.generation
  BY BreakerTypes
<1> DEFINE to == [worker[w] EXCEPT !.at = "waiting", !.generation = g]
<1>1. /\ worker[w].at = "dialing" /\ Goes(w, to) /\ breaker' = Admitted(breaker)
      /\ worker[w] \in Positions /\ breaker \in Shapes
      /\ breaker.requests \in Int /\ MaxRequests \in Nat
  BY <1>0, BreakerTypes DEF Dial
<1>2. to \in Positions /\ to.at = "waiting" /\ to.generation = g
  BY <1>0, <1>1, NextPositions DEF Positions
<1>3. /\ worker'[w] = to /\ \A v \in Workers \ {w} : worker'[v] = worker[v]
  BY <1>1, <1>2, OneGoes DEF PoolInv
<1> HIDE DEF to
<1>4. /\ breaker'.generation = g /\ breaker'.state = breaker.state
      /\ breaker.state = "half-open" => /\ breaker'.requests = breaker.requests + 1
                                        /\ breaker.requests < MaxRequests
  BY <1>0, <1>1 DEF Admitted, Admits, Shapes
<1>5. Waiting(g)' = Waiting(g) \cup {w} /\ w \notin Waiting(g)
  BY <1>1, <1>2, <1>3 DEF Waiting
<1>6. Cardinality(Waiting(g)') = Cardinality(Waiting(g)) + 1 /\ Cardinality(Waiting(g)) \in Nat
  BY <1>5, WaitingFinite, FS_AddElement
<1>7. \A v \in Workers : worker'[v].generation <= g
  BY <1>0, <1>1, <1>2, <1>3 DEF BreakerInv
<1>8. breaker.state = "half-open" => Cardinality(Waiting(g)) <= breaker.requests
  BY <1>0 DEF BreakerInv
<1>9. Waiting(breaker.generation)' = Waiting(g)'
  BY <1>4 DEF Waiting
<1>10. breaker'.state = "half-open" =>
         Cardinality(Waiting(breaker.generation)') <= breaker'.requests /\ breaker'.requests <= MaxRequests
  BY <1>1, <1>4, <1>6, <1>8, <1>9
<1> QED
  BY <1>4, <1>7, <1>10 DEF BreakerInv

(* A dial ends, well or badly.                                             *)
LEMMA DialEnds ==
  ASSUME PoolInv, BreakerInv, NEW w \in Workers, DialSucceeds(w) \/ DialFails(w)
  PROVE  BreakerInv'
<1>0. PICK g \in Nat : g = breaker.generation
  BY BreakerTypes
<1>1. PICK k \in Positions : k = worker[w]
  BY BreakerTypes
<1>2. /\ k.at = "waiting" /\ k.generation \in Nat /\ k.generation <= g
      /\ breaker \in Shapes /\ breaker.requests \in Int /\ MaxRequests \in Nat \ {0}
      /\ breaker' \in {Succeeds(breaker, k.generation), Failed(breaker, k.generation),
                       Cancelled(breaker, k.generation)}
  BY <1>0, <1>1, BreakerTypes DEF DialSucceeds, DialFails, BreakerInv
<1>3. /\ worker'[w].at # "waiting" /\ worker'[w].generation = k.generation
      /\ \A v \in Workers \ {w} : worker'[v] = worker[v]
  <2>1. PICK to \in Positions : Goes(w, to) /\ to.at # "waiting" /\ to.generation = k.generation
    <3>1. \A p \in {[k EXCEPT !.at = "exited"], [k EXCEPT !.at = "ready"],
                    [k EXCEPT !.at = "dialing", !.attempt = @ + 1]} :
            p \in Positions /\ p.at # "waiting" /\ p.generation = k.generation
      BY NextPositions DEF Positions
    <3> QED
      BY <1>1, <3>1 DEF DialSucceeds, DialFails, GivesUp, Exits
  <2> QED
    BY <2>1, OneGoes DEF PoolInv
<1>4. Waiting(g)' = Waiting(g) \ {w}
  BY <1>1, <1>3 DEF Waiting
<1>5. /\ Cardinality(Waiting(g)') <= Cardinality(Waiting(g))
      /\ k.generation = g => Cardinality(Waiting(g)') = Cardinality(Waiting(g)) - 1
      /\ Cardinality(Waiting(g)) \in Nat /\ Cardinality(Waiting(g)') \in Nat
  <2>1. k.generation = g => w \in Waiting(g)
    BY <1>1, <1>2 DEF Waiting
  <2>2. IsFiniteSet(Waiting(g)) /\ Cardinality(Waiting(g)) \in Nat
    BY WaitingFinite
  <2>3. Cardinality(Waiting(g) \ {w}) =
          IF w \in Waiting(g) THEN Cardinality(Waiting(g)) - 1 ELSE Cardinality(Waiting(g))
    BY <2>2, FS_RemoveElement
  <2>4. w \in Waiting(g) => Cardinality(Waiting(g)) # 0
    BY <2>2, FS_EmptySet
  <2> QED
    BY <1>4, <2>1, <2>2, <2>3, <2>4
<1>6. /\ breaker'.generation \in Nat /\ g <= breaker'.generation
      /\ breaker'.state = "half-open" =>
           /\ breaker'.generation = g /\ breaker.state = "half-open"
           /\ \/ breaker'.requests = breaker.requests
              \/ k.generation = g /\ breaker'.requests = breaker.requests - 1
  <2>1. CASE breaker' = Succeeds(breaker, k.generation)
    BY <1>0, <1>2, <2>1 DEF Succeeds, ClosedBreaker, Shapes
  <2>2. CASE breaker' = Failed(breaker, k.generation)
    BY <1>0, <1>2, <2>2 DEF Failed, OpenBreaker, Shapes
  <2>3. CASE breaker' = Cancelled(breaker, k.generation)
    BY <1>0, <1>2, <2>3 DEF Cancelled, Shapes
  <2> QED
    BY <1>2, <2>1, <2>2, <2>3
<1>7. \A v \in Workers : worker'[v].generation <= breaker'.generation
  <2> SUFFICES ASSUME NEW v \in Workers PROVE worker'[v].generation <= breaker'.generation
    OBVIOUS
  <2>1. worker[v].generation \in Nat /\ worker[v].generation <= g
    BY <1>0, BreakerTypes DEF BreakerInv
  <2> QED
    BY <1>2, <1>3, <1>6, <2>1
<1>8. ASSUME breaker'.state = "half-open"
      PROVE  Cardinality(Waiting(breaker.generation)') <= breaker'.requests
             /\ breaker'.requests <= MaxRequests
  <2>1. Waiting(breaker.generation)' = Waiting(g)'
    BY <1>6, <1>8 DEF Waiting
  <2>2. Cardinality(Waiting(g)) <= breaker.requests /\ breaker.requests <= MaxRequests
    BY <1>0, <1>6, <1>8 DEF BreakerInv
  <2> QED
    BY <1>2, <1>5, <1>6, <1>8, <2>1, <2>2
<1> QED
  BY <1>7, <1>8 DEF BreakerInv

(* The timeout of an open breaker passes.                                  *)
LEMMA TimingOut ==
  ASSUME PoolInv, BreakerInv, BreakerTimesOut
  PROVE  BreakerInv'
<1>0. PICK g \in Nat : g = breaker.generation
  BY BreakerTypes DEF PoolInv, PoolTypes, Shapes
<1>1. /\ UNCHANGED worker /\ breaker'.generation = g + 1 /\ breaker'.requests = 0
      /\ MaxRequests \in Nat
  BY <1>0, BreakerAssumption DEF BreakerTimesOut, TimedOut, HalfOpenBreaker, pool, BreakerAssumption
<1>2. \A w \in Workers : worker[w].generation \in Nat /\ worker[w].generation <= g
  BY <1>0, BreakerTypes DEF BreakerInv
<1>3. Waiting(breaker.generation)' = {}
  BY <1>1, <1>2 DEF Waiting
<1> QED
  BY <1>1, <1>2, <1>3, FS_EmptySet DEF BreakerInv

(* A closed breaker, and no dial.                                          *)
LEMMA BreakerInit == Init => BreakerInv
<1> SUFFICES ASSUME Init PROVE BreakerInv
  OBVIOUS
<1>1. worker = [w \in Workers |-> Off] /\ breaker = ClosedBreaker(0)
  BY DEF Init
<1> QED
  BY <1>1 DEF BreakerInv, ClosedBreaker, Off, At

(* What a worker does between dials.                                       *)
LEMMA WorkersBetweenDials ==
  ASSUME PoolInv, BreakerInv, NEW w \in Workers,
         Take(w) \/ TakeInVain(w) \/ Exit(w) \/ PullFails(w) \/ Store(w)
  PROVE  BreakerInv'
<1>1. worker[w] \in Positions /\ worker[w].at \in {"ready", "pulling"} /\ UNCHANGED breaker
  BY BreakerTypes DEF Take, TakeInVain, Exit, PullFails, Store, Pulled, gate
<1>2. PICK to \in Positions : /\ Goes(w, to) /\ to.at # "waiting"
                              /\ to.generation = worker[w].generation
  <2>1. \A p \in {[worker[w] EXCEPT !.at = "exited"], [worker[w] EXCEPT !.at = "ready"]} :
          p \in Positions /\ p.at # "waiting" /\ p.generation = worker[w].generation
    BY <1>1, NextPositions DEF Positions
  <2>2. CASE Take(w)
    <3>1. Head(jobsCh) \in Jobs
      BY <2>2 DEF Take, PoolInv, PoolTypes
    <3>2. LET to == [worker[w] EXCEPT !.at = "pulling", !.job = Head(jobsCh)]
          IN  to \in Positions /\ to.at # "waiting" /\ to.generation = worker[w].generation
      BY <1>1, <3>1, NextPositions DEF Positions
    <3> QED
      BY <2>2, <3>2 DEF Take
  <2>3. CASE TakeInVain(w) \/ Exit(w) \/ PullFails(w) \/ Store(w)
    BY <2>1, <2>3 DEF TakeInVain, Exit, PullFails, Store, GivesUp, Exits
  <2> QED
    BY <2>2, <2>3
<1>3. /\ worker'[w] = to /\ \A v \in Workers \ {w} : worker'[v] = worker[v]
  BY <1>2, OneGoes DEF PoolInv
<1> QED
  BY <1>1, <1>2, <1>3, NotWaiting

(* Every step leaves the half-open breaker's count of its dials right.     *)
LEMMA BreakerStep ==
  ASSUME PoolInv, BreakerInv, [Next]_vars
  PROVE  BreakerInv'
<1> USE DEF context, gate, pool
<1>1. CASE UNCHANGED <<worker, breaker>>
  BY <1>1, NotWaiting
<1>2. CASE PlanCalls \/ Others \/ \E c \in Conns : OnConn(c) \/ Breaks(c)
  BY <1>1, <1>2, ConnectionsApart
<1>3. CASE PlanFails \/ PlanDone \/ Return \/ Feed \/ StopFeeding \/ Cancel
  BY <1>1, <1>3 DEF PlanFails, PlanDone, Return, Feed, StopFeeding, Cancel
<1>4. CASE StartPool
  <2>1. \A w \in Workers : /\ worker[w].at # "waiting" /\ worker'[w].at # "waiting"
                           /\ worker'[w].generation = 0
    BY <1>4 DEF StartPool, PoolInv, WorkersInPhase, Off, At
  <2> QED
    BY <1>4, <2>1, NotWaiting DEF StartPool
<1>5. CASE BreakerTimesOut
  BY <1>5, TimingOut
<1>6. ASSUME NEW w \in Workers, Dial(w) PROVE BreakerInv'
  <2>1. CASE Admits(breaker)
    BY <1>6, <2>1, Admitting
  <2>2. CASE ~Admits(breaker)
    <3>1. /\ worker[w] \in Positions /\ worker[w].at = "dialing" /\ UNCHANGED breaker
          /\ Goes(w, [worker[w] EXCEPT !.at = "exited"])
      BY <1>6, <2>2, BreakerTypes DEF Dial, GivesUp, Exits
    <3>2. [worker[w] EXCEPT !.at = "exited"] \in Positions
      BY <3>1, NextPositions
    <3>3. /\ worker'[w].at = "exited" /\ worker'[w].generation = worker[w].generation
          /\ \A v \in Workers \ {w} : worker'[v] = worker[v]
      BY <3>1, <3>2, OneGoes DEF PoolInv, Positions
    <3> QED
      BY <3>1, <3>3, NotWaiting
  <2> QED
    BY <2>1, <2>2
<1>7. ASSUME NEW w \in Workers, WorkerStep(w) PROVE BreakerInv'
  BY <1>6, <1>7, DialEnds, WorkersBetweenDials DEF WorkerStep
<1>8. CASE UNCHANGED vars
  BY <1>1, <1>8 DEF vars
<1> QED
  BY <1>2, <1>3, <1>4, <1>5, <1>7, <1>8 DEF Next, MainStep

(* However late dials fail or succeed, a half-open breaker lets through as *)
(* many as it was made for (gobreaker with the settings of SyncWS).        *)
THEOREM ProbesTheorem == Spec => []ProbesBounded
<1>1. Init => PoolInv /\ BreakerInv
  BY PoolInit, BreakerInit
<1>2. PoolInv /\ BreakerInv /\ [Next]_vars => PoolInv' /\ BreakerInv'
  BY PoolStep, BreakerStep
<1>3. PoolInv /\ BreakerInv => ProbesBounded
  <2> SUFFICES ASSUME PoolInv, BreakerInv, breaker.state = "half-open"
               PROVE  Cardinality(Waiting(breaker.generation)) <= MaxRequests
    BY DEF ProbesBounded, Waiting
  <2>1. /\ Cardinality(Waiting(breaker.generation)) \in Nat
        /\ breaker.requests \in Int /\ MaxRequests \in Nat
    BY WaitingFinite, BreakerAssumption DEF PoolInv, PoolTypes, Shapes, BreakerAssumption
  <2> QED
    BY <2>1 DEF BreakerInv
<1> QED
  BY <1>1, <1>2, <1>3, PTL DEF Spec

=============================================================================
