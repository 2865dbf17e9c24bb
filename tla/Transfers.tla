----------------------------- MODULE Transfers -----------------------------
(***************************************************************************)
(* The transfers of a sync cycle, internal/sync/engine.go and              *)
(* connection.go: executePlan does uploads, deletions and merges one after *)
(* the other on the connection of the plan, then executeDownloadsParallel  *)
(* downloads with a pool of workers, each on a connection that dialWorker  *)
(* opens through the circuit breaker.  The protocol on a connection is in  *)
(* Session, the breaker in Breaker, what the cycle gets in Downloads.      *)
(***************************************************************************)
EXTENDS Session, Breaker

CONSTANTS
  Main,         \* the connection of the plan
  Workers,      \* the connections of the pool
  NumJobs,      \* how many files are to be downloaded, as versions 1..NumJobs
  maxRetries,
  Troubles,     \* what else goes wrong, of AllTroubles
  MaxCalls,     \* bound of the model on calls on the main connection
  MaxMixed,     \* bound of the model on such calls in a plan with downloads
  MaxTimeouts   \* bound of the model on how often the breaker's timeout passes

(***************************************************************************)
(*   dialFails    a dial, or the handshake after it, fails                 *)
(*   writeFails   a downloaded file cannot be written                      *)
(*   cancel       the sync is cancelled                                    *)
(***************************************************************************)
AllTroubles == {"dialFails", "writeFails", "cancel"}

PoolAssumption == /\ Conns = {Main} \cup Workers /\ Main \notin Workers
                  /\ IsFiniteSet(Workers) /\ Workers # {}
                  /\ maxRetries \in Nat \ {0} /\ NumJobs \in 1..MaxUid
                  /\ Troubles \subseteq AllTroubles
                  /\ MaxCalls \in Nat /\ MaxMixed \in Nat /\ MaxTimeouts \in Nat
ASSUME PoolAssumption

Jobs == 1..NumJobs

VARIABLES
  phase,        \* plan, pool, or how executePlan ended: nil, error
  calls,        \* calls made on the main connection
  jobsCh,       \* the channel of jobs
  fed,          \* jobs that were put in it
  closed,       \* it is closed
  worker,       \* where each worker is
  done,         \* jobs it has counted
  errMsgs,      \* how many workers gave up
  written,      \* the contents that the file of each job has been given
  breaker,
  timeouts,
  cancelled     \* ctx is done

pool == <<jobsCh, fed, closed, worker, done, errMsgs, written>>
context == <<phase, calls, cancelled>>
gate == <<breaker, timeouts>>
vars == <<sessionVars, pool, context, gate>>

(* at: off, dialing, waiting, ready, pulling, exited.                      *)
At(s, n, g, j) == [at |-> s, attempt |-> n, generation |-> g, job |-> j]
Off == At("off", 0, 0, 0)

Init ==
  /\ LET n == CHOOSE n \in Sizes : \A m \in Sizes : m <= n
         p == CHOOSE p \in Files : TRUE
     IN  SessionInit([u \in Uids |-> IF u \in Jobs THEN New(p, n, Frames(Cipher(n)), "other")
                                    ELSE NoVersion], {Main})
  /\ phase = "plan" /\ calls = 0 /\ cancelled = FALSE
  /\ jobsCh = <<>> /\ fed = 0 /\ closed = FALSE
  /\ worker = [w \in Workers |-> Off]
  /\ done = {} /\ errMsgs = 0 /\ written = [j \in Jobs |-> {}]
  /\ breaker = ClosedBreaker(0) /\ timeouts = 0

-----------------------------------------------------------------------------
(* The plan's own actions.  A merge whose pull or push fails falls back to *)
(* another pull; any other failure ends executePlan.                       *)

PlanCalls ==
  /\ phase = "plan" /\ calls < MaxCalls /\ ~cancelled
  /\ calls' = calls + 1
  /\ \/ \E u \in 1..last : StartPull(Main, u)
     \/ \E p \in Files : StartDelete(Main, p)
     \/ \E p \in Files, n \in Sizes : StartPush(Main, p, n)
  /\ UNCHANGED <<phase, cancelled, pool, gate>>

PlanFails ==
  /\ phase = "plan" /\ call[Main] = None
  /\ Ended(Main, FALSE) \/ cancelled
  /\ phase' = "error"
  /\ UNCHANGED <<sessionVars, calls, cancelled, pool, gate>>

(* There are no downloads.                                                 *)
PlanDone ==
  /\ phase = "plan" /\ call[Main] = None /\ ~Ended(Main, FALSE)
  /\ phase' = "nil"
  /\ UNCHANGED <<sessionVars, calls, cancelled, pool, gate>>

(* The number of workers is the smaller one of concurrency and jobs.       *)
Pool == CHOOSE S \in SUBSET Workers :
          Cardinality(S) = IF Cardinality(Workers) < NumJobs THEN Cardinality(Workers) ELSE NumJobs

StartPool ==
  /\ phase = "plan" /\ call[Main] = None /\ ~Ended(Main, FALSE) /\ calls <= MaxMixed
  /\ phase' = "pool"
  /\ worker' = [w \in Workers |-> IF w \in Pool THEN At("dialing", 1, 0, 0) ELSE Off]
  /\ UNCHANGED <<sessionVars, calls, cancelled, gate, jobsCh, fed, closed, done, errMsgs, written>>

-----------------------------------------------------------------------------
(* dialWorker.                                                             *)

Goes(w, to) == worker' = [worker EXCEPT ![w] = to]
Exits(w) == Goes(w, [worker[w] EXCEPT !.at = "exited"])
GivesUp(w) == Exits(w) /\ errMsgs' = errMsgs + 1

Dial(w) ==
  LET k == worker[w]
  IN  /\ k.at = "dialing"
      /\ IF Admits(breaker)
         THEN /\ Goes(w, [k EXCEPT !.at = "waiting", !.generation = breaker.generation])
              /\ breaker' = Admitted(breaker)
              /\ UNCHANGED errMsgs
         ELSE GivesUp(w) /\ UNCHANGED breaker
      /\ UNCHANGED <<sessionVars, context, timeouts, jobsCh, fed, closed, done, written>>

(* The handshake discards what it reads until "ready".  Nothing ends it when *)
(* ctx is done, once the dial itself is over.                              *)
DialSucceeds(w) ==
  LET k == worker[w]
  IN  /\ k.at = "waiting"
      /\ breaker' = Succeeds(breaker, k.generation)
      /\ Goes(w, [k EXCEPT !.at = "ready"])
      /\ open' = open \cup {w}
      /\ UNCHANGED <<server, wire, call, result, remote, told, context, timeouts,
                     jobsCh, fed, closed, done, errMsgs, written>>

(* It tries again unless this was the last attempt or ctx is done.         *)
TriesAgain(k) == k.attempt < maxRetries /\ ~cancelled

DialFails(w) ==
  LET k == worker[w]
  IN  /\ k.at = "waiting"
      /\ \/ cancelled /\ breaker' = Cancelled(breaker, k.generation)
         \/ "dialFails" \in Troubles /\ breaker' = Failed(breaker, k.generation)
      /\ IF TriesAgain(k)
         THEN /\ Goes(w, [k EXCEPT !.at = "dialing", !.attempt = @ + 1])
              /\ UNCHANGED errMsgs
         ELSE GivesUp(w)
      /\ UNCHANGED <<sessionVars, context, timeouts, jobsCh, fed, closed, done, written>>

BreakerTimesOut ==
  /\ breaker.state = "open" /\ timeouts < MaxTimeouts
  /\ breaker' = TimedOut(breaker)
  /\ timeouts' = timeouts + 1
  /\ UNCHANGED <<sessionVars, context, pool>>

-----------------------------------------------------------------------------
\* Mutant: the worker pulls the job that was put in last.
TakeLatest(w) ==
  /\ worker[w].at = "ready" /\ jobsCh # <<>> /\ w \in open
  /\ jobsCh' = Tail(jobsCh)
  /\ Goes(w, [worker[w] EXCEPT !.at = "pulling", !.job = Head(jobsCh)])
  /\ StartPull(w, fed)
  /\ UNCHANGED <<context, gate, fed, closed, done, errMsgs, written>>

(* A worker takes jobs until there are none, and exits at the first error. *)
Take(w) ==
  /\ worker[w].at = "ready" /\ jobsCh # <<>> /\ w \in open
  /\ jobsCh' = Tail(jobsCh)
  /\ Goes(w, [worker[w] EXCEPT !.at = "pulling", !.job = Head(jobsCh)])
  /\ StartPull(w, Head(jobsCh))
  /\ UNCHANGED <<context, gate, fed, closed, done, errMsgs, written>>

(* Its connection is broken, and the pull fails when it writes.            *)
TakeInVain(w) ==
  /\ worker[w].at = "ready" /\ jobsCh # <<>> /\ w \notin open
  /\ jobsCh' = Tail(jobsCh)
  /\ GivesUp(w)
  /\ UNCHANGED <<sessionVars, context, gate, fed, closed, done, written>>

Leaves(w) == open' = open \ {w} /\ UNCHANGED <<server, wire, call, result, remote, told>>

Exit(w) ==
  /\ worker[w].at = "ready" /\ jobsCh = <<>> /\ closed
  /\ Exits(w) /\ Leaves(w)
  /\ UNCHANGED <<context, gate, jobsCh, fed, closed, done, errMsgs, written>>

Pulled(w, ok) == worker[w].at = "pulling" /\ Ended(w, ok)
PullFails(w) ==
  /\ Pulled(w, FALSE)
  /\ GivesUp(w) /\ Leaves(w)
  /\ UNCHANGED <<context, gate, jobsCh, fed, closed, done, written>>

(* WriteFileWithTimes may fail before or after the content is in place.    *)
Store(w) ==
  LET j == worker[w].job
      stored == [written EXCEPT ![j] = @ \cup {result[w].got}]
  IN  /\ Pulled(w, TRUE)
      /\ \/ /\ written' = stored
            /\ done' = done \cup {j}
            /\ Goes(w, [worker[w] EXCEPT !.at = "ready"])
            /\ UNCHANGED <<sessionVars, errMsgs>>
         \/ /\ "writeFails" \in Troubles
            /\ written' \in {written, stored}
            /\ GivesUp(w) /\ Leaves(w)
            /\ UNCHANGED done
      /\ UNCHANGED <<context, gate, jobsCh, fed, closed>>

-----------------------------------------------------------------------------
(* executeDownloadsParallel itself.  The channel has room for all jobs.    *)
Feed ==
  /\ phase = "pool" /\ fed < NumJobs /\ ~closed
  /\ fed' = fed + 1
  /\ jobsCh' = Append(jobsCh, fed')
  /\ closed' = (fed' = NumJobs)
  /\ UNCHANGED <<sessionVars, context, gate, worker, done, errMsgs, written>>

(* select may also see that ctx is done, and then the answer is ctx.Err(). *)
StopFeeding ==
  /\ phase = "pool" /\ fed < NumJobs /\ ~closed /\ cancelled
  /\ closed' = TRUE
  /\ UNCHANGED <<sessionVars, context, gate, jobsCh, fed, worker, done, errMsgs, written>>

\* Mutant: that a worker gave up is not asked.
OutcomeOfFeeding == IF fed < NumJobs THEN "error" ELSE "nil"

Outcome == IF fed < NumJobs \/ (errMsgs > 0 /\ done = {}) THEN "error" ELSE "nil"

Return ==
  /\ phase = "pool" /\ closed
  /\ \A w \in Pool : worker[w].at = "exited"
  /\ phase' = Outcome
  /\ UNCHANGED <<sessionVars, calls, cancelled, gate, pool>>

(* ctx is done; AfterFunc closes every connection, in its own time.        *)
Cancel ==
  /\ "cancel" \in Troubles /\ phase \in {"plan", "pool"} /\ ~cancelled
  /\ cancelled' = TRUE
  /\ UNCHANGED <<sessionVars, phase, calls, gate, pool>>

(* Without the fault notifications come while the plan is executed only.   *)
Others ==
  /\ phase = "plan" \/ ("noticeInPull" \in Faults /\ phase = "pool")
  /\ \E p \in Files, n \in Sizes, deletes \in BOOLEAN : OtherDevice(p, n, deletes)
  /\ UNCHANGED <<context, gate, pool>>

OnConn(c) == (ServerStep(c) \/ ClientStep(c)) /\ UNCHANGED <<context, gate, pool>>
Breaks(c) == /\ "broken" \in Faults \/ cancelled
             /\ c = Main => phase = "plan"
             /\ Break(c) /\ UNCHANGED <<context, gate, pool>>

WorkerStep(w) == \/ Dial(w) \/ DialSucceeds(w) \/ DialFails(w) \/ Take(w) \/ TakeInVain(w)
                 \/ Exit(w) \/ PullFails(w) \/ Store(w)
MainStep == PlanFails \/ PlanDone \/ StartPool \/ Feed \/ StopFeeding \/ Return

Next == \/ PlanCalls \/ MainStep \/ Cancel \/ Others \/ BreakerTimesOut
        \/ \E w \in Workers : WorkerStep(w)
        \/ \E c \in Conns : OnConn(c) \/ Breaks(c)

(* Goroutines run, and the server answers or the connection breaks: the    *)
(* code has no timeout for a server that falls silent.                     *)
Fairness == /\ WF_vars(MainStep)
            /\ \A w \in Workers : WF_vars(WorkerStep(w))
            /\ \A c \in Conns : WF_vars(OnConn(c))

Spec == Init /\ [][Next]_vars /\ Fairness

-----------------------------------------------------------------------------
TypeOK ==
  /\ SessionTypeOK
  /\ phase \in {"plan", "pool", "nil", "error"} /\ cancelled \in BOOLEAN /\ closed \in BOOLEAN
  /\ calls \in 0..MaxCalls /\ fed \in 0..NumJobs /\ jobsCh \in Seq(Jobs)
  /\ worker \in [Workers -> [at : {"off", "dialing", "waiting", "ready", "pulling", "exited"},
                             attempt : 0..maxRetries, generation : Nat, job : 0..NumJobs]]
  /\ done \subseteq Jobs /\ errMsgs \in 0..Cardinality(Workers)
  /\ breaker \in Breakers /\ timeouts \in 0..MaxTimeouts

(* A pull answers with the version that was asked for.  A file that counts *)
(* as downloaded has the content of the version that was to be downloaded, *)
(* and so has one that was written by a worker that then failed.           *)
PullsAsRecorded ==
  /\ TypeOK /\ PulledIsAsked
  /\ \A j \in done : written[j] # {}
  /\ \A j \in Jobs : written[j] \subseteq {Content(j)}

(* A breaker that is half open lets through as many dials as it was made   *)
(* for, however late the earlier ones fail or succeed.                     *)
ProbesBounded ==
  breaker.state = "half-open" =>
    Cardinality({w \in Workers : worker[w].at = "waiting"
                                 /\ worker[w].generation = breaker.generation})
      <= MaxRequests

Started == \E w \in Workers : worker[w] # Off

(* docs/parallel-downloads.md:127 of a cancelled context: "All workers     *)
(* exit; `ctx.Err()` returned".  So a pool that is cancelled before all    *)
(* its files are downloaded never answers with nil.  The code does not     *)
(* keep this: after the last job is handed out it looks no more.           *)
CancelReported == phase = "nil" /\ cancelled /\ Started => done = Jobs

(* executeDownloadsParallel keeps what Downloads says of it: what it       *)
(* answers is true of what was done, and it returns whatever fails.  Of a  *)
(* cancelled sync that is less than CancelReported: see Downloads.         *)
Trouble == IF ~Started THEN "none" ELSE IF cancelled THEN "cancelled"
           ELSE IF errMsgs > 0 THEN "worker" ELSE "none"
Said == IF ~Started THEN "unasked" ELSE IF phase \in {"nil", "error"} THEN phase ELSE "none"
Promise == INSTANCE Downloads WITH trouble <- Trouble, answer <- Said
PoolKeepsPromise == Promise!Spec

=============================================================================
