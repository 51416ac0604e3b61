------------------------------ MODULE JobQueue ------------------------------
(***************************************************************************)
(* The PostgreSQL-backed task queue and the worker processes that poll it  *)
(* (workers/queue.py, workers/runner.py, repositories/jobs.py).            *)
(*                                                                         *)
(* A job is a row of the jobs table.  A worker repeats a tick: requeue the *)
(* rows whose started_at is older than the timeout, claim a batch of due   *)
(* rows, then run the batch one job after the other, each handler in a     *)
(* transaction of its own and each outcome recorded in yet another one.    *)
(* Every action below is one database transaction or one step of a worker  *)
(* between two transactions; _finish reads its row and writes it back, and *)
(* under READ COMMITTED other transactions may commit in between.          *)
(*                                                                         *)
(* Time is discrete and relative: age is now - started_at, wait is         *)
(* run_at - now, elapsed is the running time of a handler.  A claim takes  *)
(* due rows in any order, so what holds here holds for the run_at order.   *)
(***************************************************************************)
EXTENDS Integers, FiniteSets

CONSTANTS Jobs,          \* the rows that may ever be enqueued
          UnknownTasks,  \* the jobs whose task_name has no registered handler
          Workers,       \* the worker processes
          NoJob,         \* "no job": what a worker between two jobs works on
          MaxAttempts,   \* worker_max_attempts
          BatchSize,     \* worker_batch_size
          Timeout,       \* worker_job_timeout_seconds, in ticks
          RetryDelay,    \* worker_retry_backoff_seconds * 2^(attempts - 1), in ticks
          EnqueueDelays, \* the delay_seconds callers pass, in ticks
          BypassRLS,     \* TRUE: row-level security does not apply to the workers
          Prompt,        \* TRUE: only handlers and polling sleeps take time
          MaxFaults      \* bound on crashes, stops and failed ticks

ASSUME JobQueueAssumption ==
  /\ IsFiniteSet(Jobs)
  /\ UnknownTasks \subseteq Jobs
  /\ NoJob \notin Jobs
  /\ MaxAttempts \in Nat \ {0}
  /\ BatchSize \in Nat \ {0}
  /\ Timeout \in Nat \ {0}
  /\ RetryDelay \in [1..MaxAttempts -> Nat]
  /\ EnqueueDelays \subseteq Nat
  /\ BypassRLS \in BOOLEAN
  /\ Prompt \in BOOLEAN
  /\ MaxFaults \in Nat

VARIABLES
  status,    \* jobs.status; "ABSENT" before the enqueuing request commits
  attempts,  \* jobs.attempts
  wait,      \* jobs.run_at - now, 0 once it has passed
  age,       \* now - jobs.started_at, capped at Timeout + 1; Null if NULL
  effects,   \* history: transactions the job's handler has committed
  lapsed,    \* history: jobs a sweep took from a worker that was still there
  waited,    \* history: jobs that time passed over between two steps of their
             \* worker, before or after the handler
  pc,        \* where each worker stands in its tick
  batch,     \* the claimed jobs a worker has still to run
  cur,       \* the job a worker is running
  elapsed,   \* how long the handler a worker awaits has been running, else 0
  outcome,   \* what _run_job is about to report to _finish
  seen,      \* the columns _finish has read
  faults     \* crashes, stops and failed ticks so far

rowVars == <<status, attempts, wait, age>>
histVars == <<effects, lapsed, waited>>
vars == <<rowVars, histVars, pc, batch, cur, elapsed, outcome, seen, faults>>

Null == -1
Finished == {"SUCCEEDED", "FAILED"}
Statuses == {"ABSENT", "PENDING", "RUNNING"} \cup Finished
Phases == {"down", "sleeping", "idle", "polled", "batch",
           "handling", "finishing", "writing"}
Outcomes == {"none", "ok", "error", "permanent"}

\* What _finish keeps of the row it loaded: status, attempts, and whether
\* started_at was set.  SQLAlchemy writes back only the columns that differ.
Snapshots == [status : Statuses, attempts : Nat, dated : BOOLEAN]
NothingSeen == [status |-> "ABSENT", attempts |-> 0, dated |-> FALSE]

TypeOK ==
  /\ status \in [Jobs -> Statuses]
  /\ attempts \in [Jobs -> Nat]
  /\ wait \in [Jobs -> Nat]
  /\ age \in [Jobs -> Nat \cup {Null}]
  /\ effects \in [Jobs -> Nat]
  /\ lapsed \subseteq Jobs
  /\ waited \subseteq Jobs
  /\ pc \in [Workers -> Phases]
  /\ batch \in [Workers -> SUBSET Jobs]
  /\ cur \in [Workers -> Jobs \cup {NoJob}]
  /\ elapsed \in [Workers -> 0..Timeout]
  /\ outcome \in [Workers -> Outcomes]
  /\ seen \in [Workers -> Snapshots]
  /\ faults \in 0..MaxFaults

-----------------------------------------------------------------------------

Init ==
  /\ status = [j \in Jobs |-> "ABSENT"]
  /\ attempts = [j \in Jobs |-> 0]
  /\ wait = [j \in Jobs |-> 0]
  /\ age = [j \in Jobs |-> Null]
  /\ effects = [j \in Jobs |-> 0]
  /\ lapsed = {}
  /\ waited = {}
  /\ pc = [w \in Workers |-> "idle"]
  /\ batch = [w \in Workers |-> {}]
  /\ cur = [w \in Workers |-> NoJob]
  /\ elapsed = [w \in Workers |-> 0]
  /\ outcome = [w \in Workers |-> "none"]
  /\ seen = [w \in Workers |-> NothingSeen]
  /\ faults = 0

(***************************************************************************)
(* The request side: PostgresTaskQueue.enqueue, at the commit of the       *)
(* request that called it.                                                 *)
(***************************************************************************)
Enqueue(j, delay) ==
  /\ status[j] = "ABSENT"
  /\ status' = [status EXCEPT ![j] = "PENDING"]
  /\ wait' = [wait EXCEPT ![j] = delay]
  /\ UNCHANGED <<attempts, age, histVars, pc, batch, cur, elapsed, outcome, seen, faults>>

(***************************************************************************)
(* The worker's tick.                                                      *)
(***************************************************************************)
Goto(w, phase) == pc' = [pc EXCEPT ![w] = phase]

\* The worker's own transactions have no tenant, and the policy on jobs shows a
\* session without a tenant no row at all.
Visible(j) == BypassRLS

\* What a worker believes it has claimed and not yet finished.
Holds(w) == batch[w] \cup ({cur[w]} \ {NoJob})

\* Mutant: the sweep looks at started_at alone.
Stale_AnyStatus(j) == Visible(j) /\ age[j] > Timeout

\* Mutant: <= for < in the sweep's comparison.
Stale_AtTimeout(j) == Visible(j) /\ status[j] = "RUNNING" /\ age[j] >= Timeout

\* Mutant: the sweep skips the rows whose attempts are used up.
Stale_AttemptsLeft(j) ==
  Visible(j) /\ status[j] = "RUNNING" /\ age[j] > Timeout /\ attempts[j] < MaxAttempts

\* now - timeout is strictly later than started_at.
Stale(j) == Visible(j) /\ status[j] = "RUNNING" /\ age[j] > Timeout

\* Jobs that the sweep takes from a worker which is still there.
Evicted == {j \in Jobs : Stale(j) /\ \E w \in Workers : j \in Holds(w)}

\* Mutant: a requeued job starts its attempts afresh.
RequeueStale_Afresh(w) ==
  /\ pc[w] = "idle"
  /\ status' = [j \in Jobs |-> IF Stale(j) THEN "PENDING" ELSE status[j]]
  /\ age' = [j \in Jobs |-> IF Stale(j) THEN Null ELSE age[j]]
  /\ attempts' = [j \in Jobs |-> IF Stale(j) THEN 0 ELSE attempts[j]]
  /\ lapsed' = lapsed \cup Evicted
  /\ Goto(w, "polled")
  /\ UNCHANGED <<wait, effects, waited, batch, cur, elapsed, outcome, seen, faults>>

\* requeue_stale: one UPDATE over the whole table.  It looks neither at
\* attempts nor at whether a worker still has the job.
RequeueStale(w) ==
  /\ pc[w] = "idle"
  /\ status' = [j \in Jobs |-> IF Stale(j) THEN "PENDING" ELSE status[j]]
  /\ age' = [j \in Jobs |-> IF Stale(j) THEN Null ELSE age[j]]
  /\ lapsed' = lapsed \cup Evicted
  /\ Goto(w, "polled")
  /\ UNCHANGED <<attempts, wait, effects, waited, batch, cur, elapsed, outcome, seen, faults>>

\* Mutant: a claim takes running jobs as well, as if SKIP LOCKED were enough.
Due_Running == {j \in Jobs : Visible(j) /\ status[j] \in {"PENDING", "RUNNING"} /\ wait[j] = 0}

\* Mutant: a claim takes failed jobs as well.
Due_Failed == {j \in Jobs : Visible(j) /\ status[j] \in {"PENDING", "FAILED"} /\ wait[j] = 0}

Due == {j \in Jobs : Visible(j) /\ status[j] = "PENDING" /\ wait[j] = 0}

\* Mutant: the claim has no LIMIT.
Batches_NoLimit == {Due}

\* The batch a claim may take: as many due rows as the LIMIT allows.
Batches == {ids \in SUBSET Due : /\ Cardinality(ids) <= BatchSize
                                 /\ Cardinality(ids) = BatchSize \/ ids = Due}

\* claim: SELECT ... FOR UPDATE SKIP LOCKED and the UPDATE of the same rows,
\* committed together.
Claim(w) ==
  /\ pc[w] = "polled"
  /\ Due # {}
  /\ \E ids \in Batches :
       /\ status' = [j \in Jobs |-> IF j \in ids THEN "RUNNING" ELSE status[j]]
       /\ attempts' = [j \in Jobs |-> IF j \in ids THEN attempts[j] + 1 ELSE attempts[j]]
       /\ age' = [j \in Jobs |-> IF j \in ids THEN 0 ELSE age[j]]
       /\ batch' = [batch EXCEPT ![w] = ids]
  /\ Goto(w, "batch")
  /\ UNCHANGED <<wait, histVars, cur, elapsed, outcome, seen, faults>>

\* Nothing was due: the run loop waits for the poll interval.
ClaimNothing(w) ==
  /\ pc[w] = "polled"
  /\ Due = {}
  /\ Goto(w, "sleeping")
  /\ UNCHANGED <<rowVars, histVars, batch, cur, elapsed, outcome, seen, faults>>

\* _run_job takes the next envelope and resolves its handler.
StartJob(w, j) ==
  /\ pc[w] = "batch"
  /\ j \in batch[w]
  /\ batch' = [batch EXCEPT ![w] = @ \ {j}]
  /\ cur' = [cur EXCEPT ![w] = j]
  /\ IF j \in UnknownTasks
       THEN /\ outcome' = [outcome EXCEPT ![w] = "permanent"]
            /\ Goto(w, "finishing")
       ELSE /\ UNCHANGED outcome
            /\ Goto(w, "handling")
  /\ UNCHANGED <<rowVars, histVars, elapsed, seen, faults>>

\* The batch is done: the run loop polls again without waiting.
EndBatch(w) ==
  /\ pc[w] = "batch"
  /\ batch[w] = {}
  /\ Goto(w, "idle")
  /\ UNCHANGED <<rowVars, histVars, batch, cur, elapsed, outcome, seen, faults>>

EndHandler(w, result) ==
  /\ outcome' = [outcome EXCEPT ![w] = result]
  /\ elapsed' = [elapsed EXCEPT ![w] = 0]
  /\ Goto(w, "finishing")

\* The handler returns and session_scope commits its transaction.
HandlerCommits(w) ==
  /\ pc[w] = "handling"
  /\ effects' = [effects EXCEPT ![cur[w]] = @ + 1]
  /\ EndHandler(w, "ok")
  /\ UNCHANGED <<rowVars, lapsed, waited, batch, cur, seen, faults>>

\* Mutant: the transaction of a handler that raises is committed.
HandlerRaises_Committed(w) ==
  /\ pc[w] = "handling"
  /\ effects' = [effects EXCEPT ![cur[w]] = @ + 1]
  /\ EndHandler(w, "error")
  /\ UNCHANGED <<rowVars, lapsed, waited, batch, cur, seen, faults>>

\* Mutant: the exception is logged and the job counts as done.
HandlerRaises_Swallowed(w) ==
  /\ pc[w] = "handling"
  /\ EndHandler(w, "ok")
  /\ UNCHANGED <<rowVars, histVars, batch, cur, seen, faults>>

\* The handler, or its commit, raises: session_scope rolls back.  wait_for
\* raises TimeoutError in the same way once the timeout has passed.
HandlerRaises(w) ==
  /\ pc[w] = "handling"
  /\ EndHandler(w, "error")
  /\ UNCHANGED <<rowVars, histVars, batch, cur, seen, faults>>

\* _finish opens a fresh transaction and loads the row by its id alone.
FinishRead(w) ==
  /\ pc[w] = "finishing"
  /\ LET j == cur[w]
     IN seen' = [seen EXCEPT ![w] = [status |-> status[j],
                                     attempts |-> attempts[j],
                                     dated |-> age[j] # Null]]
  /\ Goto(w, "writing")
  /\ UNCHANGED <<rowVars, histVars, batch, cur, elapsed, outcome, faults>>

\* The status column after an assignment of new by a transaction that had
\* loaded the value old: an assignment that changes nothing is not written.
Assign(j, old, new) == IF new = old THEN status[j] ELSE new

\* mark_succeeded
MarkSucceeded(j, row) ==
  /\ status' = [status EXCEPT ![j] = Assign(j, row.status, "SUCCEEDED")]
  /\ UNCHANGED <<attempts, wait, age>>

\* Mutant: the retry is scheduled and undated, but the row stays RUNNING.
MarkForRetry_StatusKept(j, row) ==
  /\ row.attempts < MaxAttempts
  /\ wait' = [wait EXCEPT ![j] = RetryDelay[row.attempts]]
  /\ age' = [age EXCEPT ![j] = IF row.dated THEN Null ELSE @]
  /\ UNCHANGED <<status, attempts>>

\* mark_failed while attempts remain: back to the queue after the backoff.
MarkForRetry(j, row) ==
  /\ row.attempts < MaxAttempts
  /\ status' = [status EXCEPT ![j] = Assign(j, row.status, "PENDING")]
  /\ wait' = [wait EXCEPT ![j] = RetryDelay[row.attempts]]
  /\ age' = [age EXCEPT ![j] = IF row.dated THEN Null ELSE @]
  /\ UNCHANGED attempts

\* Mutant: the job is given up one attempt early.
MarkFailed_OneEarly(j, row) ==
  /\ row.attempts + 1 >= MaxAttempts
  /\ status' = [status EXCEPT ![j] = Assign(j, row.status, "FAILED")]
  /\ UNCHANGED <<attempts, wait, age>>

\* mark_failed once they are used up.
MarkFailed(j, row) ==
  /\ row.attempts >= MaxAttempts
  /\ status' = [status EXCEPT ![j] = Assign(j, row.status, "FAILED")]
  /\ UNCHANGED <<attempts, wait, age>>

\* _finish with permanent=True uses up the attempts first.
MarkPermanentlyFailed(j, row) ==
  /\ attempts' = [attempts EXCEPT ![j] = IF row.attempts = MaxAttempts THEN @
                                                                       ELSE MaxAttempts]
  /\ status' = [status EXCEPT ![j] = Assign(j, row.status, "FAILED")]
  /\ UNCHANGED <<wait, age>>

\* _finish writes the row back and commits; the batch goes on.
FinishWrite(w) ==
  /\ pc[w] = "writing"
  /\ \/ outcome[w] = "ok" /\ MarkSucceeded(cur[w], seen[w])
     \/ outcome[w] = "error" /\ MarkForRetry(cur[w], seen[w])
     \/ outcome[w] = "error" /\ MarkFailed(cur[w], seen[w])
     \/ outcome[w] = "permanent" /\ MarkPermanentlyFailed(cur[w], seen[w])
  /\ cur' = [cur EXCEPT ![w] = NoJob]
  /\ outcome' = [outcome EXCEPT ![w] = "none"]
  /\ seen' = [seen EXCEPT ![w] = NothingSeen]
  /\ Goto(w, "batch")
  /\ UNCHANGED <<histVars, batch, elapsed, faults>>

(***************************************************************************)
(* Faults: MaxFaults of them in a behaviour.                               *)
(***************************************************************************)

\* Whatever a worker had claimed and not finished is forgotten by it.
Forget(w, phase) ==
  /\ faults < MaxFaults
  /\ faults' = faults + 1
  /\ batch' = [batch EXCEPT ![w] = {}]
  /\ cur' = [cur EXCEPT ![w] = NoJob]
  /\ elapsed' = [elapsed EXCEPT ![w] = 0]
  /\ outcome' = [outcome EXCEPT ![w] = "none"]
  /\ seen' = [seen EXCEPT ![w] = NothingSeen]
  /\ Goto(w, phase)
  /\ UNCHANGED <<rowVars, histVars>>

\* The process is killed anywhere, its open transaction rolled back, or it
\* exits between two ticks because request_stop was called.
Crash(w) == pc[w] # "down" /\ Forget(w, "down")

\* The database refuses a query outside a handler: the exception leaves
\* _tick, the run loop logs it and sleeps.
TickFails(w) == pc[w] \in {"idle", "polled", "finishing", "writing"} /\ Forget(w, "sleeping")

Restart(w) ==
  /\ pc[w] = "down"
  /\ Goto(w, "idle")
  /\ UNCHANGED <<rowVars, histVars, batch, cur, elapsed, outcome, seen, faults>>

(***************************************************************************)
(* Time.  wait_for lets no handler run past the timeout, but it starts     *)
(* counting only after the claim.  With Prompt a sweep, a claim and the    *)
(* recording of an outcome take no time; a batch, and the beginning of a   *)
(* handler, may still have to wait.                                        *)
(***************************************************************************)

\* Mutant: handlers run without a timeout.
MayPass_NoTimeout(w) ==
  Prompt => pc[w] \in {"down", "sleeping", "batch", "handling"}

MayPass(w) ==
  /\ pc[w] = "handling" => elapsed[w] < Timeout
  /\ Prompt => pc[w] \in {"down", "sleeping", "batch", "handling"}

\* Jobs of w that time passes over outside their handler.
Idling(w) == Holds(w) \ (IF pc[w] = "handling" THEN {cur[w]} ELSE {})

Older(a) == IF a = Null \/ a > Timeout THEN a ELSE a + 1

Tick ==
  /\ \A w \in Workers : MayPass(w)
  /\ age' = [j \in Jobs |-> Older(age[j])]
  /\ wait' = [j \in Jobs |-> IF wait[j] = 0 THEN 0 ELSE wait[j] - 1]
  /\ elapsed' = [w \in Workers |-> IF pc[w] = "handling" THEN elapsed[w] + 1 ELSE elapsed[w]]
  /\ pc' = [w \in Workers |-> IF pc[w] = "sleeping" THEN "idle" ELSE pc[w]]
  /\ waited' = waited \cup UNION {Idling(w) : w \in Workers}
  /\ UNCHANGED <<status, attempts, effects, lapsed, batch, cur, outcome, seen, faults>>

-----------------------------------------------------------------------------

Step(w) ==
  \/ RequeueStale(w)
  \/ Claim(w)
  \/ ClaimNothing(w)
  \/ \E j \in Jobs : StartJob(w, j)
  \/ EndBatch(w)
  \/ HandlerCommits(w)
  \/ HandlerRaises(w)
  \/ FinishRead(w)
  \/ FinishWrite(w)
  \/ Restart(w)

Next ==
  \/ \E j \in Jobs, delay \in EnqueueDelays : Enqueue(j, delay)
  \/ \E w \in Workers : Step(w)
  \/ \E w \in Workers : Crash(w) \/ TickFails(w)
  \/ Tick

Spec == Init /\ [][Next]_vars

\* A worker that is up keeps taking steps, one that is down is restarted by
\* its supervisor (restart: unless-stopped), wait_for ends every handler, and
\* the clock advances.  Nothing is assumed of requests and of faults.
Fairness == WF_vars(Tick) /\ \A w \in Workers : WF_vars(Step(w))
FairSpec == Spec /\ Fairness

-----------------------------------------------------------------------------
(***************************************************************************)
(* Properties.                                                             *)
(***************************************************************************)

Handles(w, j) == pc[w] = "handling" /\ cur[w] = j

RunTwice(j) == \E v, w \in Workers : v # w /\ Handles(v, j) /\ Handles(w, j)

\* SKIP LOCKED claiming lets other workers step over claimed rows "instead of
\* blocking or double-running": no two workers run the handler of one job at
\* the same time (JobClaimRepository.claim, Worker._run_job).
NoDoubleRun == \A j \in Jobs : ~RunTwice(j)

\* The only way to a double run is the sweep: a job that was never taken from
\* a worker which was still there is never run by two at the same time, with
\* any batch, any stall and any crash (claim, requeue_stale, _finish).
NoDoubleRunUnlessLapsed == \A j \in Jobs \ lapsed : ~RunTwice(j)

\* The sweep takes a job from a worker which is still there only if the job had
\* to wait: for its batch, for its handler to begin, or for its outcome to be
\* written.  The running time of handlers alone never costs a worker its claim,
\* as both are measured against one timeout (requeue_stale, _run_job).
ClaimIsKept ==
  \A w \in Workers : \A j \in Holds(w) \ waited :
    status[j] = "RUNNING" /\ age[j] <= Timeout

\* The outcome of a job is final, unless the job was taken from a worker that
\* was still there: no other late _finish revives or overwrites it, however long
\* it took, and no sweep or claim looks at it again (mark_succeeded, mark_failed).
FinishedIsFinal ==
  [][\A j \in Jobs \ lapsed : status[j] \in Finished => status'[j] = status[j]]_vars

\* Without faults a handler's transaction is committed at most once for a job
\* that no sweep took from a worker, however often it is retried
\* (Worker._run_job).
OnceWithoutFaults == faults = 0 => \A j \in Jobs \ lapsed : effects[j] <= 1

\* requeue_stale skips rows whose started_at is NULL, so a RUNNING row without
\* one would be lost for ever; the partial writes of racing _finish calls never
\* produce one.
RunningIsDated == \A j \in Jobs : status[j] = "RUNNING" => age[j] # Null

\* A job reported SUCCEEDED has had its handler's work committed, whoever
\* reported it (Worker._run_job commits before _finish).
SuccessIsCommitted ==
  \A j \in Jobs : status[j] = "SUCCEEDED" => effects[j] >= 1

\* A job is given up only when its attempts are used up, even if the row was
\* claimed again between the read and the write of _finish (mark_failed).
FailedIsExhausted ==
  \A j \in Jobs : status[j] = "FAILED" => attempts[j] >= MaxAttempts

\* Every commit of a handler is paid for by an attempt of its own: a row
\* requeued under a live worker does not run for free (claim).
RunsAreCounted == \A j \in Jobs : effects[j] <= attempts[j]

\* A worker "must be able to see the whole queue in order to pick the next job":
\* no job waits for ever (JobClaimRepository.claim).
EveryJobIsPicked == \A j \in Jobs : status[j] = "PENDING" ~> status[j] # "PENDING"

\* An enqueued job is eventually settled for good, whichever workers crash on
\* the way ("a job abandoned by a crashed worker must come back").
EveryJobSettles ==
  \A j \in Jobs : status[j] = "PENDING" ~> [](status[j] \in Finished)

-----------------------------------------------------------------------------
\* The queue is a table of leases: each transaction and each fault is a move of
\* Leases or leaves the leases alone, for any batch and any stall.  A job is
\* exclusively its worker's until its outcome is written, the worker is gone or
\* a sweep evicts the worker, and never reported done unless work was kept
\* (Worker._tick, PostgresTaskQueue).
Queue == INSTANCE Leases
  WITH state <- status, holders <- [j \in Jobs |-> {w \in Workers : j \in Holds(w)}],
       work <- effects, evicted <- lapsed
ImplementsLeases == Queue!LeaseSpec

=============================================================================
