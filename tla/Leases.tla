-------------------------------- MODULE Leases --------------------------------
(***************************************************************************)
(* What the queue promises the callers of enqueue, without clocks, batches *)
(* in progress, transactions or reads and writes: a job that is taken is   *)
(* leased to one worker, only that worker does its work and says how it    *)
(* ended, and it goes to another one only after the first has gone.  The   *)
(* exception is a job recovered from a worker that was still there: from   *)
(* then on it may have several workers, and any of them may end it.        *)
(***************************************************************************)
EXTENDS Naturals

CONSTANTS Jobs, Workers

VARIABLES
  state,   \* of each job: the statuses of the queue
  holders, \* the workers that believe to have it
  work,    \* how often its work was done and kept
  evicted  \* the jobs that were recovered from a worker that was still there

leaseVars == <<state, holders, work, evicted>>

LeaseInit ==
  /\ state = [j \in Jobs |-> "ABSENT"]
  /\ holders = [j \in Jobs |-> {}]
  /\ work = [j \in Jobs |-> 0]
  /\ evicted = {}

Submit(j) ==
  /\ state[j] = "ABSENT"
  /\ state' = [state EXCEPT ![j] = "PENDING"]
  /\ UNCHANGED <<holders, work, evicted>>

\* A worker that has nothing takes some jobs that nobody has.
Take(w, some) ==
  /\ \A j \in Jobs : w \notin holders[j]
  /\ \A j \in some : state[j] = "PENDING" /\ (j \in evicted \/ holders[j] = {})
  /\ state' = [j \in Jobs |-> IF j \in some THEN "RUNNING" ELSE state[j]]
  /\ holders' = [j \in Jobs |-> IF j \in some THEN holders[j] \cup {w} ELSE holders[j]]
  /\ UNCHANGED <<work, evicted>>

\* The lease of w on j: exclusive, unless somebody was evicted from j.
Leased(w, j) ==
  /\ w \in holders[j]
  /\ j \in evicted \/ (state[j] = "RUNNING" /\ holders[j] = {w})

Work(w, j) ==
  /\ Leased(w, j)
  /\ work' = [work EXCEPT ![j] = @ + 1]
  /\ UNCHANGED <<state, holders, evicted>>

\* Back to the queue, done, or given up; where others had the job as well, what
\* one of them says may change nothing.
Settle(w, j, to) ==
  /\ Leased(w, j)
  /\ to \in {"PENDING", "SUCCEEDED", "FAILED"} \/ (j \in evicted /\ to = state[j])
  /\ to = "SUCCEEDED" => work[j] > 0
  /\ state' = [state EXCEPT ![j] = to]
  /\ holders' = [holders EXCEPT ![j] = @ \ {w}]
  /\ UNCHANGED <<work, evicted>>

\* The worker is gone, its jobs still count as taken.
Abandon(w) ==
  /\ holders' = [j \in Jobs |-> holders[j] \ {w}]
  /\ UNCHANGED <<state, work, evicted>>

\* Jobs come back to the queue: those that nobody has any more, and those that
\* somebody is evicted from.
Recover(some) ==
  /\ \A j \in some : state[j] = "RUNNING"
  /\ state' = [j \in Jobs |-> IF j \in some THEN "PENDING" ELSE state[j]]
  /\ evicted' = evicted \cup {j \in some : holders[j] # {}}
  /\ UNCHANGED <<holders, work>>

LeaseNext ==
  \/ \E j \in Jobs : Submit(j)
  \/ \E w \in Workers :
       \/ \E some \in SUBSET Jobs : Take(w, some)
       \/ \E j \in Jobs : Work(w, j)
       \/ \E j \in Jobs, to \in {"PENDING", "RUNNING", "SUCCEEDED", "FAILED"} :
            Settle(w, j, to)
       \/ Abandon(w)
  \/ \E some \in SUBSET Jobs : Recover(some)

LeaseSpec == LeaseInit /\ [][LeaseNext]_leaseVars

=============================================================================
