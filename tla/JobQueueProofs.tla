--------------------------- MODULE JobQueueProofs ---------------------------
(***************************************************************************)
(* What TLAPS proves of JobQueue, for every number of jobs and workers.    *)
(***************************************************************************)
EXTENDS JobQueue, TLAPS, FiniteSetTheorems

-----------------------------------------------------------------------------
(***************************************************************************)
(* Types.  mark_failed looks its delay up by the attempts it has read, so  *)
(* typing needs that a claimed row has at least one attempt.               *)
(***************************************************************************)
Busy == {"handling", "finishing", "writing"}

WorkerShape ==
  \A w \in Workers :
    /\ pc[w] \in Busy => cur[w] \in Jobs /\ attempts[cur[w]] >= 1
    /\ pc[w] \notin Busy => cur[w] = NoJob
    /\ pc[w] \in {"finishing", "writing"} => outcome[w] # "none"
    /\ pc[w] = "writing" => seen[w].attempts >= 1
    /\ \A j \in batch[w] : attempts[j] >= 1

TypeInv == TypeOK /\ WorkerShape

\* Every step of a row's attempts keeps a row that was claimed once claimed.
LEMMA TypeInvStep == TypeInv /\ [Next]_vars => TypeInv'
<1> SUFFICES ASSUME TypeInv, [Next]_vars
             PROVE  TypeInv'
  OBVIOUS
<1> USE JobQueueAssumption DEF TypeInv, TypeOK, WorkerShape, Busy, Phases, Outcomes,
        Statuses, Finished, Null, Goto, rowVars, histVars
<1>1. ASSUME NEW j \in Jobs, NEW delay \in EnqueueDelays, Enqueue(j, delay)
      PROVE  TypeInv'
  BY <1>1 DEF Enqueue
<1>2. ASSUME NEW w \in Workers, RequeueStale(w)
      PROVE  TypeInv'
  BY <1>2 DEF RequeueStale, Stale, Evicted
<1>3. ASSUME NEW w \in Workers, Claim(w)
      PROVE  TypeInv'
  <2>1. PICK ids \in SUBSET Jobs :
          /\ status' = [j \in Jobs |-> IF j \in ids THEN "RUNNING" ELSE status[j]]
          /\ attempts' = [j \in Jobs |-> IF j \in ids THEN attempts[j] + 1 ELSE attempts[j]]
          /\ age' = [j \in Jobs |-> IF j \in ids THEN 0 ELSE age[j]]
          /\ batch' = [batch EXCEPT ![w] = ids]
    BY <1>3 DEF Claim, Batches, Due
  <2>2. TypeOK'
    BY <1>3, <2>1 DEF Claim
  <2>3. WorkerShape'
    BY <1>3, <2>1 DEF Claim
  <2> QED
    BY <2>2, <2>3
<1>4. ASSUME NEW w \in Workers, ClaimNothing(w)
      PROVE  TypeInv'
  BY <1>4 DEF ClaimNothing
<1>5. ASSUME NEW w \in Workers, NEW j \in Jobs, StartJob(w, j)
      PROVE  TypeInv'
  BY <1>5, ZenonT(60) DEF StartJob
<1>6. ASSUME NEW w \in Workers, EndBatch(w)
      PROVE  TypeInv'
  BY <1>6 DEF EndBatch
<1>7. ASSUME NEW w \in Workers, HandlerCommits(w)
      PROVE  TypeInv'
  BY <1>7 DEF HandlerCommits, EndHandler
<1>8. ASSUME NEW w \in Workers, HandlerRaises(w)
      PROVE  TypeInv'
  BY <1>8 DEF HandlerRaises, EndHandler
<1>9. ASSUME NEW w \in Workers, FinishRead(w)
      PROVE  TypeInv'
  BY <1>9 DEF FinishRead, Snapshots
<1>10. ASSUME NEW w \in Workers, FinishWrite(w)
       PROVE  TypeInv'
  <2> DEFINE j == cur[w]
  <2>0. j \in Jobs /\ seen[w] \in Snapshots
    BY <1>10 DEF FinishWrite
  <2>1. /\ status' \in [Jobs -> Statuses]
        /\ attempts' \in [Jobs -> Nat]
        /\ wait' \in [Jobs -> Nat]
        /\ age' \in [Jobs -> Nat \cup {Null}]
        /\ \A k \in Jobs : attempts[k] >= 1 => attempts'[k] >= 1
    <3>1. CASE MarkSucceeded(j, seen[w])
      BY <2>0, <3>1 DEF MarkSucceeded, Assign
    <3>2. CASE MarkForRetry(j, seen[w])
      <4>1. seen[w].attempts \in 1..MaxAttempts
        BY <1>10, <2>0, <3>2 DEF FinishWrite, MarkForRetry, Snapshots
      <4> QED
        BY <2>0, <3>2, <4>1 DEF MarkForRetry, Assign, Snapshots
    <3>3. CASE MarkFailed(j, seen[w])
      BY <2>0, <3>3 DEF MarkFailed, Assign
    <3>4. CASE MarkPermanentlyFailed(j, seen[w])
      BY <2>0, <3>4 DEF MarkPermanentlyFailed, Assign
    <3> QED
      BY <1>10, <3>1, <3>2, <3>3, <3>4 DEF FinishWrite
  <2>2. TypeOK'
    BY <1>10, <2>1 DEF FinishWrite, Snapshots, NothingSeen
  <2>3. WorkerShape'
    BY <1>10, <2>1 DEF FinishWrite
  <2> QED
    BY <2>2, <2>3
<1>11. ASSUME NEW w \in Workers, Restart(w)
       PROVE  TypeInv'
  BY <1>11 DEF Restart
<1>12. ASSUME NEW w \in Workers, Crash(w) \/ TickFails(w)
       PROVE  TypeInv'
  <2>1. PICK phase \in {"down", "sleeping"} : Forget(w, phase)
    BY <1>12 DEF Crash, TickFails
  <2>2. NothingSeen \in Snapshots
    BY DEF NothingSeen, Snapshots
  <2>3. TypeOK'
    BY <2>1, <2>2 DEF Forget
  <2>4. WorkerShape'
    BY <2>1 DEF Forget
  <2> QED
    BY <2>3, <2>4
<1>13. CASE Tick
  <2>1. UNION {Idling(w) : w \in Workers} \subseteq Jobs
    BY DEF Idling, Holds
  <2>2. waited' \subseteq Jobs
    BY <1>13, <2>1 DEF Tick
  <2>3. TypeOK'
    BY <1>13, <2>2 DEF Tick, MayPass, Older
  <2>4. WorkerShape'
    BY <1>13 DEF Tick
  <2> QED
    BY <2>3, <2>4
<1>14. CASE UNCHANGED vars
  BY <1>14 DEF vars
<1> QED
  BY <1>1, <1>2, <1>3, <1>4, <1>5, <1>6, <1>7, <1>8, <1>9, <1>10, <1>11, <1>12,
     <1>13, <1>14 DEF Next, Step

LEMMA InitTypeInv == Init => TypeInv
  BY JobQueueAssumption DEF Init, TypeInv, TypeOK, WorkerShape, Busy, Phases, Outcomes,
     Statuses, Finished, Null, Snapshots, NothingSeen

\* Every reachable state of the queue is well typed.
THEOREM TypeCorrect == Spec => []TypeOK
<1>1. TypeInv => TypeOK
  BY DEF TypeInv
<1> QED
  BY <1>1, InitTypeInv, TypeInvStep, PTL DEF Spec

-----------------------------------------------------------------------------
(***************************************************************************)
(* A worker goes through its batch job by job, whatever the batch size.    *)
(***************************************************************************)
BatchShape ==
  \A w \in Workers :
    /\ batch[w] # {} => pc[w] \in Busy \cup {"batch"}
    /\ pc[w] \in Busy => cur[w] \notin batch[w]
    /\ pc[w] = "handling" => cur[w] \notin UnknownTasks
    /\ outcome[w] = "permanent" => cur[w] \in UnknownTasks /\ pc[w] \in Busy

LEMMA BatchShapeStep == TypeInv /\ BatchShape /\ [Next]_vars => BatchShape'
<1> SUFFICES ASSUME TypeInv, BatchShape, [Next]_vars
             PROVE  BatchShape'
  OBVIOUS
<1> USE JobQueueAssumption DEF TypeInv, TypeOK, WorkerShape, BatchShape, Busy,
        Outcomes, Phases, Goto, rowVars, histVars
<1>1. ASSUME NEW j \in Jobs, NEW delay \in EnqueueDelays, Enqueue(j, delay)
      PROVE  BatchShape'
  BY <1>1 DEF Enqueue
<1>2. ASSUME NEW w \in Workers, RequeueStale(w) \/ ClaimNothing(w) \/ EndBatch(w) \/ Restart(w)
      PROVE  BatchShape'
  BY <1>2 DEF RequeueStale, ClaimNothing, EndBatch, Restart
<1>3. ASSUME NEW w \in Workers, Claim(w)
      PROVE  BatchShape'
  <2>1. PICK ids : batch' = [batch EXCEPT ![w] = ids]
    BY <1>3 DEF Claim
  <2> QED BY <1>3, <2>1 DEF Claim
<1>4. ASSUME NEW w \in Workers, NEW j \in Jobs, StartJob(w, j)
      PROVE  BatchShape'
  BY <1>4 DEF StartJob
<1>5. ASSUME NEW w \in Workers, HandlerCommits(w) \/ HandlerRaises(w)
      PROVE  BatchShape'
  BY <1>5 DEF HandlerCommits, HandlerRaises, EndHandler
<1>6. ASSUME NEW w \in Workers, FinishRead(w) \/ FinishWrite(w)
      PROVE  BatchShape'
  <2>1. /\ pc[w] \in {"finishing", "writing"} /\ batch' = batch
        /\ \/ /\ UNCHANGED <<cur, outcome>> /\ pc' = [pc EXCEPT ![w] = "writing"]
           \/ /\ cur' = [cur EXCEPT ![w] = NoJob] /\ pc' = [pc EXCEPT ![w] = "batch"]
              /\ outcome' = [outcome EXCEPT ![w] = "none"]
    BY <1>6 DEF FinishRead, FinishWrite
  <2> QED BY <2>1, ZenonT(60)
<1>7. ASSUME NEW w \in Workers, Crash(w) \/ TickFails(w)
      PROVE  BatchShape'
  BY <1>7 DEF Crash, TickFails, Forget
<1>8. CASE Tick \/ UNCHANGED vars
  BY <1>8 DEF Tick, vars
<1> QED
  BY <1>1, <1>2, <1>3, <1>4, <1>5, <1>6, <1>7, <1>8 DEF Next, Step

-----------------------------------------------------------------------------
(***************************************************************************)
(* What an outcome means, whatever the batch size and however slow the     *)
(* workers: the two halves of _finish carry what they need about the row.  *)
(***************************************************************************)
OutcomeInv ==
  /\ TypeInv
  /\ SuccessIsCommitted
  /\ FailedIsExhausted
  /\ \A j \in Jobs : attempts[j] >= 1 => status[j] # "ABSENT"
  /\ \A w \in Workers :
       pc[w] \in {"finishing", "writing"} /\ outcome[w] = "ok" => effects[cur[w]] >= 1
  /\ \A w \in Workers :
       pc[w] = "writing" /\ seen[w].attempts >= MaxAttempts => attempts[cur[w]] >= MaxAttempts

LEMMA OutcomeInvStep == OutcomeInv /\ [Next]_vars => OutcomeInv'
<1> SUFFICES ASSUME OutcomeInv, [Next]_vars
             PROVE  OutcomeInv'
  OBVIOUS
<1>0. TypeInv'
  BY TypeInvStep DEF OutcomeInv
<1> USE JobQueueAssumption DEF OutcomeInv, SuccessIsCommitted, FailedIsExhausted, Goto, rowVars, histVars
<1> USE <1>0 DEF TypeInv, TypeOK, WorkerShape, Busy
<1>1. ASSUME NEW j \in Jobs, NEW delay \in EnqueueDelays, Enqueue(j, delay)
      PROVE  OutcomeInv'
  BY <1>1 DEF Enqueue
<1>2. ASSUME NEW w \in Workers, RequeueStale(w)
      PROVE  OutcomeInv'
  BY <1>2 DEF RequeueStale, Stale
<1>3. ASSUME NEW w \in Workers, Claim(w)
      PROVE  OutcomeInv'
  <2>1. PICK ids \in SUBSET Jobs :
          /\ status' = [j \in Jobs |-> IF j \in ids THEN "RUNNING" ELSE status[j]]
          /\ attempts' = [j \in Jobs |-> IF j \in ids THEN attempts[j] + 1 ELSE attempts[j]]
    BY <1>3, ZenonT(60) DEF Claim, Batches, Due
  <2> QED
    BY <1>3, <2>1 DEF Claim
<1>4. ASSUME NEW w \in Workers, ClaimNothing(w)
      PROVE  OutcomeInv'
  BY <1>4 DEF ClaimNothing
<1>5. ASSUME NEW w \in Workers, NEW j \in Jobs, StartJob(w, j)
      PROVE  OutcomeInv'
  BY <1>5 DEF StartJob
<1>6. ASSUME NEW w \in Workers, EndBatch(w)
      PROVE  OutcomeInv'
  BY <1>6 DEF EndBatch
<1>7. ASSUME NEW w \in Workers, HandlerCommits(w)
      PROVE  OutcomeInv'
  BY <1>7 DEF HandlerCommits, EndHandler
<1>8. ASSUME NEW w \in Workers, HandlerRaises(w)
      PROVE  OutcomeInv'
  BY <1>8 DEF HandlerRaises, EndHandler
<1>9. ASSUME NEW w \in Workers, FinishRead(w)
      PROVE  OutcomeInv'
  BY <1>9 DEF FinishRead
<1>10. ASSUME NEW w \in Workers, FinishWrite(w)
       PROVE  OutcomeInv'
  <2> DEFINE j == cur[w]
  <2>0. j \in Jobs /\ seen[w].attempts \in Nat
    BY <1>10 DEF FinishWrite, Snapshots
  <2>1. /\ SuccessIsCommitted'
        /\ FailedIsExhausted'
        /\ \A k \in Jobs : attempts[k] >= MaxAttempts => attempts'[k] >= MaxAttempts
        /\ \A k \in Jobs : attempts'[k] >= 1 => status'[k] # "ABSENT"
    <3>1. CASE outcome[w] = "ok" /\ MarkSucceeded(j, seen[w])
      BY <1>10, <2>0, <3>1 DEF FinishWrite, MarkSucceeded, Assign
    <3>2. CASE MarkForRetry(j, seen[w])
      BY <1>10, <2>0, <3>2 DEF FinishWrite, MarkForRetry, Assign
    <3>3. CASE MarkFailed(j, seen[w])
      BY <1>10, <2>0, <3>3 DEF FinishWrite, MarkFailed, Assign
    <3>4. CASE MarkPermanentlyFailed(j, seen[w])
      BY <1>10, <2>0, <3>4 DEF FinishWrite, MarkPermanentlyFailed, Assign
    <3> QED
      BY <1>10, <3>1, <3>2, <3>3, <3>4 DEF FinishWrite
  <2> QED
    BY <1>10, <2>1 DEF FinishWrite
<1>11. ASSUME NEW w \in Workers, Restart(w)
       PROVE  OutcomeInv'
  BY <1>11 DEF Restart
<1>12. ASSUME NEW w \in Workers, Crash(w) \/ TickFails(w)
       PROVE  OutcomeInv'
  <2>1. PICK phase \in {"down", "sleeping"} : Forget(w, phase)
    BY <1>12 DEF Crash, TickFails
  <2> QED
    BY <2>1 DEF Forget
<1>13. CASE Tick
  BY <1>13 DEF Tick
<1>14. CASE UNCHANGED vars
  BY <1>14 DEF vars
<1> QED
  BY <1>1, <1>2, <1>3, <1>4, <1>5, <1>6, <1>7, <1>8, <1>9, <1>10, <1>11, <1>12,
     <1>13, <1>14 DEF Next, Step

LEMMA OutcomeInvariant == Spec => []OutcomeInv
<1>1. Init => OutcomeInv
  <2>1. Init => TypeInv
    BY InitTypeInv
  <2> QED
    BY <2>1 DEF Init, OutcomeInv, SuccessIsCommitted, FailedIsExhausted
<1> QED
  BY <1>1, OutcomeInvStep, PTL DEF Spec

\* No job is reported SUCCEEDED without its handler's work, whatever the batch
\* size and however late a worker writes the outcome down.
THEOREM SuccessCommitted == Spec => []SuccessIsCommitted
<1>1. OutcomeInv => SuccessIsCommitted
  BY DEF OutcomeInv
<1> QED
  BY <1>1, OutcomeInvariant, PTL

\* No job is given up before its attempts are used up.
THEOREM FailedExhausted == Spec => []FailedIsExhausted
<1>1. OutcomeInv => FailedIsExhausted
  BY DEF OutcomeInv
<1> QED
  BY <1>1, OutcomeInvariant, PTL

-----------------------------------------------------------------------------
(***************************************************************************)
(* Claims as leases, for every batch size and however slow the workers.    *)
(* Two histories carry the argument.  A job outside lapsed was never taken *)
(* from a worker that was still there, so it is held by one worker at most *)
(* and RUNNING while it is.  A job outside waited was never passed over by *)
(* time outside its handler, so its age is the running time of its         *)
(* handler, which wait_for bounds by the timeout of requeue_stale: the     *)
(* sweep does not take it, and lapsed stays within waited.                 *)
(***************************************************************************)
Exclusive(w) ==
  \A j \in Holds(w) \ lapsed :
    /\ status[j] = "RUNNING"
    /\ \A v \in Workers : j \in Holds(v) => v = w

Snapshot(w) == pc[w] = "writing" /\ cur[w] \notin lapsed => seen[w].status = "RUNNING"

Punctual(w) ==
  /\ pc[w] # "handling" => elapsed[w] = 0
  /\ \A j \in Holds(w) \ waited :
       /\ age[j] \in 0..Timeout
       /\ j \in batch[w] => age[j] = 0
       /\ Handles(w, j) => age[j] = elapsed[w]

LeaseInv ==
  /\ TypeInv
  /\ BatchShape
  /\ lapsed \subseteq waited
  /\ \A w \in Workers : Exclusive(w) /\ Snapshot(w) /\ Punctual(w)

\* A step after which every worker holds no more than before and every job that
\* was spared so far is still RUNNING.
LEMMA LeaseFrame ==
  ASSUME LeaseInv, [Next]_vars,
         lapsed \subseteq lapsed', lapsed' \subseteq waited', waited \subseteq waited',
         \A w \in Workers : Holds(w)' \subseteq Holds(w),
         \A w \in Workers : \A j \in Holds(w)' \ lapsed' : status'[j] = status[j],
         \A w \in Workers : Snapshot(w)' /\ Punctual(w)'
  PROVE  LeaseInv'
<1>1. TypeInv' /\ BatchShape'
  BY TypeInvStep, BatchShapeStep DEF LeaseInv
<1>2. \A w \in Workers : Exclusive(w)'
  BY DEF LeaseInv, Exclusive
<1> QED BY <1>1, <1>2 DEF LeaseInv

LEMMA LeaseInvStep == LeaseInv /\ [Next]_vars => LeaseInv'
<1> SUFFICES ASSUME LeaseInv, [Next]_vars
             PROVE  LeaseInv'
  OBVIOUS
<1>0. TypeInv /\ TypeInv' /\ BatchShape /\ BatchShape'
  BY TypeInvStep, BatchShapeStep DEF LeaseInv
<1>t. /\ pc \in [Workers -> Phases] /\ batch \in [Workers -> SUBSET Jobs]
      /\ cur \in [Workers -> Jobs \cup {NoJob}] /\ elapsed \in [Workers -> 0..Timeout]
      /\ seen \in [Workers -> Snapshots] /\ status \in [Jobs -> Statuses]
      /\ age \in [Jobs -> Nat \cup {Null}] /\ lapsed \subseteq Jobs /\ waited \subseteq Jobs
  BY <1>0 DEF TypeInv, TypeOK
<1>a. \A w \in Workers :
        /\ Holds(w) \subseteq Jobs
        /\ pc[w] \in Busy => cur[w] \in Holds(w) /\ cur[w] \notin batch[w]
        /\ pc[w] \notin Busy => Holds(w) = batch[w]
        /\ pc[w] \notin Busy \cup {"batch"} => Holds(w) = {}
  BY <1>0, <1>t, JobQueueAssumption DEF Holds, TypeInv, WorkerShape, BatchShape
<1>b. lapsed \subseteq waited /\ \A w \in Workers : Exclusive(w) /\ Snapshot(w) /\ Punctual(w)
  BY DEF LeaseInv
<1>c. ASSUME lapsed' = lapsed, waited' = waited,
             \A w \in Workers : Holds(w)' \subseteq Holds(w),
             \A w \in Workers : \A j \in Holds(w)' \ lapsed : status'[j] = status[j],
             \A w \in Workers : Snapshot(w)' /\ Punctual(w)'
      PROVE  LeaseInv'
  BY <1>b, <1>c, LeaseFrame
<1>1. ASSUME NEW j \in Jobs, NEW delay \in EnqueueDelays, Enqueue(j, delay)
      PROVE  LeaseInv'
  <2>1. UNCHANGED <<pc, batch, cur, elapsed, seen, age, lapsed, waited>>
    BY <1>1 DEF Enqueue, histVars
  <2>2. \A w \in Workers : Holds(w)' = Holds(w) /\ Snapshot(w)' /\ Punctual(w)'
    BY <1>b, <2>1 DEF Holds, Snapshot, Punctual, Handles
  <2>3. \A w \in Workers : \A i \in Holds(w)' \ lapsed : status'[i] = status[i]
    BY <1>1, <1>t, <1>a, <1>b, <2>2 DEF Enqueue, Exclusive
  <2> QED BY <1>c, <2>1, <2>2, <2>3
<1>2. ASSUME NEW w \in Workers, RequeueStale(w)
      PROVE  LeaseInv'
  <2>1. /\ UNCHANGED <<batch, cur, elapsed, seen, waited>>
        /\ pc[w] = "idle" /\ pc' = [pc EXCEPT ![w] = "polled"]
        /\ status' = [j \in Jobs |-> IF Stale(j) THEN "PENDING" ELSE status[j]]
        /\ age' = [j \in Jobs |-> IF Stale(j) THEN Null ELSE age[j]]
        /\ lapsed' = lapsed \cup Evicted
    BY <1>2 DEF RequeueStale, Goto
  <2>2. \A v \in Workers : Holds(v)' = Holds(v)
    BY <2>1 DEF Holds
  <2>3. \A v \in Workers : \A j \in Holds(v) \ waited : ~Stale(j)
    BY <1>b, JobQueueAssumption DEF Stale, Punctual
  <2>4. Evicted \subseteq waited
    BY <1>a, <2>3 DEF Evicted
  <2>5. \A v \in Workers : \A j \in Holds(v)' \ lapsed' : status'[j] = status[j]
    BY <1>a, <2>1, <2>2 DEF Evicted
  <2>6. \A v \in Workers : Snapshot(v)'
    BY <1>t, <1>b, <2>1 DEF Snapshot
  <2>7. \A v \in Workers : \A j \in Holds(v) \ waited : age'[j] = age[j]
    BY <1>a, <2>1, <2>3
  <2>8. \A v \in Workers : Punctual(v)'
    <3> TAKE v \in Workers
    <3>1. pc'[v] = "handling" <=> pc[v] = "handling"
      BY <1>t, <2>1
    <3> QED BY <1>b, <2>1, <2>2, <2>7, <3>1 DEF Punctual, Handles
  <2> QED BY <1>b, <2>1, <2>2, <2>4, <2>5, <2>6, <2>8, LeaseFrame
<1>3. ASSUME NEW w \in Workers, Claim(w)
      PROVE  LeaseInv'
  <2>1. PICK ids \in Batches :
          /\ status' = [j \in Jobs |-> IF j \in ids THEN "RUNNING" ELSE status[j]]
          /\ age' = [j \in Jobs |-> IF j \in ids THEN 0 ELSE age[j]]
          /\ batch' = [batch EXCEPT ![w] = ids]
    BY <1>3 DEF Claim
  <2>2. ids \subseteq Jobs /\ \A j \in ids : status[j] = "PENDING"
    BY DEF Batches, Due
  <2>3. /\ pc[w] = "polled" /\ pc' = [pc EXCEPT ![w] = "batch"]
        /\ UNCHANGED <<cur, elapsed, seen, lapsed, waited>>
    BY <1>3 DEF Claim, Goto, histVars
  <2>4. Holds(w) = {} /\ Holds(w)' = ids /\ elapsed[w] = 0
    <3>1. cur[w] = NoJob
      BY <1>0, <2>3 DEF TypeInv, WorkerShape, Busy
    <3> QED BY <1>t, <1>a, <1>b, <2>1, <2>2, <2>3, <3>1 DEF Holds, Busy, Punctual
  <2>5. \A v \in Workers : v # w => Holds(v)' = Holds(v) /\ pc'[v] = pc[v] /\ batch'[v] = batch[v]
    BY <1>t, <2>1, <2>3 DEF Holds
  <2>6. \A v \in Workers : Holds(v) \cap ids \subseteq lapsed
    BY <1>b, <2>2 DEF Exclusive
  <2>7. \A v \in Workers : Exclusive(v)'
    <3>1. \A j \in ids : status'[j] = "RUNNING"
      BY <2>1, <2>2
    <3>2. \A v \in Workers : \A j \in Holds(v) \ lapsed : status'[j] = status[j]
      BY <1>a, <2>1, <2>6
    <3>3. ASSUME NEW v \in Workers, v # w PROVE Exclusive(v)'
      BY <1>b, <2>3, <2>4, <2>5, <2>6, <3>2, <3>3 DEF Exclusive
    <3>4. Exclusive(w)'
      BY <2>3, <2>4, <2>5, <2>6, <3>1 DEF Exclusive
    <3> QED BY <3>3, <3>4
  <2>8. \A v \in Workers : Snapshot(v)'
    BY <1>t, <1>b, <2>3 DEF Snapshot
  <2>9. \A v \in Workers : Punctual(v)'
    <3>1. Punctual(w)'
      BY <1>t, <2>1, <2>2, <2>3, <2>4, JobQueueAssumption DEF Punctual, Handles
    <3>2. ASSUME NEW v \in Workers, v # w PROVE Punctual(v)'
      <4>1. \A j \in Holds(v) \ waited : age'[j] = age[j]
        BY <1>a, <1>b, <2>1, <2>6
      <4> QED BY <1>b, <2>3, <2>5, <3>2, <4>1 DEF Punctual, Handles
    <3> QED BY <3>1, <3>2
  <2> QED BY <1>0, <1>b, <2>3, <2>7, <2>8, <2>9 DEF LeaseInv
<1>4. ASSUME NEW w \in Workers, ClaimNothing(w) \/ EndBatch(w) \/ Restart(w)
      PROVE  LeaseInv'
  <2>1. /\ UNCHANGED <<status, age, batch, cur, elapsed, seen, lapsed, waited>>
        /\ pc[w] \in {"polled", "batch", "down"}
        /\ \E phase \in {"sleeping", "idle"} : pc' = [pc EXCEPT ![w] = phase]
    BY <1>4 DEF ClaimNothing, EndBatch, Restart, Goto, rowVars, histVars
  <2>2. \A v \in Workers : Holds(v)' = Holds(v)
    BY <2>1 DEF Holds
  <2>3. \A v \in Workers : /\ pc'[v] = "handling" <=> pc[v] = "handling"
                           /\ pc'[v] = "writing" <=> pc[v] = "writing"
    BY <1>t, <2>1
  <2>4. \A v \in Workers : Snapshot(v)' /\ Punctual(v)'
    BY <1>b, <2>1, <2>2, <2>3 DEF Snapshot, Punctual, Handles
  <2> QED BY <1>c, <2>1, <2>2, <2>4
<1>5. ASSUME NEW w \in Workers, NEW j \in Jobs, StartJob(w, j)
      PROVE  LeaseInv'
  <2>1. /\ UNCHANGED <<status, age, elapsed, seen, lapsed, waited>>
        /\ pc[w] = "batch" /\ j \in batch[w]
        /\ batch' = [batch EXCEPT ![w] = @ \ {j}] /\ cur' = [cur EXCEPT ![w] = j]
        /\ \E phase \in {"handling", "finishing"} : pc' = [pc EXCEPT ![w] = phase]
    BY <1>5 DEF StartJob, Goto, rowVars, histVars
  <2>2. Holds(w)' = Holds(w)
    <3>1. cur[w] = NoJob
      BY <1>0, <2>1 DEF TypeInv, WorkerShape, Busy
    <3> QED BY <1>t, <2>1, <3>1, JobQueueAssumption DEF Holds
  <2>3. \A v \in Workers : v # w => /\ Holds(v)' = Holds(v) /\ pc'[v] = pc[v]
                                    /\ batch'[v] = batch[v] /\ cur'[v] = cur[v]
    BY <1>t, <2>1 DEF Holds
  <2>4. \A v \in Workers : Snapshot(v)'
    BY <1>t, <1>b, <2>1, <2>3 DEF Snapshot
  <2>5. Punctual(w)'
    <3>1. elapsed[w] = 0 /\ \A i \in batch[w] \ waited : age[i] = 0
      BY <1>b, <2>1 DEF Punctual, Holds
    <3>2. batch'[w] \subseteq batch[w] /\ cur'[w] = j /\ pc'[w] # "batch"
      BY <1>t, <2>1
    <3>3. \A i \in Holds(w) \ waited : age[i] \in 0..Timeout
      BY <1>b DEF Punctual
    <3> QED BY <2>1, <2>2, <3>1, <3>2, <3>3 DEF Punctual, Handles
  <2>6. \A v \in Workers : v # w => Punctual(v)'
    BY <1>b, <2>1, <2>3 DEF Punctual, Handles
  <2>7. \A v \in Workers : Holds(v)' = Holds(v)
    BY <2>2, <2>3
  <2>8. \A v \in Workers : Snapshot(v)' /\ Punctual(v)'
    BY <2>4, <2>5, <2>6
  <2> QED BY <1>c, <2>1, <2>7, <2>8
<1>6. ASSUME NEW w \in Workers, HandlerCommits(w) \/ HandlerRaises(w) \/ FinishRead(w)
      PROVE  LeaseInv'
  <2>1. /\ UNCHANGED <<status, age, batch, cur, lapsed, waited>>
        /\ pc[w] \in {"handling", "finishing"}
        /\ \/ pc[w] = "handling" /\ pc' = [pc EXCEPT ![w] = "finishing"] /\ seen' = seen
              /\ elapsed' = [elapsed EXCEPT ![w] = 0]
           \/ /\ pc' = [pc EXCEPT ![w] = "writing"] /\ elapsed' = elapsed
              /\ pc[w] = "finishing"
              /\ seen' = [seen EXCEPT ![w] = [status |-> status[cur[w]],
                                             attempts |-> attempts[cur[w]],
                                             dated |-> age[cur[w]] # Null]]
    BY <1>6 DEF HandlerCommits, HandlerRaises, EndHandler, FinishRead, Goto, rowVars, histVars
  <2>2. \A v \in Workers : Holds(v)' = Holds(v)
    BY <2>1 DEF Holds
  <2>3. cur[w] \in Holds(w)
    BY <1>a, <2>1 DEF Busy
  <2>4. cur[w] \notin lapsed => status[cur[w]] = "RUNNING"
    BY <1>b, <2>3 DEF Exclusive
  <2>5. \A v \in Workers : v # w => /\ pc'[v] = pc[v] /\ seen'[v] = seen[v]
                                    /\ elapsed'[v] = elapsed[v]
    BY <1>t, <2>1
  <2>6. Snapshot(w)'
    BY <1>t, <2>1, <2>4 DEF Snapshot
  <2>7. Punctual(w)'
    <3>1. pc'[w] # "handling" /\ elapsed'[w] = 0
      BY <1>t, <1>b, <2>1 DEF Punctual
    <3> QED BY <1>b, <2>1, <2>2, <3>1 DEF Punctual, Handles
  <2>8. \A v \in Workers : v # w => Snapshot(v)' /\ Punctual(v)'
    BY <1>b, <2>1, <2>2, <2>5 DEF Snapshot, Punctual, Handles
  <2> QED BY <1>c, <2>1, <2>2, <2>6, <2>7, <2>8
<1>7. ASSUME NEW w \in Workers, FinishWrite(w)
      PROVE  LeaseInv'
  <2>1. /\ pc[w] = "writing" /\ pc' = [pc EXCEPT ![w] = "batch"]
        /\ UNCHANGED <<batch, elapsed, lapsed, waited>>
        /\ cur' = [cur EXCEPT ![w] = NoJob]
        /\ seen' = [seen EXCEPT ![w] = NothingSeen]
    BY <1>7 DEF FinishWrite, Goto, histVars
  <2>2. \A j \in Jobs : j # cur[w] => status'[j] = status[j] /\ age'[j] = age[j]
    BY <1>t, <1>7 DEF FinishWrite, MarkSucceeded, MarkForRetry, MarkFailed,
       MarkPermanentlyFailed
  <2>3. Holds(w)' = Holds(w) \ {cur[w]} /\ cur[w] \in Holds(w)
    BY <1>t, <1>a, <2>1 DEF Holds, Busy
  <2>4. \A v \in Workers : v # w => /\ Holds(v)' = Holds(v) /\ pc'[v] = pc[v]
                                    /\ cur'[v] = cur[v] /\ seen'[v] = seen[v]
    BY <1>t, <2>1 DEF Holds
  <2>5. \A v \in Workers : \A j \in Holds(v)' \ lapsed :
          j \in Holds(v) /\ status'[j] = status[j] /\ age'[j] = age[j]
    BY <1>a, <1>b, <2>2, <2>3, <2>4 DEF Exclusive
  <2>6. \A v \in Workers : Snapshot(v)'
    BY <1>t, <1>b, <2>1, <2>4 DEF Snapshot
  <2>7. \A v \in Workers : Punctual(v)'
    <3> TAKE v \in Workers
    <3>1. pc'[v] = "handling" => pc[v] = "handling" /\ cur'[v] = cur[v]
      BY <1>t, <2>1, <2>4
    <3>2. pc'[v] # "handling" => elapsed'[v] = 0
      BY <1>t, <1>b, <2>1, <2>4 DEF Punctual
    <3>3. \A j \in Holds(v)' \ waited : j \in Holds(v) \ waited /\ age'[j] = age[j]
      BY <1>b, <2>5
    <3> QED BY <1>b, <2>1, <3>1, <3>2, <3>3 DEF Punctual, Handles
  <2>8. \A v \in Workers : Holds(v)' \subseteq Holds(v)
    BY <2>3, <2>4
  <2> QED BY <1>c, <2>1, <2>5, <2>6, <2>7, <2>8
<1>8. ASSUME NEW w \in Workers, Crash(w) \/ TickFails(w)
      PROVE  LeaseInv'
  <2>1. PICK phase \in {"down", "sleeping"} : Forget(w, phase)
    BY <1>8 DEF Crash, TickFails
  <2>2. /\ UNCHANGED <<status, age, lapsed, waited>>
        /\ pc' = [pc EXCEPT ![w] = phase] /\ batch' = [batch EXCEPT ![w] = {}]
        /\ cur' = [cur EXCEPT ![w] = NoJob] /\ elapsed' = [elapsed EXCEPT ![w] = 0]
        /\ seen' = [seen EXCEPT ![w] = NothingSeen]
    BY <2>1 DEF Forget, Goto, rowVars, histVars
  <2>3. Holds(w)' = {}
    BY <1>t, <2>2 DEF Holds
  <2>4. \A v \in Workers : v # w => /\ Holds(v)' = Holds(v) /\ pc'[v] = pc[v]
                                    /\ cur'[v] = cur[v] /\ seen'[v] = seen[v]
                                    /\ elapsed'[v] = elapsed[v] /\ batch'[v] = batch[v]
    BY <1>t, <2>2 DEF Holds
  <2>5. Snapshot(w)' /\ Punctual(w)'
    BY <1>t, <2>2, <2>3 DEF Snapshot, Punctual, Handles
  <2>6. \A v \in Workers : v # w => Snapshot(v)' /\ Punctual(v)'
    BY <1>b, <2>2, <2>4 DEF Snapshot, Punctual, Handles
  <2>7. \A v \in Workers : Holds(v)' \subseteq Holds(v) /\ Snapshot(v)' /\ Punctual(v)'
    BY <2>3, <2>4, <2>5, <2>6
  <2> QED BY <1>c, <2>2, <2>7
<1>9. CASE Tick
  <2>1. /\ UNCHANGED <<status, batch, cur, seen, lapsed>>
        /\ waited' = waited \cup UNION {Idling(v) : v \in Workers}
        /\ age' = [j \in Jobs |-> Older(age[j])]
        /\ elapsed' = [v \in Workers |-> IF pc[v] = "handling" THEN elapsed[v] + 1 ELSE elapsed[v]]
        /\ pc' = [v \in Workers |-> IF pc[v] = "sleeping" THEN "idle" ELSE pc[v]]
        /\ \A v \in Workers : pc[v] = "handling" => elapsed[v] < Timeout
    BY <1>9 DEF Tick, MayPass
  <2>2. \A v \in Workers : Holds(v)' = Holds(v)
    BY <2>1 DEF Holds
  <2>3. \A v \in Workers : /\ pc'[v] = "handling" <=> pc[v] = "handling"
                           /\ pc'[v] = "writing" <=> pc[v] = "writing"
    BY <1>t, <2>1
  <2>4. \A v \in Workers : Snapshot(v)'
    BY <1>b, <2>1, <2>3 DEF Snapshot
  <2>5. \A v \in Workers : \A j \in Holds(v)' \ waited' :
          pc[v] = "handling" /\ j = cur[v] /\ j \in Holds(v) \ waited /\ j \notin batch[v]
    BY <1>a, <2>1, <2>2 DEF Idling, Busy
  <2>6. \A v \in Workers : Punctual(v)'
    <3> TAKE v \in Workers
    <3>1. pc'[v] # "handling" => elapsed'[v] = 0
      BY <1>b, <2>1, <2>3 DEF Punctual
    <3>2. ASSUME NEW j \in Holds(v)' \ waited'
          PROVE  age'[j] \in 0..Timeout /\ age'[j] = elapsed'[v] /\ j \notin batch'[v]
      <4>1. /\ pc[v] = "handling" /\ j \in Jobs /\ age[j] = elapsed[v] /\ j \notin batch[v]
            /\ elapsed[v] \in 0..Timeout /\ elapsed[v] < Timeout
        BY <1>t, <1>a, <1>b, <2>1, <2>5 DEF Punctual, Handles
      <4>2. age'[j] = age[j] + 1 /\ elapsed'[v] = elapsed[v] + 1
        BY <2>1, <4>1, JobQueueAssumption DEF Older, Null
      <4> QED BY <2>1, <4>1, <4>2, JobQueueAssumption
    <3> QED BY <3>1, <3>2 DEF Punctual
  <2>7. lapsed' \subseteq waited'
    BY <1>b, <2>1
  <2> QED BY <2>1, <2>2, <2>4, <2>6, <2>7, LeaseFrame
<1>10. CASE UNCHANGED vars
  <2>1. UNCHANGED <<status, age, pc, batch, cur, elapsed, seen, lapsed, waited>>
    BY <1>10 DEF vars, rowVars, histVars
  <2>2. \A w \in Workers : Holds(w)' = Holds(w) /\ Snapshot(w)' /\ Punctual(w)'
    BY <1>b, <2>1 DEF Holds, Snapshot, Punctual, Handles
  <2> QED BY <1>c, <2>1, <2>2
<1> QED
  BY <1>1, <1>2, <1>3, <1>4, <1>5, <1>6, <1>7, <1>8, <1>9, <1>10 DEF Next, Step

LEMMA LeaseInvariant == Spec => []LeaseInv
<1>1. Init => LeaseInv
  <2>1. Init => TypeInv
    BY InitTypeInv
  <2> QED
    BY <2>1 DEF Init, LeaseInv, BatchShape, Busy, Holds, Exclusive, Snapshot, Punctual
<1> QED
  BY <1>1, LeaseInvStep, PTL DEF Spec

\* A sweep takes no job from a worker which is still there, unless time passed
\* over the job outside its handler: with any batch, any stall and any crash.
THEOREM ClaimKept == Spec => []ClaimIsKept
<1>1. LeaseInv => ClaimIsKept
  <2> SUFFICES ASSUME LeaseInv, NEW w \in Workers, NEW j \in Holds(w) \ waited
               PROVE  status[j] = "RUNNING" /\ age[j] <= Timeout
    BY DEF ClaimIsKept
  <2>1. j \in Holds(w) \ lapsed /\ Exclusive(w) /\ Punctual(w)
    BY DEF LeaseInv
  <2> QED BY <2>1, JobQueueAssumption DEF Exclusive, Punctual
<1> QED
  BY <1>1, LeaseInvariant, PTL

\* A job that no sweep took from a worker which was still there is never run by
\* two workers at once, whatever the batch size.
THEOREM NoDoubleRuns == Spec => []NoDoubleRunUnlessLapsed
<1>1. LeaseInv => NoDoubleRunUnlessLapsed
  <2> SUFFICES ASSUME LeaseInv, NEW j \in Jobs \ lapsed, NEW v \in Workers, NEW w \in Workers,
                      Handles(v, j), Handles(w, j)
               PROVE  v = w
    BY DEF NoDoubleRunUnlessLapsed, RunTwice
  <2>1. j \in Holds(v) /\ j \in Holds(w)
    BY JobQueueAssumption DEF Handles, Holds
  <2> QED
    BY <2>1 DEF LeaseInv, Exclusive
<1> QED
  BY <1>1, LeaseInvariant, PTL

\* Its outcome is never revived or overwritten, however late it was recorded.
THEOREM FinishedFinal == Spec => FinishedIsFinal
<1> DEFINE Stays == \A j \in Jobs \ lapsed : status[j] \in Finished => status'[j] = status[j]
<1>1. LeaseInv /\ [Next]_vars => [Stays]_vars
  <2> SUFFICES ASSUME LeaseInv, [Next]_vars
               PROVE  Stays
    OBVIOUS
  <2> USE DEF Finished, rowVars
  <2>1. ASSUME NEW w \in Workers, FinishWrite(w)
        PROVE  Stays
    <3>1. cur[w] \in Holds(w)
      BY <2>1, JobQueueAssumption DEF FinishWrite, LeaseInv, TypeInv, WorkerShape, Busy, Holds
    <3>2. cur[w] \notin lapsed => status[cur[w]] = "RUNNING"
      BY <3>1 DEF LeaseInv, Exclusive
    <3>3. \A j \in Jobs : j # cur[w] => status'[j] = status[j]
      BY <2>1 DEF LeaseInv, TypeInv, TypeOK, FinishWrite, MarkSucceeded, MarkForRetry,
         MarkFailed, MarkPermanentlyFailed
    <3> QED
      BY <3>2, <3>3
  <2>2. ASSUME NEW w \in Workers, Claim(w)
        PROVE  Stays
    BY <2>2 DEF Claim, Batches, Due
  <2>3. ASSUME NEW w \in Workers, Step(w), ~FinishWrite(w), ~Claim(w)
        PROVE  Stays
    BY <2>3 DEF Step, RequeueStale, Stale, ClaimNothing, StartJob, EndBatch, HandlerCommits,
       HandlerRaises, FinishRead, Restart
  <2>4. ASSUME NEW j \in Jobs, NEW delay \in EnqueueDelays, Enqueue(j, delay)
        PROVE  Stays
    BY <2>4 DEF Enqueue, LeaseInv, TypeInv, TypeOK
  <2>5. ASSUME NEW w \in Workers, Crash(w) \/ TickFails(w)
        PROVE  Stays
    BY <2>5 DEF Crash, TickFails, Forget
  <2>6. CASE Tick \/ UNCHANGED vars
    BY <2>6 DEF Tick, vars
  <2> QED
    BY <2>1, <2>2, <2>3, <2>4, <2>5, <2>6 DEF Next
<1> QED
  BY <1>1, LeaseInvariant, PTL DEF Spec, FinishedIsFinal

-----------------------------------------------------------------------------
(***************************************************************************)
(* The queue implements the leases.  What the mapping adds to the statuses *)
(* is the table of holders; LeaseInv says that the holder of a job which   *)
(* did not lapse is its only one, and that the job is RUNNING.             *)
(***************************************************************************)
Holders(j) == {w \in Workers : j \in Holds(w)}
HolderTable == [j \in Jobs |-> Holders(j)]
Mapped == <<status, HolderTable, effects, lapsed>>

LEMMA LeaseMeans ==
  ASSUME LeaseInv, NEW w \in Workers, NEW j \in Holds(w)
  PROVE  /\ j \in Jobs
         /\ j \in lapsed \/ (status[j] = "RUNNING" /\ Holders(j) = {w})
<1>1. j \in Jobs
  BY JobQueueAssumption DEF LeaseInv, TypeInv, TypeOK, Holds
<1>2. ASSUME j \notin lapsed
      PROVE  status[j] = "RUNNING" /\ \A v \in Workers : j \in Holds(v) => v = w
  BY <1>2 DEF LeaseInv, Exclusive
<1>3. ASSUME j \notin lapsed
      PROVE  Holders(j) = {w}
  BY <1>2, <1>3 DEF Holders
<1>. QED BY <1>1, <1>2, <1>3

\* A step that leaves the statuses, the work and every claim alone.
LEMMA LeasesStutter ==
  ASSUME UNCHANGED <<status, effects, lapsed>>, \A v \in Workers : Holds(v)' = Holds(v)
  PROVE  UNCHANGED Mapped
<1>1. \A j \in Jobs : Holders(j)' = Holders(j)
  BY DEF Holders
<1>. QED BY <1>1 DEF HolderTable, Mapped

LEMMA EnqueueSubmits ==
  ASSUME TypeInv, NEW j \in Jobs, NEW delay \in EnqueueDelays, Enqueue(j, delay)
  PROVE  Queue!Submit(j)
<1>1. UNCHANGED HolderTable
  BY DEF Enqueue, Holds, HolderTable, Holders
<1>. QED BY <1>1 DEF Enqueue, histVars, Queue!Submit, HolderTable, Holders

LEMMA SweepRecovers ==
  ASSUME LeaseInv, NEW w \in Workers, RequeueStale(w)
  PROVE  Queue!Recover({j \in Jobs : Stale(j)})
<1>1. UNCHANGED HolderTable
  BY DEF RequeueStale, Holds, HolderTable, Holders
<1>2. \A j \in Jobs : Stale(j) => status[j] = "RUNNING"
  BY DEF Stale
<1>3. Evicted = {j \in {i \in Jobs : Stale(i)} : HolderTable[j] # {}}
  BY DEF Evicted, HolderTable, Holders
<1>4. status' = [j \in Jobs |-> IF j \in {i \in Jobs : Stale(i)} THEN "PENDING" ELSE status[j]]
  BY DEF RequeueStale
<1>5. effects' = effects /\ lapsed' = lapsed \cup Evicted
  BY DEF RequeueStale
<1>. QED BY <1>1, <1>2, <1>3, <1>4, <1>5 DEF Queue!Recover, HolderTable, Holders

LEMMA ClaimTakes ==
  ASSUME LeaseInv, NEW w \in Workers, Claim(w)
  PROVE  \E ids \in SUBSET Jobs : Queue!Take(w, ids)
<1>1. PICK ids \in Batches :
        /\ status' = [i \in Jobs |-> IF i \in ids THEN "RUNNING" ELSE status[i]]
        /\ batch' = [batch EXCEPT ![w] = ids]
  BY DEF Claim
<1>2. ids \subseteq Jobs /\ \A j \in ids : status[j] = "PENDING"
  BY DEF Batches, Due
<1>3. /\ pc[w] = "polled" /\ cur' = cur /\ UNCHANGED <<effects, lapsed>>
      /\ batch \in [Workers -> SUBSET Jobs]
  BY DEF Claim, histVars, LeaseInv, TypeInv, TypeOK
<1>4. cur[w] = NoJob /\ batch[w] = {}
  BY <1>3 DEF LeaseInv, BatchShape, TypeInv, WorkerShape, Busy
<1>5. Holds(w) = {} /\ Holds(w)' = ids /\ \A v \in Workers : v # w => Holds(v)' = Holds(v)
  BY <1>1, <1>3, <1>4 DEF Holds
<1>6. \A j \in ids : j \in lapsed \/ HolderTable[j] = {}
  <2> SUFFICES ASSUME NEW j \in ids, j \notin lapsed, NEW v \in Workers, j \in Holds(v)
               PROVE  FALSE
    BY <1>2 DEF HolderTable, Holders
  <2> QED BY <1>2, LeaseMeans
<1>7. \A j \in Jobs : w \notin HolderTable[j]
  BY <1>5 DEF HolderTable, Holders
<1>8. HolderTable' = [j \in Jobs |-> IF j \in ids THEN HolderTable[j] \cup {w} ELSE HolderTable[j]]
  <2>1. \A j \in Jobs : Holders(j)' = IF j \in ids THEN Holders(j) \cup {w} ELSE Holders(j)
    BY <1>5 DEF Holders
  <2> QED BY <2>1 DEF HolderTable
<1>9. Queue!Take(w, ids)
  BY <1>1, <1>2, <1>3, <1>6, <1>7, <1>8 DEF Queue!Take, HolderTable, Holders
<1>. QED BY <1>2, <1>9

LEMMA CommitWorks ==
  ASSUME LeaseInv, NEW w \in Workers, HandlerCommits(w)
  PROVE  cur[w] \in Jobs /\ Queue!Work(w, cur[w])
<1>1. cur[w] \in Jobs /\ cur[w] \in Holds(w)
  BY JobQueueAssumption DEF HandlerCommits, LeaseInv, TypeInv, WorkerShape, Busy, Holds
<1>2. /\ w \in HolderTable[cur[w]]
      /\ cur[w] \in lapsed \/ (status[cur[w]] = "RUNNING" /\ HolderTable[cur[w]] = {w})
  BY <1>1, LeaseMeans DEF HolderTable, Holders
<1>3. UNCHANGED HolderTable
  BY DEF HandlerCommits, Holds, HolderTable, Holders
<1>4. /\ effects' = [effects EXCEPT ![cur[w]] = @ + 1]
      /\ UNCHANGED <<status, lapsed>>
  BY DEF HandlerCommits, rowVars
<1>. QED BY <1>1, <1>2, <1>3, <1>4 DEF Queue!Work, Queue!Leased, HolderTable, Holders

\* What a worker records of a job that did not lapse is what the row says then;
\* of one that did, it may be nothing.
LEMMA FinishSettles ==
  ASSUME LeaseInv, OutcomeInv, NEW w \in Workers, FinishWrite(w)
  PROVE  \E j \in Jobs, to \in {"PENDING", "RUNNING", "SUCCEEDED", "FAILED"} :
           Queue!Settle(w, j, to)
<1>1. PICK j \in Jobs : j = cur[w] /\ j \in Holds(w)
  BY JobQueueAssumption DEF FinishWrite, LeaseInv, TypeInv, WorkerShape, Busy, Holds
<1>2. j \in lapsed \/ (status[j] = "RUNNING" /\ Holders(j) = {w} /\ seen[w].status = "RUNNING")
  BY <1>1, LeaseMeans DEF FinishWrite, LeaseInv, Snapshot
<1>3. /\ pc[w] = "writing" /\ batch' = batch /\ cur' = [cur EXCEPT ![w] = NoJob]
      /\ UNCHANGED <<effects, lapsed>>
      /\ batch \in [Workers -> SUBSET Jobs] /\ status \in [Jobs -> Statuses]
      /\ cur \in [Workers -> Jobs \cup {NoJob}] /\ effects \in [Jobs -> Nat]
      /\ cur[w] \notin batch[w] /\ attempts[j] >= 1
  BY <1>1 DEF FinishWrite, histVars, LeaseInv, BatchShape, Busy, TypeInv, TypeOK, WorkerShape
<1>4. Holds(w)' = Holds(w) \ {j} /\ \A v \in Workers : v # w => Holds(v)' = Holds(v)
  BY <1>1, <1>3, JobQueueAssumption DEF Holds
<1>5. HolderTable' = [HolderTable EXCEPT ![j] = @ \ {w}]
  <2>1. Holders(j)' = Holders(j) \ {w} /\ \A i \in Jobs : i # j => Holders(i)' = Holders(i)
    BY <1>4 DEF Holders
  <2>. QED BY <2>1 DEF HolderTable
<1>6. PICK to : /\ status' = [status EXCEPT ![j] = to]
                /\ to \in {"PENDING", "SUCCEEDED", "FAILED"} \/ (j \in lapsed /\ to = status[j])
                /\ to = "SUCCEEDED" => outcome[w] = "ok" \/ to = status[j]
  <2>1. ASSUME NEW new \in {"PENDING", "SUCCEEDED", "FAILED"},
               status' = [status EXCEPT ![j] = Assign(j, seen[w].status, new)],
               new = "SUCCEEDED" => outcome[w] = "ok"
        PROVE  \E to : /\ status' = [status EXCEPT ![j] = to]
                       /\ \/ to \in {"PENDING", "SUCCEEDED", "FAILED"}
                          \/ j \in lapsed /\ to = status[j]
                       /\ to = "SUCCEEDED" => outcome[w] = "ok" \/ to = status[j]
    <3>1. CASE new # seen[w].status
      BY <2>1, <3>1 DEF Assign
    <3>2. CASE new = seen[w].status
      BY <1>2, <2>1, <3>2 DEF Assign
    <3> QED BY <3>1, <3>2
  <2> QED
    BY <1>1, <2>1 DEF FinishWrite, MarkSucceeded, MarkForRetry, MarkFailed, MarkPermanentlyFailed
<1>7. to = "SUCCEEDED" => effects[j] > 0
  <2>1. outcome[w] = "ok" => effects[j] >= 1
    BY <1>1, <1>3 DEF OutcomeInv
  <2>2. status[j] = "SUCCEEDED" => effects[j] >= 1
    BY DEF OutcomeInv, SuccessIsCommitted
  <2> QED BY <1>3, <1>6, <2>1, <2>2
<1>8. /\ w \in HolderTable[j]
      /\ j \in lapsed \/ (status[j] = "RUNNING" /\ HolderTable[j] = {w})
  BY <1>1, <1>2 DEF HolderTable, Holders
<1>9. to \in {"PENDING", "RUNNING", "SUCCEEDED", "FAILED"}
  <2>1. OutcomeInv /\ status[j] # "ABSENT"
    BY <1>1, <1>3 DEF OutcomeInv
  <2> QED BY <1>3, <1>6, <2>1 DEF Statuses, Finished
<1>. QED BY <1>1, <1>3, <1>5, <1>6, <1>7, <1>8, <1>9
     DEF Queue!Settle, Queue!Leased, HolderTable, Holders

LEMMA ForgettingAbandons ==
  ASSUME LeaseInv, NEW w \in Workers, NEW phase, Forget(w, phase)
  PROVE  Queue!Abandon(w)
<1>1. /\ Holds(w)' = {} /\ \A v \in Workers : v # w => Holds(v)' = Holds(v)
      /\ UNCHANGED <<status, effects, lapsed>>
  BY DEF Forget, rowVars, histVars, LeaseInv, TypeInv, TypeOK, Holds
<1>2. HolderTable' = [j \in Jobs |-> HolderTable[j] \ {w}]
  <2>1. \A j \in Jobs : Holders(j)' = Holders(j) \ {w}
    BY <1>1 DEF Holders
  <2> QED BY <2>1 DEF HolderTable
<1>. QED BY <1>1, <1>2 DEF Queue!Abandon, HolderTable, Holders

\* With any batch, any stall and any crash the queue implements the table of
\* leases, for any number of jobs, workers and faults: ImplementsLeases.
THEOREM QueueImplementsLeases == Spec => ImplementsLeases
<1>1. Init => Queue!LeaseInit
  <2>. SUFFICES ASSUME Init PROVE Queue!LeaseInit
    OBVIOUS
  <2>1. \A w \in Workers : Holds(w) = {}
    BY DEF Init, Holds
  <2>2. HolderTable = [j \in Jobs |-> {}]
    BY <2>1 DEF HolderTable, Holders
  <2>. QED BY <2>2 DEF Init, Queue!LeaseInit, HolderTable, Holders
<1>2. LeaseInv /\ OutcomeInv /\ [Next]_vars => [Queue!LeaseNext]_Mapped
  <2>. SUFFICES ASSUME LeaseInv, OutcomeInv, [Next]_vars
                PROVE  Queue!LeaseNext \/ UNCHANGED Mapped
    OBVIOUS
  <2>1. ASSUME NEW j \in Jobs, NEW delay \in EnqueueDelays, Enqueue(j, delay)
        PROVE  Queue!LeaseNext
    BY <2>1, EnqueueSubmits DEF LeaseInv, Queue!LeaseNext
  <2>2. ASSUME NEW w \in Workers, RequeueStale(w) PROVE Queue!LeaseNext
    <3>1. {j \in Jobs : Stale(j)} \in SUBSET Jobs
      OBVIOUS
    <3>. QED BY <2>2, <3>1, SweepRecovers DEF Queue!LeaseNext
  <2>3. ASSUME NEW w \in Workers, Claim(w) PROVE Queue!LeaseNext
    BY <2>3, ClaimTakes DEF Queue!LeaseNext
  <2>4. ASSUME NEW w \in Workers, HandlerCommits(w) PROVE Queue!LeaseNext
    BY <2>4, CommitWorks DEF Queue!LeaseNext
  <2>5. ASSUME NEW w \in Workers, FinishWrite(w) PROVE Queue!LeaseNext
    BY <2>5, FinishSettles DEF Queue!LeaseNext
  <2>6. ASSUME NEW w \in Workers, Crash(w) \/ TickFails(w) PROVE Queue!LeaseNext
    BY <2>6, ForgettingAbandons DEF Crash, TickFails, Queue!LeaseNext
  <2>7. ASSUME NEW w \in Workers, NEW j \in Jobs, StartJob(w, j)
        PROVE  UNCHANGED Mapped
    <3>1. /\ cur[w] = NoJob /\ j \in batch[w] /\ j # NoJob
          /\ batch' = [batch EXCEPT ![w] = @ \ {j}] /\ cur' = [cur EXCEPT ![w] = j]
          /\ batch \in [Workers -> SUBSET Jobs] /\ cur \in [Workers -> Jobs \cup {NoJob}]
      BY <2>7, JobQueueAssumption
         DEF StartJob, LeaseInv, TypeInv, TypeOK, WorkerShape, Busy
    <3>2. \A v \in Workers : Holds(v)' = Holds(v)
      BY <3>1 DEF Holds
    <3>. QED BY <2>7, <3>2, LeasesStutter DEF StartJob, rowVars, histVars
  <2>8. CASE \/ \E w \in Workers : \/ ClaimNothing(w) \/ EndBatch(w) \/ HandlerRaises(w)
                                   \/ FinishRead(w) \/ Restart(w)
             \/ Tick \/ UNCHANGED vars
    <3>1. UNCHANGED <<status, effects, lapsed, batch, cur>>
      BY <2>8 DEF ClaimNothing, EndBatch, HandlerRaises, FinishRead, Restart, Tick, vars, rowVars,
         histVars
    <3>. QED BY <3>1, LeasesStutter DEF Holds
  <2>. QED BY <2>1, <2>2, <2>3, <2>4, <2>5, <2>6, <2>7, <2>8 DEF Next, Step
<1>3. [Queue!LeaseNext]_Mapped => [Queue!LeaseNext]_(Queue!leaseVars)
  BY DEF Queue!leaseVars, Mapped, HolderTable, Holders
<1>. QED BY <1>1, <1>2, <1>3, LeaseInvariant, OutcomeInvariant, PTL
     DEF Spec, ImplementsLeases, Queue!LeaseSpec

-----------------------------------------------------------------------------
(***************************************************************************)
(* Without faults a commit is not repeated while no sweep interferes: the  *)
(* job is either settled or still held by the worker that is about to      *)
(* report its success.                                                     *)
(***************************************************************************)
Reported(j) ==
  \/ status[j] = "SUCCEEDED"
  \/ \E w \in Workers : /\ pc[w] \in {"finishing", "writing"}
                        /\ cur[w] = j
                        /\ outcome[w] = "ok"

OnceInv ==
  faults = 0 => \A j \in Jobs \ lapsed : effects[j] = 0 \/ (effects[j] = 1 /\ Reported(j))

LEMMA OnceInvStep == LeaseInv /\ OnceInv /\ [Next]_vars => OnceInv'
<1> SUFFICES ASSUME LeaseInv, OnceInv, [Next]_vars, faults' = 0, NEW j \in Jobs \ lapsed'
             PROVE  effects'[j] = 0 \/ (effects'[j] = 1 /\ Reported(j)')
  BY DEF OnceInv
<1> DEFINE Goal == effects'[j] = 0 \/ (effects'[j] = 1 /\ Reported(j)')
<1>0. TypeInv /\ \A w \in Workers : pc[w] \in Busy => cur[w] \in Holds(w)
  BY JobQueueAssumption DEF LeaseInv, Holds, TypeInv, TypeOK, WorkerShape
<1>a. /\ pc \in [Workers -> Phases] /\ outcome \in [Workers -> Outcomes]
      /\ cur \in [Workers -> Jobs \cup {NoJob}] /\ status \in [Jobs -> Statuses]
      /\ effects \in [Jobs -> Nat] /\ faults \in 0..MaxFaults
  BY <1>0 DEF TypeInv, TypeOK
<1>b. ASSUME NEW w \in Workers, pc[w] \in Busy, cur[w] \notin lapsed
      PROVE  /\ status[cur[w]] = "RUNNING"
             /\ \A v \in Workers : pc[v] \in Busy /\ cur[v] = cur[w] => v = w
  BY <1>0, <1>b DEF LeaseInv, Exclusive
<1>l. j \notin lapsed
  <2>1. lapsed \subseteq lapsed'
    BY DEF Next, Step, Enqueue, RequeueStale, Claim, ClaimNothing, StartJob, EndBatch,
       HandlerCommits, HandlerRaises, FinishRead, FinishWrite, Restart, Crash, TickFails, Forget,
       Tick, vars, histVars
  <2> QED BY <2>1
<1>c. faults = 0 => effects[j] = 0 \/ (effects[j] = 1 /\ Reported(j))
  BY <1>l DEF OnceInv
<1>1. CASE \E i \in Jobs, delay \in EnqueueDelays : Enqueue(i, delay)
  BY <1>1, <1>a, <1>b, <1>c, <1>l DEF Enqueue, histVars, Reported, Busy
<1>2. ASSUME NEW w \in Workers, RequeueStale(w)
      PROVE  Goal
  <2>1. /\ pc[w] = "idle" /\ pc' = [pc EXCEPT ![w] = "polled"]
        /\ UNCHANGED <<cur, outcome, effects, faults>>
        /\ status'[j] = IF Stale(j) THEN "PENDING" ELSE status[j]
        /\ j \notin Evicted
    BY <1>2 DEF RequeueStale, Goto
  <2>2. Reported(j) => ~Stale(j)
    <3>1. CASE status[j] = "SUCCEEDED"
      BY <3>1 DEF Stale
    <3>2. ASSUME NEW v \in Workers, pc[v] \in {"finishing", "writing"}, cur[v] = j PROVE ~Stale(j)
      BY <1>0, <2>1, <3>2 DEF Evicted, Busy
    <3> QED BY <3>1, <3>2 DEF Reported
  <2> QED BY <1>a, <1>c, <2>1, <2>2 DEF Reported
<1>3. ASSUME NEW w \in Workers, Claim(w)
      PROVE  Goal
  <2>1. /\ \A i \in Jobs : status[i] # "PENDING" => status'[i] = status[i]
        /\ pc[w] = "polled" /\ pc' = [pc EXCEPT ![w] = "batch"]
        /\ cur' = cur /\ outcome' = outcome /\ effects' = effects /\ faults' = faults
    BY <1>3 DEF Claim, Batches, Due, Goto, histVars
  <2> QED
    BY <2>1, <1>a, <1>c DEF Reported
<1>4. ASSUME NEW w \in Workers, ClaimNothing(w) \/ EndBatch(w) \/ Restart(w)
      PROVE  Goal
  BY <1>4, <1>a, <1>c DEF ClaimNothing, EndBatch, Restart, Goto, rowVars, histVars, Reported
<1>5. ASSUME NEW w \in Workers, NEW i \in Jobs, StartJob(w, i)
      PROVE  Goal
  BY <1>5, <1>a, <1>c DEF StartJob, Goto, rowVars, histVars, Reported
<1>6. ASSUME NEW w \in Workers, HandlerCommits(w)
      PROVE  Goal
  <2>1. pc[w] = "handling" /\ cur[w] \in Jobs
    BY <1>0, <1>6 DEF HandlerCommits, TypeInv, WorkerShape, Busy
  <2>3. /\ effects' = [effects EXCEPT ![cur[w]] = @ + 1]
        /\ pc' = [pc EXCEPT ![w] = "finishing"] /\ outcome' = [outcome EXCEPT ![w] = "ok"]
        /\ cur' = cur /\ status' = status /\ faults' = faults
    BY <1>6 DEF HandlerCommits, EndHandler, Goto, rowVars
  <2>4. CASE j = cur[w]
    <3>1. effects[j] = 0
      BY <1>b, <1>c, <1>l, <2>1, <2>3, <2>4 DEF Reported, Busy
    <3> QED BY <1>a, <2>1, <2>3, <2>4, <3>1 DEF Reported
  <2>5. CASE j # cur[w]
    BY <1>a, <1>c, <2>1, <2>3, <2>5 DEF Reported
  <2> QED
    BY <2>4, <2>5
<1>7. ASSUME NEW w \in Workers, HandlerRaises(w)
      PROVE  Goal
  BY <1>7, <1>a, <1>c DEF HandlerRaises, EndHandler, Goto, rowVars, histVars, Reported
<1>8. ASSUME NEW w \in Workers, FinishRead(w)
      PROVE  Goal
  BY <1>8, <1>a, <1>c DEF FinishRead, Goto, rowVars, histVars, Reported
<1>9. ASSUME NEW w \in Workers, FinishWrite(w)
      PROVE  Goal
  <2>1. /\ pc[w] = "writing" /\ pc' = [pc EXCEPT ![w] = "batch"]
        /\ cur' = [cur EXCEPT ![w] = NoJob] /\ outcome' = [outcome EXCEPT ![w] = "none"]
        /\ effects' = effects /\ faults' = faults
    BY <1>9 DEF FinishWrite, Goto, histVars
  <2>2. \A i \in Jobs : i # cur[w] => status'[i] = status[i]
    BY <1>9, <1>a DEF FinishWrite, MarkSucceeded, MarkForRetry, MarkFailed, MarkPermanentlyFailed
  <2>3. cur[w] \notin lapsed => seen[w].status = "RUNNING"
    BY <2>1 DEF LeaseInv, Snapshot
  <2>4. CASE j # cur[w]
    BY <1>a, <1>c, <2>1, <2>2, <2>4 DEF Reported
  <2>5. CASE j = cur[w] /\ outcome[w] = "ok"
    <3>1. status'[j] = "SUCCEEDED"
      BY <1>9, <1>a, <1>l, <2>3, <2>5 DEF FinishWrite, MarkSucceeded, Assign
    <3> QED
      BY <1>c, <2>1, <3>1 DEF Reported
  <2>6. CASE j = cur[w] /\ outcome[w] # "ok"
    <3>1. ~Reported(j)
      BY <1>b, <1>l, <2>1, <2>6 DEF Reported, Busy
    <3> QED
      BY <1>c, <2>1, <3>1
  <2> QED
    BY <2>4, <2>5, <2>6
<1>10. ASSUME NEW w \in Workers, Crash(w) \/ TickFails(w)
       PROVE  Goal
  <2>1. faults' = faults + 1
    BY <1>10 DEF Crash, TickFails, Forget
  <2> QED
    BY <1>a, <2>1
<1>11. CASE Tick
  BY <1>11, <1>a, <1>c DEF Tick, Reported
<1>12. CASE UNCHANGED vars
  BY <1>12, <1>c DEF vars, rowVars, histVars, Reported
<1> QED
  BY <1>1, <1>2, <1>3, <1>4, <1>5, <1>6, <1>7, <1>8, <1>9, <1>10, <1>11, <1>12 DEF Next, Step

\* In the absence of faults the work of a job is committed at most once, unless
\* a sweep took the job from its worker.
THEOREM OnceUnlessFaults == Spec => []OnceWithoutFaults
<1>1. Init => OnceInv
  BY DEF Init, OnceInv
<1>2. LeaseInv /\ OnceInv => OnceWithoutFaults
  BY DEF OnceInv, OnceWithoutFaults
<1> QED
  BY <1>1, <1>2, OnceInvStep, LeaseInvariant, PTL DEF Spec

-----------------------------------------------------------------------------
(***************************************************************************)
(* No RUNNING row without started_at, for any batch size: this needs only  *)
(* that a worker is not held up between the two halves of _finish and that *)
(* a retry waits (worker_retry_backoff_seconds is at least 1).  A row that *)
(* _finish read as finished is then not claimed again before it is         *)
(* written, because that would take the backoff to pass.                   *)
(***************************************************************************)
RowDated(j) ==
  /\ status[j] \in {"ABSENT", "PENDING"} => age[j] = Null
  /\ status[j] = "RUNNING" => age[j] # Null
  /\ attempts[j] >= 1 => status[j] # "ABSENT"

\* A job that neither a sweep nor a claim will touch in this tick.
Parked(j) == age[j] = Null /\ (status[j] \in Finished \/ (status[j] = "PENDING" /\ wait[j] >= 1))

SeenDated(w) ==
  pc[w] = "writing" =>
    /\ seen[w].status # "ABSENT"
    /\ seen[w].status = "PENDING" => ~seen[w].dated
    /\ seen[w].status = "RUNNING" => seen[w].dated
    /\ seen[w].status \in Finished /\ ~seen[w].dated => Parked(cur[w])

DatedInv ==
  /\ TypeInv
  /\ \A j \in Jobs : RowDated(j)
  /\ \A w \in Workers : SeenDated(w)

LEMMA DatedInvStep ==
  ASSUME Prompt, \A a \in 1..MaxAttempts : RetryDelay[a] >= 1
  PROVE  DatedInv /\ [Next]_vars => DatedInv'
<1> SUFFICES ASSUME DatedInv, [Next]_vars
             PROVE  DatedInv'
  OBVIOUS
<1>0. TypeInv /\ TypeInv'
  BY TypeInvStep DEF DatedInv
<1>a. \A w \in Workers : pc[w] \in Busy => cur[w] \in Jobs /\ attempts[cur[w]] >= 1
  BY <1>0 DEF TypeInv, WorkerShape
<1>b. ASSUME \A j \in Jobs : RowDated(j)',
             \A j \in Jobs : Parked(j) => Parked(j)',
             \A w \in Workers : pc'[w] = "writing" =>
               pc[w] = "writing" /\ seen'[w] = seen[w] /\ cur'[w] = cur[w]
      PROVE  DatedInv'
  BY <1>0, <1>a, <1>b DEF DatedInv, SeenDated, Busy
<1> USE <1>0 DEF TypeInv, TypeOK
<1>1. ASSUME NEW j \in Jobs, NEW delay \in EnqueueDelays, Enqueue(j, delay)
      PROVE  DatedInv'
  <2>1. attempts[j] \in Nat /\ ~(attempts[j] >= 1) /\ ~Parked(j)
    BY <1>1 DEF Enqueue, DatedInv, RowDated, Parked, Finished
  <2>2. age[j] = Null
    BY <1>1 DEF Enqueue, DatedInv, RowDated
  <2> QED
    BY <1>1, <1>b, <2>1, <2>2 DEF Enqueue, DatedInv, RowDated, Parked
<1>2. ASSUME NEW w \in Workers, RequeueStale(w)
      PROVE  DatedInv'
  BY <1>2, <1>b DEF RequeueStale, Stale, Goto, DatedInv, RowDated, Parked, Finished
<1>3. ASSUME NEW w \in Workers, Claim(w)
      PROVE  DatedInv'
  <2>1. PICK ids \in SUBSET Due :
          /\ status' = [j \in Jobs |-> IF j \in ids THEN "RUNNING" ELSE status[j]]
          /\ attempts' = [j \in Jobs |-> IF j \in ids THEN attempts[j] + 1 ELSE attempts[j]]
          /\ age' = [j \in Jobs |-> IF j \in ids THEN 0 ELSE age[j]]
    BY <1>3 DEF Claim, Batches
  <2>2. \A j \in Jobs : RowDated(j)'
    BY <2>1 DEF DatedInv, RowDated, Due, Null
  <2>3. \A j \in Jobs : Parked(j) => Parked(j)'
    BY <1>3, <2>1 DEF Claim, Parked, Due, Finished
  <2> QED
    BY <1>3, <1>b, <2>2, <2>3 DEF Claim, Goto
<1>4. ASSUME NEW w \in Workers, ClaimNothing(w) \/ EndBatch(w) \/ Restart(w)
      PROVE  DatedInv'
  BY <1>4, <1>b DEF ClaimNothing, EndBatch, Restart, Goto, rowVars, histVars, DatedInv, RowDated, Parked
<1>5. ASSUME NEW w \in Workers, NEW j \in Jobs, StartJob(w, j)
      PROVE  DatedInv'
  BY <1>5, <1>b DEF StartJob, Goto, rowVars, histVars, DatedInv, RowDated, Parked
<1>6. ASSUME NEW w \in Workers, HandlerCommits(w) \/ HandlerRaises(w)
      PROVE  DatedInv'
  BY <1>6, <1>b DEF HandlerCommits, HandlerRaises, EndHandler, Goto, rowVars, histVars, DatedInv, RowDated,
     Parked
<1>7. ASSUME NEW w \in Workers, FinishRead(w)
      PROVE  DatedInv'
  <2>1. /\ pc[w] = "finishing" /\ cur[w] \in Jobs /\ attempts[cur[w]] >= 1
        /\ RowDated(cur[w])
    BY <1>7, <1>a DEF FinishRead, Busy, DatedInv
  <2>2. /\ seen'[w].status = status[cur[w]]
        /\ seen'[w].dated = (age[cur[w]] # Null)
        /\ \A v \in Workers : v # w => seen'[v] = seen[v] /\ pc'[v] = pc[v]
        /\ cur' = cur /\ status' = status /\ age' = age /\ wait' = wait /\ attempts' = attempts
    BY <1>7 DEF FinishRead, Goto, rowVars, histVars
  <2>3. SeenDated(w)'
    BY <2>1, <2>2 DEF SeenDated, RowDated, Parked, Finished
  <2>4. \A v \in Workers : v # w => SeenDated(v)'
    BY <2>2 DEF DatedInv, SeenDated, Parked
  <2>5. \A j \in Jobs : RowDated(j)'
    BY <2>2 DEF DatedInv, RowDated
  <2> QED
    BY <2>3, <2>4, <2>5 DEF DatedInv
<1>8. ASSUME NEW w \in Workers, FinishWrite(w)
      PROVE  DatedInv'
  <2>0. PICK j \in Jobs, row \in Snapshots : j = cur[w] /\ row = seen[w]
    BY <1>8, <1>a DEF FinishWrite, Busy
  <2>1. j \in Jobs /\ attempts[j] >= 1 /\ RowDated(j) /\ SeenDated(w) /\ pc[w] = "writing"
    BY <1>8, <1>a, <2>0 DEF FinishWrite, Busy, DatedInv
  <2>a. row.attempts \in Nat /\ row.attempts >= 1 /\ row.status \in Statuses
    BY <2>0, <2>1 DEF WorkerShape, Snapshots
  <2>b. /\ row.status # "ABSENT"
        /\ row.status = "PENDING" => ~row.dated
        /\ row.status = "RUNNING" => row.dated
        /\ row.status \in Finished /\ ~row.dated => Parked(j)
    BY <2>0, <2>1 DEF SeenDated
  <2>2. \A i \in Jobs : i # j => /\ status'[i] = status[i] /\ age'[i] = age[i]
                                 /\ wait'[i] = wait[i] /\ attempts'[i] = attempts[i]
    BY <1>8, <2>0 DEF FinishWrite, MarkSucceeded, MarkForRetry, MarkFailed, MarkPermanentlyFailed
  <2>3. RowDated(j)' /\ (Parked(j) => Parked(j)')
    <3>1. CASE MarkForRetry(j, row)
      <4>1. row.attempts \in 1..MaxAttempts
        BY <2>a, <3>1, JobQueueAssumption DEF MarkForRetry
      <4>2. /\ status'[j] = Assign(j, row.status, "PENDING")
            /\ age'[j] = IF row.dated THEN Null ELSE age[j]
            /\ wait'[j] >= 1
            /\ attempts'[j] = attempts[j]
        BY <2>1, <3>1, <4>1 DEF MarkForRetry
      <4> QED
        BY <2>1, <2>a, <2>b, <4>2 DEF RowDated, Parked, Assign, Statuses, Finished
    <3>2. ASSUME NEW new \in Finished,
                 status' = [status EXCEPT ![j] = Assign(j, row.status, new)],
                 age' = age, wait' = wait
          PROVE  RowDated(j)' /\ (Parked(j) => Parked(j)')
      <4>1. /\ status'[j] = IF new = row.status THEN status[j] ELSE new
            /\ age'[j] = age[j] /\ wait'[j] = wait[j]
        BY <2>1, <3>2 DEF Assign
      <4> QED
        BY <2>1, <2>b, <3>2, <4>1 DEF RowDated, Parked, Finished
    <3>3. CASE MarkSucceeded(j, row)
      BY <3>2, <3>3 DEF MarkSucceeded, Finished
    <3>4. CASE MarkFailed(j, row)
      BY <3>2, <3>4 DEF MarkFailed, Finished
    <3>5. CASE MarkPermanentlyFailed(j, row)
      BY <3>2, <3>5 DEF MarkPermanentlyFailed, Finished
    <3> QED
      BY <1>8, <2>0, <3>1, <3>3, <3>4, <3>5 DEF FinishWrite
  <2>4. ASSUME NEW i \in Jobs, i # j
        PROVE  RowDated(i)' /\ (Parked(i) => Parked(i)')
    BY <2>2, <2>4 DEF DatedInv, RowDated, Parked
  <2>5. \A i \in Jobs : RowDated(i)' /\ (Parked(i) => Parked(i)')
    BY <2>3, <2>4
  <2> QED
    BY <1>8, <1>b, <2>5 DEF FinishWrite, Goto
<1>9. ASSUME NEW w \in Workers, Crash(w) \/ TickFails(w)
      PROVE  DatedInv'
  <2>1. PICK phase \in {"down", "sleeping"} : Forget(w, phase)
    BY <1>9 DEF Crash, TickFails
  <2> QED
    BY <2>1, <1>b DEF Forget, Goto, rowVars, histVars, DatedInv, RowDated, Parked
<1>10. CASE Tick
  <2>1. \A w \in Workers : pc[w] # "writing" /\ pc'[w] # "writing"
    BY <1>10 DEF Tick, MayPass
  <2>2. \A j \in Jobs : RowDated(j)'
    BY <1>10 DEF Tick, Older, DatedInv, RowDated, Null
  <2> QED
    BY <2>1, <2>2 DEF DatedInv, SeenDated
<1>11. CASE UNCHANGED vars
  BY <1>11, <1>b DEF vars, rowVars, histVars, DatedInv, RowDated, Parked
<1> QED
  BY <1>1, <1>2, <1>3, <1>4, <1>5, <1>6, <1>7, <1>8, <1>9, <1>10, <1>11 DEF Next, Step

\* With prompt workers the sweep can reach every RUNNING row, so no job is lost
\* to a row without started_at, whatever the batch size.
THEOREM RunningDated ==
  ASSUME Prompt, \A a \in 1..MaxAttempts : RetryDelay[a] >= 1
  PROVE  Spec => []RunningIsDated
<1>1. Init => DatedInv
  <2>1. Init => TypeInv
    BY InitTypeInv
  <2> QED
    BY <2>1 DEF Init, DatedInv, RowDated, SeenDated
<1>2. DatedInv => RunningIsDated
  BY DEF DatedInv, RowDated, RunningIsDated
<1> QED
  BY <1>1, <1>2, DatedInvStep, PTL DEF Spec

-----------------------------------------------------------------------------
(***************************************************************************)
(* Every commit is paid for by an attempt, for any batch size and however  *)
(* slow the workers.  A claim pays for one commit of each of its jobs, so  *)
(* the attempts also cover the workers that still owe the handler a run.   *)
(* Only a job without a handler has its attempts rewritten, and that one   *)
(* commits nothing.                                                        *)
(***************************************************************************)
Owing(j) == {w \in Workers : j \in batch[w] \/ Handles(w, j)}

Paid(j) == IsFiniteSet(Owing(j)) /\ effects[j] + Cardinality(Owing(j)) <= attempts[j]

PaidInv ==
  /\ TypeInv
  /\ BatchShape
  /\ \A j \in UnknownTasks : effects[j] = 0
  /\ \A j \in Jobs \ UnknownTasks : Paid(j)

\* A step that commits nothing, takes no attempt back and adds no worker.
LEMMA StillPaid ==
  ASSUME TypeInv, TypeInv', NEW j \in Jobs, Paid(j), effects'[j] = effects[j],
         attempts[j] <= attempts'[j], Owing(j)' \subseteq Owing(j)
  PROVE  Paid(j)'
<1>1. /\ IsFiniteSet(Owing(j)') /\ Cardinality(Owing(j)') <= Cardinality(Owing(j))
      /\ Cardinality(Owing(j)') \in Nat /\ Cardinality(Owing(j)) \in Nat
  BY FS_Subset, FS_CardinalityType DEF Paid
<1>2. effects[j] \in Nat /\ attempts[j] \in Nat /\ attempts'[j] \in Nat
  BY DEF TypeInv, TypeOK
<1>3. effects[j] + Cardinality(Owing(j)') <= attempts'[j]
  BY <1>1, <1>2 DEF Paid
<1> QED BY <1>1, <1>3 DEF Paid

LEMMA PaidStep ==
  ASSUME PaidInv, [Next]_vars, NEW j \in Jobs \ UnknownTasks
  PROVE  Paid(j)'
<1> DEFINE Goal == Paid(j)'
<1>0. TypeInv /\ TypeInv' /\ BatchShape /\ Paid(j)
  BY TypeInvStep DEF PaidInv
<1>a. /\ pc \in [Workers -> Phases] /\ batch \in [Workers -> SUBSET Jobs]
      /\ cur \in [Workers -> Jobs \cup {NoJob}] /\ attempts \in [Jobs -> Nat]
      /\ effects \in [Jobs -> Nat] /\ NoJob \notin Jobs
  BY <1>0, JobQueueAssumption DEF TypeInv, TypeOK
<1>b. ASSUME effects'[j] = effects[j], attempts[j] <= attempts'[j],
             Owing(j)' \subseteq Owing(j)
      PROVE  Goal
  BY <1>0, <1>b, StillPaid
<1>c. attempts[j] <= attempts[j]
  BY <1>a
<1> USE DEF Goto, rowVars, histVars, Owing, Handles
<1>1. ASSUME NEW k \in Jobs, NEW delay \in EnqueueDelays, Enqueue(k, delay)
      PROVE  Goal
  BY <1>1, <1>b, <1>c DEF Enqueue
<1>2. ASSUME NEW w \in Workers, RequeueStale(w) \/ ClaimNothing(w) \/ EndBatch(w) \/ Restart(w)
      PROVE  Goal
  BY <1>2, <1>a, <1>b, <1>c DEF RequeueStale, ClaimNothing, EndBatch, Restart
<1>3. ASSUME NEW w \in Workers, Claim(w)
      PROVE  Goal
  <2>1. PICK ids \in SUBSET Jobs :
          /\ attempts' = [i \in Jobs |-> IF i \in ids THEN attempts[i] + 1 ELSE attempts[i]]
          /\ batch' = [batch EXCEPT ![w] = ids]
    BY <1>3 DEF Claim, Batches, Due
  <2>2. effects' = effects /\ cur' = cur /\ pc[w] = "polled" /\ pc' = [pc EXCEPT ![w] = "batch"]
    BY <1>3 DEF Claim
  <2>3. CASE j \notin ids
    BY <1>a, <1>b, <1>c, <2>1, <2>2, <2>3
  <2>4. CASE j \in ids
    <3>1. Owing(j)' = Owing(j) \cup {w}
      BY <1>a, <2>1, <2>2, <2>4, <1>0 DEF BatchShape, Busy
    <3>2. /\ IsFiniteSet(Owing(j)')
          /\ Cardinality(Owing(j)') <= Cardinality(Owing(j)) + 1
          /\ Cardinality(Owing(j)) \in Nat /\ Cardinality(Owing(j)') \in Nat
      <4> HIDE DEF Owing
      <4>1. IsFiniteSet(Owing(j)) /\ Cardinality(Owing(j)) \in Nat
        BY <1>0, FS_CardinalityType DEF Paid
      <4> QED BY <3>1, <4>1, FS_AddElement
    <3>3. effects'[j] = effects[j] /\ attempts'[j] = attempts[j] + 1
      BY <1>a, <2>1, <2>2, <2>4
    <3> HIDE DEF Owing
    <3>4. effects'[j] + Cardinality(Owing(j)') <= attempts'[j]
      BY <1>0, <1>a, <3>2, <3>3 DEF Paid
    <3> QED BY <3>2, <3>4 DEF Paid
  <2> QED BY <2>3, <2>4
<1>4. ASSUME NEW w \in Workers, NEW k \in Jobs, StartJob(w, k)
      PROVE  Goal
  BY <1>4, <1>a, <1>b, <1>c DEF StartJob
<1>5. ASSUME NEW w \in Workers, HandlerCommits(w)
      PROVE  Goal
  <2>1. /\ pc[w] = "handling" /\ cur[w] \in Jobs /\ cur[w] \notin batch[w]
        /\ effects' = [effects EXCEPT ![cur[w]] = @ + 1]
        /\ pc' = [pc EXCEPT ![w] = "finishing"]
        /\ UNCHANGED <<attempts, batch, cur>>
    BY <1>5, <1>0, <1>a DEF HandlerCommits, EndHandler, BatchShape, Busy, TypeInv, WorkerShape
  <2>2. CASE cur[w] # j
    BY <1>a, <1>b, <1>c, <2>1, <2>2
  <2>3. CASE cur[w] = j
    <3>1. Owing(j)' = Owing(j) \ {w} /\ w \in Owing(j)
      BY <1>a, <2>1, <2>3
    <3> HIDE DEF Owing
    <3>2. /\ IsFiniteSet(Owing(j)')
          /\ Cardinality(Owing(j)') = Cardinality(Owing(j)) - 1
          /\ Cardinality(Owing(j)) \in Nat
      BY <1>0, <3>1, FS_RemoveElement, FS_CardinalityType DEF Paid
    <3>3. effects'[j] = effects[j] + 1 /\ attempts'[j] = attempts[j]
      BY <1>a, <2>1, <2>3
    <3>4. effects'[j] + Cardinality(Owing(j)') <= attempts'[j]
      BY <1>0, <1>a, <3>2, <3>3 DEF Paid
    <3> QED BY <3>2, <3>4 DEF Paid
  <2> QED BY <2>2, <2>3
<1>6. ASSUME NEW w \in Workers, HandlerRaises(w)
      PROVE  Goal
  BY <1>6, <1>a, <1>b, <1>c DEF HandlerRaises, EndHandler
<1>7. ASSUME NEW w \in Workers, FinishRead(w)
      PROVE  Goal
  BY <1>7, <1>a, <1>b, <1>c DEF FinishRead
<1>8. ASSUME NEW w \in Workers, FinishWrite(w)
      PROVE  Goal
  <2>1. /\ effects' = effects /\ batch' = batch /\ pc[w] = "writing"
        /\ pc' = [pc EXCEPT ![w] = "batch"] /\ cur' = [cur EXCEPT ![w] = NoJob]
    BY <1>8 DEF FinishWrite
  <2>2. attempts'[j] = attempts[j]
    <3>1. CASE outcome[w] = "permanent"
      BY <1>8, <1>0, <1>a, <3>1
         DEF FinishWrite, MarkSucceeded, MarkForRetry, MarkFailed, MarkPermanentlyFailed,
             BatchShape
    <3>2. CASE outcome[w] # "permanent"
      BY <1>8, <3>2 DEF FinishWrite, MarkSucceeded, MarkForRetry, MarkFailed
    <3> QED BY <3>1, <3>2
  <2> QED BY <1>a, <1>b, <1>c, <2>1, <2>2
<1>9. ASSUME NEW w \in Workers, Crash(w) \/ TickFails(w)
      PROVE  Goal
  <2>1. PICK phase \in {"down", "sleeping"} : Forget(w, phase)
    BY <1>9 DEF Crash, TickFails
  <2> QED BY <1>a, <1>b, <1>c, <2>1 DEF Forget
<1>10. CASE Tick
  BY <1>10, <1>a, <1>b, <1>c DEF Tick
<1>11. CASE UNCHANGED vars
  BY <1>11, <1>b, <1>c DEF vars
<1> QED
  BY <1>1, <1>2, <1>3, <1>4, <1>5, <1>6, <1>7, <1>8, <1>9, <1>10, <1>11 DEF Next, Step

LEMMA PaidInvStep == PaidInv /\ [Next]_vars => PaidInv'
<1> SUFFICES ASSUME PaidInv, [Next]_vars
             PROVE  PaidInv'
  OBVIOUS
<1>1. TypeInv' /\ BatchShape'
  BY TypeInvStep, BatchShapeStep DEF PaidInv
<1>2. ASSUME NEW j \in UnknownTasks PROVE effects'[j] = 0
  <2>1. effects[j] = 0 /\ effects \in [Jobs -> Nat]
    BY DEF PaidInv, TypeInv, TypeOK
  <2>2. ASSUME NEW w \in Workers, HandlerCommits(w) PROVE effects'[j] = 0
    BY <2>1, <2>2 DEF HandlerCommits, PaidInv, BatchShape
  <2>3. (\E w \in Workers : HandlerCommits(w)) \/ effects' = effects
    BY DEF Next, Step, Enqueue, RequeueStale, Claim, ClaimNothing, StartJob, EndBatch,
       HandlerRaises, FinishRead, FinishWrite, Restart, Crash, TickFails, Forget, Tick, vars,
       histVars
  <2> QED BY <2>1, <2>2, <2>3
<1>3. \A j \in Jobs \ UnknownTasks : Paid(j)'
  BY PaidStep
<1> QED BY <1>1, <1>2, <1>3 DEF PaidInv

\* However the workers are held up or killed, and whatever the batch size, a
\* handler commits at most as often as its job was claimed.
THEOREM RunsCounted == Spec => []RunsAreCounted
<1>1. Init => PaidInv
  <2> SUFFICES ASSUME Init PROVE PaidInv
    OBVIOUS
  <2>1. TypeInv
    BY InitTypeInv
  <2>2. \A j \in Jobs : Owing(j) = {} /\ effects[j] = 0 /\ attempts[j] = 0
    BY DEF Init, Owing, Handles
  <2>3. \A j \in Jobs : Paid(j)
    BY <2>2, FS_EmptySet DEF Paid
  <2>4. BatchShape
    BY DEF Init, BatchShape, Busy
  <2> QED BY <2>1, <2>2, <2>3, <2>4, JobQueueAssumption DEF PaidInv
<1>2. PaidInv => RunsAreCounted
  <2> SUFFICES ASSUME PaidInv, NEW j \in Jobs PROVE effects[j] <= attempts[j]
    BY DEF RunsAreCounted
  <2>1. effects[j] \in Nat /\ attempts[j] \in Nat
    BY DEF PaidInv, TypeInv, TypeOK
  <2>2. CASE j \in UnknownTasks
    BY <2>1, <2>2 DEF PaidInv
  <2>3. CASE j \notin UnknownTasks
    <3>1. Cardinality(Owing(j)) \in Nat /\ effects[j] + Cardinality(Owing(j)) <= attempts[j]
      BY <2>3, FS_CardinalityType DEF PaidInv, Paid
    <3> QED BY <2>1, <3>1
  <2> QED BY <2>2, <2>3
<1> QED BY <1>1, <1>2, PaidInvStep, PTL DEF Spec

-----------------------------------------------------------------------------
(***************************************************************************)
(* Workers whom row-level security confines.                               *)
(***************************************************************************)
\* No row was ever claimed, and no worker is past its poll.
NothingClaimed ==
  /\ \A j \in Jobs : status[j] \in {"ABSENT", "PENDING"} /\ effects[j] = 0
  /\ \A w \in Workers : pc[w] \in {"down", "sleeping", "idle", "polled"}

\* Workers that row-level security applies to pick no job at all, whatever is
\* enqueued and however long they poll: the policy on jobs shows a session
\* without a tenant no row (migration 0017 against JobClaimRepository.claim).
THEOREM ConfinedPickNothing ==
  ASSUME ~BypassRLS
  PROVE  Spec => [](\A j \in Jobs : status[j] \in {"ABSENT", "PENDING"} /\ effects[j] = 0)
<1>1. Init => NothingClaimed
  BY DEF Init, NothingClaimed
<1>2. TypeInv /\ NothingClaimed /\ [Next]_vars => NothingClaimed'
  <2>. SUFFICES ASSUME TypeInv, NothingClaimed, [Next]_vars PROVE NothingClaimed'
    OBVIOUS
  <2>. USE DEF NothingClaimed, rowVars, histVars, Goto
  <2>0. /\ status \in [Jobs -> Statuses] /\ pc \in [Workers -> Phases]
        /\ effects \in [Jobs -> Nat]
        /\ \A j \in Jobs : ~Visible(j)
    BY DEF TypeInv, TypeOK, Visible
  <2>1. ASSUME NEW j \in Jobs, NEW delay \in EnqueueDelays, Enqueue(j, delay)
        PROVE  NothingClaimed'
    BY <2>0, <2>1 DEF Enqueue
  <2>2. ASSUME NEW w \in Workers, RequeueStale(w) \/ Restart(w) PROVE NothingClaimed'
    BY <2>0, <2>2 DEF RequeueStale, Stale, Restart
  <2>3. ASSUME NEW w \in Workers, Claim(w) \/ ClaimNothing(w) PROVE NothingClaimed'
    BY <2>0, <2>3 DEF Claim, ClaimNothing, Due
  <2>4. ASSUME NEW w \in Workers, NEW j \in Jobs, StartJob(w, j) PROVE NothingClaimed'
    BY <2>4 DEF StartJob
  <2>5. ASSUME NEW w \in Workers, Crash(w) \/ TickFails(w) PROVE NothingClaimed'
    BY <2>0, <2>5 DEF Crash, TickFails, Forget
  <2>6. CASE Tick \/ UNCHANGED vars
    BY <2>0, <2>6 DEF Tick, vars
  <2>7. ASSUME NEW w \in Workers,
               \/ EndBatch(w) \/ HandlerCommits(w) \/ HandlerRaises(w)
               \/ FinishRead(w) \/ FinishWrite(w)
        PROVE  NothingClaimed'
    BY <2>7 DEF EndBatch, HandlerCommits, HandlerRaises, FinishRead, FinishWrite
  <2>. HIDE DEF NothingClaimed
  <2>. QED BY <2>1, <2>2, <2>3, <2>4, <2>5, <2>6, <2>7 DEF Next, Step
<1>3. NothingClaimed => \A j \in Jobs : status[j] \in {"ABSENT", "PENDING"} /\ effects[j] = 0
  BY DEF NothingClaimed
<1>. QED BY <1>1, <1>2, <1>3, InitTypeInv, TypeInvStep, PTL DEF Spec
=============================================================================
