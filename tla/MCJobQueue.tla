----------------------------- MODULE MCJobQueue -----------------------------
(***************************************************************************)
(* Small instances of JobQueue for TLC: the first retry waits one tick,    *)
(* the next one two, as retry_backoff_seconds * 2^(attempts - 1) does.     *)
(***************************************************************************)
EXTENDS JobQueue, TLC

MCRetryDelay == [a \in 1..MaxAttempts |-> 2^(a - 1)]

\* The workers, and the jobs with a handler, are interchangeable.  Used by the
\* runs that check no liveness.
Symmetry == Permutations(Workers) \cup Permutations(Jobs \ UnknownTasks)

=============================================================================
