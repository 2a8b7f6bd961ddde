--------------------------- MODULE ProviderBreaker ---------------------------
(***************************************************************************)
(* The circuit breaker of the status worker (_provider_failures in         *)
(* backend/transformerlab/services/remote_job_status_service.py).  Every   *)
(* cycle walks over the polled jobs; a job's provider is queried unless    *)
(* the provider is backed off.                                             *)
(***************************************************************************)
EXTENDS Naturals

CONSTANTS
    PolledJobs,
    Providers,
    Provider,        \* Provider[j]: the provider job j runs on
    FailureLimit,    \* _PROVIDER_FAILURE_THRESHOLD
    BackoffCycles    \* _PROVIDER_BACKOFF_CYCLES

ASSUME BreakerAssumption == /\ Provider \in [PolledJobs -> Providers]
                            /\ FailureLimit \in Nat \ {0}
                            /\ BackoffCycles \in Nat \ {0}

VARIABLES
    failures, skip,  \* _provider_failures[p], {0, 0} when absent
    todo,            \* polled jobs this cycle has still to visit
    run              \* history: failed queries of p since it last answered

state == <<failures, skip>>
breakerVars == <<state, todo, run>>

\* The history is only compared with FailureLimit, so it stops there.
AtMost(n, limit) == IF n < limit THEN n ELSE limit

BreakerInit ==
    /\ failures = [p \in Providers |-> 0]
    /\ skip = [p \in Providers |-> 0]
    /\ todo = {}
    /\ run = [p \in Providers |-> 0]

\* A cycle lists the jobs that are polled now.
BeginCycle ==
    /\ todo = {}
    /\ todo' \in SUBSET PolledJobs
    /\ UNCHANGED <<state, run>>

\* Mutant: a backed-off provider is skipped without counting down.
SkippedForGood(j) ==
    /\ j \in todo /\ skip[Provider[j]] > 0
    /\ todo' = todo \ {j}
    /\ UNCHANGED <<state, run>>

\* _is_provider_backed_off: skip the job and count down.
Skipped(j) ==
    LET p == Provider[j] IN
    /\ j \in todo /\ skip[p] > 0
    /\ todo' = todo \ {j}
    /\ skip' = [skip EXCEPT ![p] = @ - 1]
    /\ UNCHANGED <<failures, run>>

\* The provider answers: _record_provider_success drops its entry.
Answers(j) ==
    LET p == Provider[j] IN
    /\ j \in todo /\ skip[p] = 0
    /\ todo' = todo \ {j}
    /\ failures' = [failures EXCEPT ![p] = 0]
    /\ skip' = [skip EXCEPT ![p] = 0]
    /\ run' = [run EXCEPT ![p] = 0]

\* The query raises: _record_provider_failure.
Raises(j) ==
    LET p == Provider[j] IN
    /\ j \in todo /\ skip[p] = 0
    /\ todo' = todo \ {j}
    /\ run' = [run EXCEPT ![p] = AtMost(@ + 1, FailureLimit)]
    /\ \/ /\ failures[p] + 1 < FailureLimit
          /\ failures' = [failures EXCEPT ![p] = @ + 1]
          /\ UNCHANGED skip
       \/ /\ failures[p] + 1 >= FailureLimit
          /\ failures' = [failures EXCEPT ![p] = 0]
          /\ skip' = [skip EXCEPT ![p] = BackoffCycles]

Query(j) == Answers(j) \/ Raises(j)

BreakerNext == BeginCycle \/ \E j \in PolledJobs : Skipped(j) \/ Query(j)

\* The worker's loop never ends.
BreakerSpec == BreakerInit /\ [][BreakerNext]_breakerVars /\ WF_breakerVars(BreakerNext)

-----------------------------------------------------------------------------
(* Properties. *)

BreakerTypes ==
    /\ failures \in [Providers -> 0..(FailureLimit - 1)]
    /\ skip \in [Providers -> 0..BackoffCycles]
    /\ todo \subseteq PolledJobs
    /\ run \in [Providers -> 0..FailureLimit]

\* A provider is backed off only after FailureLimit failures in a row, over all
\* its jobs, with no answer in between; and the stored count is never ahead of
\* the failures that happened.
TripsOnConsecutive ==
    \A p \in Providers : /\ skip[p] > 0 => run[p] = FailureLimit
                         /\ failures[p] <= run[p]

\* Backing off ends: a provider whose jobs are polled again and again is
\* eventually open to queries, whatever the jobs of other providers do.
QueriedAgain ==
    \A p \in Providers :
        []<>(\E j \in todo : Provider[j] = p) => (skip[p] > 0 ~> skip[p] = 0)

=============================================================================
